------------------------- MODULE CoroutineRootsProps -------------------------
(***************************************************************************)
(* What the collector must guarantee to coroutines, and the inductive       *)
(* invariant behind it where it holds.                                      *)
(***************************************************************************)
EXTENDS CoroutineRoots

(* "The GC must never free a value the program still uses" (doc/internals/  *)
(* runtime.md) although "coroutine switches stash and reload the whole      *)
(* chain": what the frames of a coroutine hold that runs, waits or is       *)
(* suspended is not freed.                                                  *)
HeldNotFreed ==
    \A t \in Thread : status[t] \in {"running", "normal", "suspended"} => held[t] \subseteq heap

-----------------------------------------------------------------------------
(* The inductive invariant, for programs that collect on the main thread.   *)
(* Every other coroutine is then suspended: an old one that holds a value   *)
(* that is not old is remembered since it yielded.                          *)
SuspendedRemembered ==
    \A t \in Thread :
        status[t] = "suspended" /\ age[t] = "old" /\ NonOld(held[t]) # {} => t \in rem

(* A value on its way is in the heap until it is taken in. *)
SentNotFreed ==
    /\ at[running] \in {"entry", "yielding"} => sent[running] \subseteq heap
    /\ at[running] = "resuming" => gave[target[running]] \subseteq heap

(* A coroutine that was not started has no frames. *)
UnstartedHoldNothing == \A t \in Thread : at[t] = "entry" => held[t] = {}

DueWhereCollected == due => InBody /\ running \in CollectsOn

RootsIInv ==
    /\ RootsTypeOK
    /\ HeldNotFreed
    /\ SuspendedRemembered
    /\ SentNotFreed
    /\ UnstartedHoldNothing
    /\ DueWhereCollected
=============================================================================

------------------------------ MODULE GCProps ------------------------------
(***************************************************************************)
(* What the collector of GC must guarantee, and the inductive invariant     *)
(* behind it.                                                               *)
(***************************************************************************)
EXTENDS GC

(* "The GC must never free a value the program still uses"                  *)
(* (doc/internals/runtime.md): nothing reachable from the globals and the   *)
(* root frames is on a free list, whatever interleaving of stores, aging,   *)
(* minors and majors led there.                                             *)
NoLiveFreed == Live \cap Pool = {}

(* A finalizer can be called: the metatable of a table waiting for its __gc *)
(* and the closure it holds were not swept with it (comment in gc_minor,    *)
(* "only reachable through the dead object").                               *)
FinalizerCallable ==
    \A o \in Finalizable : MetaOf({o}) \cup GcFun(o) \subseteq Heap

(* The object a finalizer is given is as the program left it: none of its   *)
(* children was freed before it ran.                                        *)
FinalizerArgIntact ==
    running # Nil => fields[running] \cap Pool = {}

(* A full collection takes back all garbage: what survives it without being *)
(* usable was allocated since the last collection, is held by the           *)
(* metatable of a dead table, or is pinned; an old table that a write       *)
(* barrier remembered does not outlive its last reference.                  *)
MajorReclaims ==
    [][Major => \A o \in Heap :
            where'[o] = "heap" =>
                o \in Closure(Roots \cup recent \cup MetaOf(DeadWithMeta), KidsMap) \cup pinned
      ]_vars

-----------------------------------------------------------------------------
(* The inductive invariant.  A minor traces no old object, so every young   *)
(* child an old object keeps in a field or a captured variable must be      *)
(* found some other way: its owner is remembered, the cell that holds it is *)
(* remembered, or the child is.  A young metatable needs none of these: the *)
(* pass that protects the metatables of unmarked tables finds it.           *)
RememberedComplete ==
    \A o \in Live : age[o] = "old" =>
        /\ \A k \in NonOld(fields[o]) : o \in rem \/ k \in rem
        /\ \A c \in caps[o] : cell[c] # Nil /\ age[cell[c]] # "old" =>
                o \in rem \/ c \in remCell \/ cell[c] \in rem

(* When a full collection is due, the minor before it has aged everything   *)
(* the program can use, so no object turns old without being scanned.       *)
AgedBeforeMajor ==
    phase = "major" \/ (phase = "minorDrain" /\ full)
        => mode = "generational" /\ \A o \in Live : age[o] # "young"

(* The object whose finalizer runs is still on gc_finalizable. *)
RunningIsFinalizable == running # Nil => running \in Finalizable

IInv ==
    /\ TypeOK
    /\ Live \subseteq Heap
    /\ RememberedComplete
    /\ AgedBeforeMajor
    /\ RunningIsFinalizable
    /\ pinned = {}

-----------------------------------------------------------------------------
(* Fairness: a program that goes on collects everything again and again      *)
(* (collectgarbage("collect"), or the threshold of old bytes that gc_minor    *)
(* watches), and a full collection that is due is carried out.  Finalizers    *)
(* that never return are left out.  Both are stated for the phase alone.     *)
StartsFull == phase # "major" /\ phase' = "major"
EndsFull == phase = "major" /\ phase' \in {"idle", "majorDrain"}

FairSpec == Spec /\ WF_phase(StartsFull) /\ WF_phase(EndsFull)

Garbage == Heap \ Live

(* "Major collection: a full mark-and-sweep" (doc/internals/runtime.md): an   *)
(* object that the program cannot use any more is eventually taken back, or  *)
(* a finalizer makes it usable again.                                       *)
Reclaimed == \A o \in Obj : o \in Garbage ~> o \notin Garbage

-----------------------------------------------------------------------------
(* GC implements the ideal heap: a collection is a step that takes memory   *)
(* back from objects the program cannot use, and changes nothing else it    *)
(* could see.                                                               *)
Ideal == INSTANCE IdealHeap WITH
            alloc <- Obj \ Pool,
            kids <- KidsMap,
            roots <- Roots

IdealSpec == Ideal!Spec
=============================================================================

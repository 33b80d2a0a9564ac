---------------------------- MODULE CoroutineRoots ----------------------------
(***************************************************************************)
(* Coroutine composed with the collector of GC: which values the frames of  *)
(* coroutines keep alive while control moves between them (the thread       *)
(* branches of gc.cpp, the barriers in threads.cpp).  Values are leaves.    *)
(* Every coroutine is reachable from the globals until create_thread        *)
(* recycles it, so a collection marks every coroutine it could mark.  The   *)
(* collector is in generational mode and no finalizer runs.                 *)
(***************************************************************************)
EXTENDS Coroutine

CONSTANTS
    Val,        \* collectable values: tables, closures, userdata
    Holders,    \* threads whose frames hold values
    Resumers,   \* threads that resume coroutines
    CollectsOn, \* threads in whose bodies a collection starts
    MaxHeld     \* bound: values held by the frames of one thread

ASSUME ValAssumption == IsFiniteSet(Val) /\ Val \cap (Thread \cup {Nil}) = {}
ASSUME ActorsAssumption == Holders \cup Resumers \cup CollectsOn \subseteq Thread

VARIABLES
    held,       \* the values in the root frames a thread opened
    sent, gave, \* the values in LThread::resume_args and yield_args
    heap,       \* the values that are not on a free list
    age,        \* LHeader::age of values and threads
    rem,        \* the threads on gc_remembered
    mainMarked, \* main_thread->marked: main_thread is on no chain that a sweep walks
    due         \* collect_garbage has done its minor, the full one follows

frameVars == <<held, sent, gave>>
heapVars == <<heap, age, rem, mainMarked, due>>
allVars == <<vars, frameVars, heapVars>>

RootsTypeOK ==
    /\ TypeOK
    /\ held \in [Thread -> SUBSET Val]
    /\ sent \in [Thread -> SUBSET Val] /\ gave \in [Thread -> SUBSET Val]
    /\ heap \subseteq Val
    /\ age \in [Thread \cup Val -> {"young", "survivor", "old"}]
    /\ rem \subseteq Thread
    /\ mainMarked \in BOOLEAN /\ due \in BOOLEAN

NonOld(S) == {x \in S : age[x] # "old"}

-----------------------------------------------------------------------------
(* The program: its frames, and the values that resume and yield carry. *)

Acts == InBody /\ ~due

NewValue(v) ==
    /\ Acts /\ v \notin heap /\ running \in Holders
    /\ Cardinality(held[running]) < MaxHeld
    /\ heap' = heap \cup {v}
    /\ age' = [age EXCEPT ![v] = "young"]
    /\ held' = [held EXCEPT ![running] = @ \cup {v}]
    /\ UNCHANGED <<vars, sent, gave, rem, mainMarked, due>>

Drop(v) ==
    /\ Acts /\ v \in held[running]
    /\ held' = [held EXCEPT ![running] = @ \ {v}]
    /\ UNCHANGED <<vars, sent, gave, heapVars>>

CreateThread(t) ==
    /\ Acts /\ Create(t)
    /\ age' = [age EXCEPT ![t] = "young"]
    /\ rem' = rem \ {t}
    /\ held' = [held EXCEPT ![t] = {}]
    /\ sent' = [sent EXCEPT ![t] = {}]
    /\ gave' = [gave EXCEPT ![t] = {}]
    /\ UNCHANGED <<heap, mainMarked, due>>

(* gc_barrier_header for each value that is handed to an old thread. *)
BarrierOn(t, S) == IF age[t] = "old" /\ NonOld(S) # {} THEN rem \cup {t} ELSE rem

ResumeWith(t, S) ==
    /\ Acts /\ running \in Resumers /\ S \subseteq held[running]
    /\ Resume(t, Cardinality(S))
    /\ sent' = [sent EXCEPT ![t] = S]
    /\ rem' = BarrierOn(t, S)
    /\ UNCHANGED <<held, gave, heap, age, mainMarked, due>>

CloseThread(t, who) ==
    /\ Acts /\ running \in Resumers
    /\ Close(t, who)
    /\ sent' = [sent EXCEPT ![t] = {}]
    /\ UNCHANGED <<held, gave, heapVars>>

(* A thread that holds values keeps those it receives in its frames; the    *)
(* first time a coroutine runs, its resume_args are emptied.                *)
TakesIn(S) ==
    held' = IF running \in Holders THEN [held EXCEPT ![running] = @ \cup S] ELSE held

StartBodyWith ==
    /\ StartBody
    /\ TakesIn(sent[running])
    /\ sent' = [sent EXCEPT ![running] = {}]
    /\ UNCHANGED <<gave, heapVars>>

(* Mutant: a coroutine that suspends is remembered only for what it yields. *)
YieldUnremembered(S) ==
    /\ Acts /\ S \subseteq held[running]
    /\ Yield(Cardinality(S))
    /\ gave' = [gave EXCEPT ![running] = S]
    /\ rem' = BarrierOn(running, S)
    /\ UNCHANGED <<held, sent, heap, age, mainMarked, due>>

(* "An old suspended thread is only rescanned if remembered". *)
YieldWith(S) ==
    /\ Acts /\ S \subseteq held[running]
    /\ Yield(Cardinality(S))
    /\ gave' = [gave EXCEPT ![running] = S]
    /\ rem' = IF age[running] = "old" THEN rem \cup {running} ELSE rem
    /\ UNCHANGED <<held, sent, heap, age, mainMarked, due>>

(* The body ends; its frames are popped, and no barrier sees its results.  *)
Ends(S) ==
    /\ gave' = [gave EXCEPT ![running] = S]
    /\ held' = [held EXCEPT ![running] = {}]
    /\ UNCHANGED <<sent, heapVars>>

ReturnWith(S) ==
    /\ Acts /\ S \subseteq held[running]
    /\ Return(Cardinality(S)) /\ Ends(S)

ResumeReturnsWith ==
    /\ ResumeReturns
    /\ TakesIn(gave[target[running]])
    /\ UNCHANGED <<sent, gave, heapVars>>

Program ==
    \/ \E v \in Val : NewValue(v) \/ Drop(v)
    \/ \E t \in Thread :
          \/ CreateThread(t)
          \/ \E S \in SUBSET held[running] : ResumeWith(t, S)
          \/ \E who \in Closers : CloseThread(t, who)
          \/ Acts /\ CloseUnstarted(t) /\ UNCHANGED <<frameVars, heapVars>>
    \/ StartBodyWith
    \/ \E S \in SUBSET held[running] : YieldWith(S) \/ ReturnWith(S)
    \/ Acts /\ Raise /\ Ends({})
    \/ Resumed /\ TakesIn(sent[running]) /\ UNCHANGED <<sent, gave, heapVars>>
    \/ ClosingUncaught /\ Ends({})
    \/ ClosingCaught /\ UNCHANGED <<frameVars, heapVars>>
    \/ ResumeReturnsWith
    \/ CloseReturns /\ UNCHANGED <<frameVars, heapVars>>

-----------------------------------------------------------------------------
(* The collector. *)

FramesOf(owner) == IF owner = Nil THEN {} ELSE held[owner]

(* What gc_trace_thread_young finds in a thread, its caller apart.  The     *)
(* frames of the running thread are in LState, and scanned from there.      *)
Refs(t) == FramesOf(top_root[t]) \cup sent[t] \cup gave[t]

Coroutines == {t \in Thread \ {Main} : status[t] # "none"}

(* The main thread is pushed if its mark is clear, which it is once. *)
MainPushed == IF mainMarked THEN {} ELSE {Main}

(* gc_minor traces the threads that are not old, and the remembered ones. *)
MinorTraced == NonOld(Coroutines) \cup rem \cup MainPushed

HasNonOld(t) ==
    NonOld(Refs(t) \cap heap) # {} \/ NonOld({caller[t]} \ {Nil}) # {}

NextAge(a) == IF a = "young" THEN "survivor" ELSE "old"

Minor(wantFull) ==
    /\ Acts /\ running \in CollectsOn
    /\ LET marked == heap \cap (FramesOf(loaded) \cup UNION {Refs(t) : t \in MinorTraced})
           aged == NonOld(marked \cup Coroutines)
           promoted == {x \in aged : age[x] = "survivor"}
           newAge == [x \in Thread \cup Val |-> IF x \in aged THEN NextAge(age[x]) ELSE age[x]]
           found(t) == (Refs(t) \cap heap) \cup ({caller[t]} \ {Nil})
           \* scanned when the sweep comes to it, before or after what it refers to
           surely == {t \in promoted \cap Thread : \E x \in found(t) : newAge[x] # "old"}
           perhaps == {t \in promoted \cap Thread : (found(t) \ {t}) \cap promoted # {}}
       IN
       /\ heap' = heap \ (NonOld(heap) \ marked)
       /\ age' = newAge
       /\ \E spurious \in SUBSET perhaps :
             rem' = {t \in rem : age[t] # "old" \/ HasNonOld(t)} \cup surely \cup spurious
    /\ mainMarked' = TRUE
    /\ due' = wantFull
    /\ UNCHANGED <<vars, frameVars>>

(* collect_garbage_full marks threads of any age; gc_step makes every       *)
(* survivor of the sweep old and scans no thread that it promotes.          *)
Full ==
    /\ due
    /\ LET marked == heap \cap (FramesOf(loaded) \cup UNION {Refs(t) : t \in Coroutines \cup MainPushed})
           promoted == marked \cup (Coroutines \ rem)
       IN
       /\ heap' = marked
       /\ age' = [x \in Thread \cup Val |-> IF x \in promoted THEN "old" ELSE age[x]]
    /\ mainMarked' = TRUE
    /\ due' = FALSE
    /\ UNCHANGED <<vars, frameVars, rem>>

RootsInit ==
    /\ Init
    /\ held = [t \in Thread |-> {}]
    /\ sent = [t \in Thread |-> {}] /\ gave = [t \in Thread |-> {}]
    /\ heap = {}
    /\ age = [x \in Thread \cup Val |-> "young"]
    /\ rem = {} /\ mainMarked = FALSE /\ due = FALSE

RootsNext == Program \/ (\E wantFull \in BOOLEAN : Minor(wantFull)) \/ Full

RootsSpec == RootsInit /\ [][RootsNext]_allVars
=============================================================================

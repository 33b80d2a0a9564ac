------------------------------ MODULE Coroutine ------------------------------
(***************************************************************************)
(* Coroutines of the clx runtime: src/runtime/threads.cpp, the coroutine    *)
(* library (coroutine.cpp), and lua_resume and lua_closethread              *)
(* (luaapi.cpp).  One coroutine runs at a time; control moves by switching  *)
(* machine contexts, so each coroutine goes on where it last switched away, *)
(* which "at" remembers.  A message is abstracted to its number of values,  *)
(* and a coroutine's chain of root frames to the coroutine that owns it.    *)
(***************************************************************************)
EXTENDS Naturals, Sequences, FiniteSets

CONSTANTS
    Thread,     \* LThread objects
    Main,       \* main_thread
    Nil,
    Counts,     \* numbers of values programs pass
    EntryArgs,  \* values a body is started with at most (args[8])
    Resumable,  \* status of the coroutines programs resume
    Closers     \* "lib" coroutine.close, "capi" lua_closethread

ASSUME MainAssumption == Main \in Thread /\ Nil \notin Thread
ASSUME CountsAssumption == Counts \subseteq Nat /\ EntryArgs \in Nat
ASSUME ResumableAssumption == Resumable \subseteq {"suspended", "running", "normal"}
ASSUME ClosersAssumption == Closers \subseteq {"lib", "capi"}

VARIABLES
    running,        \* LState::running_thread
    status,         \* LThread::status, "none" before it is created
    caller,
    started,
    resume_args, yield_args,    \* how many values wait there
    has_error,
    close_requested,
    top_root,       \* LThread::top_root, the frames stashed in a thread
    loaded,         \* LState::top_root, the frames the collector scans
    at,             \* where a coroutine goes on
    target,         \* whom it waits for in resume or close_thread
    got             \* how many values it received last

control == <<running, status, caller, started>>
roots == <<top_root, loaded>>
vars == <<control, resume_args, yield_args, has_error, close_requested, roots,
          at, target, got>>

TypeOK ==
    /\ running \in Thread
    /\ status \in [Thread -> {"none", "suspended", "running", "normal", "dead"}]
    /\ caller \in [Thread -> Thread \cup {Nil}]
    /\ started \in [Thread -> BOOLEAN]
    /\ resume_args \in [Thread -> Nat] /\ yield_args \in [Thread -> Nat]
    /\ has_error \in [Thread -> BOOLEAN] /\ close_requested \in [Thread -> BOOLEAN]
    /\ top_root \in [Thread -> Thread \cup {Nil}] /\ loaded \in Thread \cup {Nil}
    /\ at \in [Thread -> {"entry", "body", "resuming", "closing", "capiClosing",
                          "yielding", "returned", "raised"}]
    /\ target \in [Thread -> Thread \cup {Nil}]
    /\ got \in [Thread -> Nat]

-----------------------------------------------------------------------------
Init ==
    /\ running = Main
    /\ status = [t \in Thread |-> IF t = Main THEN "running" ELSE "none"]
    /\ caller = [t \in Thread |-> Nil]
    /\ started = [t \in Thread |-> FALSE]
    /\ resume_args = [t \in Thread |-> 0] /\ yield_args = [t \in Thread |-> 0]
    /\ has_error = [t \in Thread |-> FALSE]
    /\ close_requested = [t \in Thread |-> FALSE]
    /\ top_root = [t \in Thread |-> Nil] /\ loaded = Main
    /\ at = [t \in Thread |-> IF t = Main THEN "body" ELSE "entry"]
    /\ target = [t \in Thread |-> Nil]
    /\ got = [t \in Thread |-> 0]

InBody == at[running] = "body"

(* create_thread: a new thread, or one from the free list, where a thread  *)
(* goes that was collected, ended or not; everything it was is reset.       *)
Create(t) ==
    /\ InBody /\ status[t] \in {"none", "suspended", "dead"}
    /\ status' = [status EXCEPT ![t] = "suspended"]
    /\ caller' = [caller EXCEPT ![t] = Nil]
    /\ started' = [started EXCEPT ![t] = FALSE]
    /\ resume_args' = [resume_args EXCEPT ![t] = 0]
    /\ yield_args' = [yield_args EXCEPT ![t] = 0]
    /\ has_error' = [has_error EXCEPT ![t] = FALSE]
    /\ close_requested' = [close_requested EXCEPT ![t] = FALSE]
    /\ top_root' = [top_root EXCEPT ![t] = Nil]
    /\ at' = [at EXCEPT ![t] = "entry"]
    /\ UNCHANGED <<running, loaded, target, got>>

(* resume: the caller's frames are stashed, the callee's loaded, and the    *)
(* machine switches to the callee.                                          *)
Enter(t, n, how) ==
    /\ resume_args' = [resume_args EXCEPT ![t] = n]
    /\ has_error' = [has_error EXCEPT ![t] = FALSE]
    /\ started' = [started EXCEPT ![t] = TRUE]
    /\ caller' = [caller EXCEPT ![t] = running]
    /\ status' = [status EXCEPT ![running] = "normal", ![t] = "running"]
    /\ LET stashed == [top_root EXCEPT ![running] = loaded]
       IN  loaded' = stashed[t] /\ top_root' = [stashed EXCEPT ![t] = Nil]
    /\ running' = t
    /\ at' = [at EXCEPT ![running] = how]
    /\ target' = [target EXCEPT ![running] = t]

(* Mutant: resume of a coroutine that waits for another. *)
ResumeWaiting(t, n) ==
    /\ InBody /\ status[t] \in {"suspended", "normal"} /\ t # Main
    /\ Enter(t, n, "resuming")
    /\ UNCHANGED <<yield_args, close_requested, got>>

(* coroutine.resume, a wrapped coroutine and lua_resume.  The library       *)
(* refuses dead coroutines only; Resumable says what else programs avoid.   *)
Resume(t, n) ==
    /\ InBody /\ status[t] \in Resumable
    /\ Enter(t, n, "resuming")
    /\ UNCHANGED <<yield_args, close_requested, got>>

(* close_thread on a suspended coroutine; every other status is refused or  *)
(* changes nothing.                                                         *)
Close(t, who) ==
    /\ InBody /\ status[t] = "suspended"
    /\ who = "capi" => started[t]
    /\ close_requested' = [close_requested EXCEPT ![t] = TRUE]
    /\ Enter(t, 0, IF who = "lib" THEN "closing" ELSE "capiClosing")
    /\ UNCHANGED <<yield_args, got>>

(* lua_closethread on a coroutine that never ran. *)
CloseUnstarted(t) ==
    /\ InBody /\ "capi" \in Closers
    /\ status[t] = "suspended" /\ ~started[t]
    /\ status' = [status EXCEPT ![t] = "dead"]
    /\ has_error' = [has_error EXCEPT ![t] = FALSE]
    /\ UNCHANGED <<running, caller, started, resume_args, yield_args,
                   close_requested, roots, at, target, got>>

(* The first entry: the body is called with up to EntryArgs values and     *)
(* opens its first frame.                                                   *)
StartBody ==
    /\ at[running] = "entry"
    /\ got' = [got EXCEPT ![running] =
                   IF resume_args[running] < EntryArgs THEN resume_args[running] ELSE EntryArgs]
    /\ resume_args' = [resume_args EXCEPT ![running] = 0]
    /\ loaded' = running
    /\ at' = [at EXCEPT ![running] = "body"]
    /\ UNCHANGED <<control, yield_args, has_error, close_requested, top_root, target>>

(* Mutant: the frames of the coroutine that leaves stay loaded. *)
LeaveLoaded(frames, how) ==
    /\ top_root' = [top_root EXCEPT ![running] = frames]
    /\ loaded' = frames
    /\ running' = caller[running]
    /\ at' = [at EXCEPT ![running] = how]
    /\ UNCHANGED <<caller, started, resume_args, close_requested, target, got>>

(* Control goes back to the caller (the end of fiber_entry_impl, yield). *)
Leave(frames, how) ==
    /\ LET stashed == [top_root EXCEPT ![running] = frames]
       IN  loaded' = stashed[caller[running]]
           /\ top_root' = [stashed EXCEPT ![caller[running]] = Nil]
    /\ running' = caller[running]
    /\ at' = [at EXCEPT ![running] = how]
    /\ UNCHANGED <<caller, started, resume_args, close_requested, target, got>>

(* yield; the main thread is refused. *)
Yield(n) ==
    /\ InBody /\ running # Main
    /\ yield_args' = [yield_args EXCEPT ![running] = n]
    /\ status' = [status EXCEPT ![running] = "suspended", ![caller[running]] = "running"]
    /\ Leave(loaded, "yielding")
    /\ UNCHANGED has_error

Ended(t, s) == [s EXCEPT ![t] = "dead", ![caller[t]] = "running"]

(* The body returns n values; its frames are gone. *)
Return(n) ==
    /\ InBody /\ running # Main
    /\ yield_args' = [yield_args EXCEPT ![running] = n]
    /\ status' = Ended(running, status)
    /\ Leave(Nil, "returned")
    /\ UNCHANGED has_error

(* Mutant: the error is not recorded. *)
RaiseSilently ==
    /\ InBody /\ running # Main
    /\ yield_args' = [yield_args EXCEPT ![running] = 1]
    /\ status' = Ended(running, status)
    /\ Leave(Nil, "raised")
    /\ UNCHANGED has_error

(* The body lets an error out: one value, the error object. *)
Raise ==
    /\ InBody /\ running # Main
    /\ yield_args' = [yield_args EXCEPT ![running] = 1]
    /\ has_error' = [has_error EXCEPT ![running] = TRUE]
    /\ status' = Ended(running, status)
    /\ Leave(Nil, "raised")

(* Back in yield: the values of the new resume, or the error that closes    *)
(* the coroutine.  The body may catch it (pcall) and go on.                 *)
Resumed ==
    /\ at[running] = "yielding" /\ ~close_requested[running]
    /\ got' = [got EXCEPT ![running] = resume_args[running]]
    /\ at' = [at EXCEPT ![running] = "body"]
    /\ UNCHANGED <<control, resume_args, yield_args, has_error, close_requested, roots, target>>

ClosingCaught ==
    /\ at[running] = "yielding" /\ close_requested[running]
    /\ close_requested' = [close_requested EXCEPT ![running] = FALSE]
    /\ has_error' = [has_error EXCEPT ![running] = TRUE]
    /\ at' = [at EXCEPT ![running] = "body"]
    /\ UNCHANGED <<control, resume_args, yield_args, roots, target, got>>

ClosingUncaught ==
    /\ at[running] = "yielding" /\ close_requested[running]
    /\ yield_args' = [yield_args EXCEPT ![running] = 1]
    /\ has_error' = [has_error EXCEPT ![running] = TRUE]
    /\ status' = Ended(running, status)
    /\ LET stashed == [top_root EXCEPT ![running] = Nil]
       IN  loaded' = stashed[caller[running]]
           /\ top_root' = [stashed EXCEPT ![caller[running]] = Nil]
    /\ running' = caller[running]
    /\ at' = [at EXCEPT ![running] = "raised"]
    /\ close_requested' = [close_requested EXCEPT ![running] = FALSE]
    /\ UNCHANGED <<caller, started, resume_args, target, got>>

(* Back in resume: the results are ok and what the coroutine yielded. *)
ResumeReturns ==
    /\ at[running] = "resuming"
    /\ got' = [got EXCEPT ![running] = 1 + yield_args[target[running]]]
    /\ at' = [at EXCEPT ![running] = "body"]
    /\ target' = [target EXCEPT ![running] = Nil]
    /\ UNCHANGED <<control, resume_args, yield_args, has_error, close_requested, roots>>

(* Back in close_thread: it says whether the coroutine died; lua_closethread *)
(* makes sure that it is dead.                                              *)
CloseReturns ==
    LET t == target[running]
    IN  /\ \/ at[running] = "closing" /\ UNCHANGED <<status, has_error>>
           \/ /\ at[running] = "capiClosing" /\ status[t] = "dead"
              /\ UNCHANGED <<status, has_error>>
           \/ /\ at[running] = "capiClosing" /\ status[t] # "dead"
              /\ status' = [status EXCEPT ![t] = "dead"]
              /\ has_error' = [has_error EXCEPT ![t] = FALSE]
        /\ got' = [got EXCEPT ![running] = 1]
        /\ at' = [at EXCEPT ![running] = "body"]
        /\ target' = [target EXCEPT ![running] = Nil]
        /\ UNCHANGED <<running, caller, started, resume_args, yield_args, close_requested, roots>>

Next ==
    \/ \E t \in Thread : \/ Create(t) \/ CloseUnstarted(t)
                         \/ \E n \in Counts : Resume(t, n)
                         \/ \E who \in Closers : Close(t, who)
    \/ \E n \in Counts : Yield(n) \/ Return(n)
    \/ Raise \/ StartBody \/ Resumed \/ ClosingCaught \/ ClosingUncaught
    \/ ResumeReturns \/ CloseReturns

Spec == Init /\ [][Next]_vars
=============================================================================

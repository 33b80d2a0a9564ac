-------------------------------- MODULE Calls --------------------------------
(***************************************************************************)
(* Calls, errors and to-be-closed variables.  A Lua error is a C++ exception *)
(* (LRuntimeException): it leaves the frames of compiled functions one by    *)
(* one, and on the way the destructors of their CloseGuards call __close,    *)
(* until a C++ frame of pcall, xpcall or of another CloseGuard catches it.   *)
(* Error values are numbered, as are the variables that have a __close; what *)
(* a frame computes is left out, and the coroutines are in Coroutine.        *)
(***************************************************************************)
EXTENDS Integers, Sequences, SequencesExt, FiniteSets

CONSTANTS
    MaxDepth,   \* bound: frames
    MaxCalls,   \* bound: calls the program makes
    MaxClosed,  \* bound: to-be-closed variables declared
    MaxErrors   \* bound: errors raised

ASSUME CallsAssumption == {MaxDepth, MaxCalls, MaxClosed, MaxErrors} \subseteq Nat

VARIABLE call   \* frames: innermost last, calls, declared, raised: counters,
                \* closed: history, the variables in the order __close was called
                \* for them, with what had been declared by then, and caught:
                \* history, the depth at which each error was caught, 0 at first

(* Who called the function of a frame, and so who catches what leaves it:    *)
(* compiled code, pcall, xpcall, xpcall on behalf of its handler, or a        *)
(* CloseGuard.                                                               *)
Callers == {"call", "pcall", "xpcall"}

(* How a frame is being left: not at all, by the end of a block, by a return, *)
(* or by error number n > 0.                                                *)
Running == 0
Block == -1
Returning == -2

Frame(by) == [by |-> by, tbc |-> <<>>, exit |-> Running]

Depth == Len(call.frames)
TopFrame == call.frames[Depth]
Runs == Depth > 0 /\ TopFrame.exit = Running

CallsInit ==
    call = [frames |-> <<Frame("call")>>, calls |-> 0, declared |-> 0, raised |-> 0,
            closed |-> <<>>, caught |-> <<>>]

(* call_function, pcall_function or xpcall: a function is entered. *)
Call(by) ==
    /\ Runs /\ Depth < MaxDepth /\ call.calls < MaxCalls
    /\ call' = [call EXCEPT !.frames = Append(@, Frame(by)), !.calls = @ + 1]

(* local x <close> = v: a CloseGuard is constructed. *)
Declare ==
    /\ Runs /\ call.declared < MaxClosed
    /\ call' = [call EXCEPT !.frames[Depth].tbc = Append(@, call.declared + 1),
                            !.declared = @ + 1]

(* The end of the block that declared the last variable, break or goto. *)
LeaveBlock ==
    /\ Runs /\ TopFrame.tbc # <<>>
    /\ call' = [call EXCEPT !.frames[Depth].exit = Block]

Return ==
    /\ Runs
    /\ call' = [call EXCEPT !.frames[Depth].exit = Returning]

Raise ==
    /\ Runs /\ call.raised < MaxErrors
    /\ call' = [call EXCEPT !.frames[Depth].exit = call.raised + 1, !.raised = @ + 1,
                            !.caught = Append(@, 0)]

(* Mutant: the first variable of a frame is closed first. *)
CloseFirst ==
    LET id == Head(TopFrame.tbc)
        left == [TopFrame EXCEPT !.tbc = Tail(@), !.exit = IF @ = Block THEN Running ELSE @]
    IN  /\ Depth > 0 /\ TopFrame.exit # Running /\ TopFrame.tbc # <<>>
        /\ call' = [call EXCEPT
                !.frames = Append(Front(@), left) \o <<Frame("guard")>>,
                !.closed = Append(@, [id |-> id, declared |-> call.declared])]

(* ~CloseGuard: __close is called, whatever the way out. *)
CloseNext ==
    LET id == Last(TopFrame.tbc)
        left == [TopFrame EXCEPT !.tbc = Front(@), !.exit = IF @ = Block THEN Running ELSE @]
    IN  /\ Depth > 0 /\ TopFrame.exit # Running /\ TopFrame.tbc # <<>>
        /\ call' = [call EXCEPT
                !.frames = Append(Front(@), left) \o <<Frame("guard")>>,
                !.closed = Append(@, [id |-> id, declared |-> call.declared])]

Left == Depth > 0 /\ TopFrame.tbc = <<>>

(* A function has returned; its caller goes on with what it was doing. *)
Returned ==
    /\ Left /\ TopFrame.exit = Returning
    /\ call' = [call EXCEPT !.frames = Front(@)]

Caught(e) == [call EXCEPT !.caught[e] = Depth, !.frames = Front(@)]

(* Mutant: an error in a __close takes the place of the one on its way. *)
ThrownOver ==
    LET e == TopFrame.exit
        below == Front(call.frames)
    IN  /\ Left /\ e > 0
        /\ call' = CASE TopFrame.by \in {"call", "guard"} /\ Depth > 1 ->
                          [call EXCEPT !.frames = [below EXCEPT ![Depth - 1].exit = e]]
                     [] TopFrame.by = "xpcall" ->
                          [Caught(e) EXCEPT !.frames = Append(below, Frame("handler"))]
                     [] OTHER -> Caught(e)

(* An exception has left the function.  Compiled code lets it pass, pcall     *)
(* returns it, xpcall calls its handler in the frame it has unwound to, an    *)
(* error of the handler becomes "error in error handling", and ~CloseGuard    *)
(* reports it on stderr.  Nothing is below the first frame.                  *)
Thrown ==
    LET e == TopFrame.exit
        below == Front(call.frames)
    IN  /\ Left /\ e > 0
        /\ call' = CASE TopFrame.by = "call" /\ Depth > 1 ->
                          [call EXCEPT !.frames = [below EXCEPT ![Depth - 1].exit = e]]
                     [] TopFrame.by = "xpcall" ->
                          [Caught(e) EXCEPT !.frames = Append(below, Frame("handler"))]
                     [] OTHER -> Caught(e)

Unwinding == CloseNext \/ Returned \/ Thrown

CallsNext ==
    \/ \E by \in Callers : Call(by)
    \/ Declare \/ LeaveBlock \/ Return \/ Raise
    \/ Unwinding

-----------------------------------------------------------------------------
ClosedIds == {call.closed[p].id : p \in DOMAIN call.closed}

OpenIn(i) == {call.frames[i].tbc[p] : p \in DOMAIN call.frames[i].tbc}

(* __close is called exactly once for each variable, and the last one open is *)
(* closed first: by the time it is called, every variable declared later has *)
(* been closed, be it in another function, in a __close that an error         *)
(* interrupted, or on the way of an error through several frames.            *)
ClosedInReverse ==
    /\ Len(call.closed) = Cardinality(ClosedIds)
    /\ (1 .. call.declared) = ClosedIds \cup UNION {OpenIn(i) : i \in 1..Depth}
    /\ \A p \in DOMAIN call.closed :
           \A later \in call.closed[p].id + 1 .. call.closed[p].declared :
               \E q \in 1 .. p - 1 : call.closed[q].id = later

(* An error on its way is neither lost nor replaced: while a __close runs,    *)
(* raises and catches errors of its own, the frame below still has it; and    *)
(* an error that is nowhere on its way has been caught.                      *)
ErrorsKept ==
    \A e \in 1 .. call.raised :
        (call.caught[e] = 0) <=> \E i \in 1..Depth : call.frames[i].exit = e

(* Every error is eventually caught by a protected call, a CloseGuard or the  *)
(* caller of the program, if the functions that run meanwhile, __close and    *)
(* message handlers among them, return or raise errors in the end.           *)
ErrorsDelivered ==
    \A e \in 1..MaxErrors :
        call.raised >= e ~> call.raised >= e /\ call.caught[e] # 0

(* The unwinder of C++ does not stop half-way, and a function that can do     *)
(* nothing else returns.                                                     *)
CallsFairness == WF_call(Unwinding) /\ WF_call(Return)

CallsSpec == CallsInit /\ [][CallsNext]_call /\ CallsFairness
=============================================================================

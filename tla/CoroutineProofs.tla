--------------------------- MODULE CoroutineProofs ---------------------------
(***************************************************************************)
(* Proofs about coroutines, for any number of them, any messages and both   *)
(* ways to close, in programs that resume only suspended coroutines (all    *)
(* that lua_resume accepts; coroutine.resume accepts more). The second part *)
(* is about their roots, for any number of values, when every collection    *)
(* starts on the main thread.                                               *)
(***************************************************************************)
EXTENDS CoroutineProps, CoroutineRootsProps, FiniteSetTheorems, SequenceTheorems, TLAPS

Disciplined == Resumable \subseteq {"suspended"}

USE MainAssumption, CountsAssumption

(* The caller of the coroutine that runs waits for it and for no other. *)
LEMMA CallerWaits ==
    ASSUME IInv, running # Main
    PROVE  /\ caller[running] \in Thread \ {running}
           /\ status[running] = "running"
           /\ status[caller[running]] = "normal"
           /\ target[caller[running]] = running
           /\ at[caller[running]] \in {"resuming", "closing", "capiClosing"}
           /\ \A u \in Active \ {Main, running} : caller[u] # caller[running]
           /\ \A w \in Active \ {running, caller[running]} : target[w] # running
<1>0. TypeOK /\ CallersChained
  BY DEF IInv
<1>1. running \in Active \ {Main} /\ status[running] = "running"
  BY <1>0 DEF CallersChained, TypeOK, Active
<1>2. status[caller[running]] = "normal" /\ Waits(caller[running], running)
  BY <1>0, <1>1 DEF CallersChained
<1>3. caller[running] \in Thread
  BY <1>0, <1>1 DEF CallersChained
<1>4. caller[running] # running
  BY <1>1, <1>2
<1>5. \A u \in Active \ {Main, running} : caller[u] # caller[running]
  BY <1>0, <1>2 DEF CallersChained, Waits
<1>6. \A w \in Active \ {running, caller[running]} : target[w] # running
  BY <1>0 DEF CallersChained, Active
<1> QED
  BY <1>1, <1>2, <1>3, <1>4, <1>5, <1>6 DEF Waits

(* A suspended coroutine is entered. *)
LEMMA EnterStep ==
    ASSUME IInv, NEW t \in Thread, status[t] = "suspended", NEW n \in Nat,
           NEW how \in {"resuming", "closing", "capiClosing"},
           InBody, Enter(t, n, how),
           yield_args' \in [Thread -> Nat], got' \in [Thread -> Nat],
           close_requested' \in [Thread -> BOOLEAN]
    PROVE  IInv'
<1> USE DEF Enter, InBody
<1>0. /\ TypeOK /\ running \in Thread /\ status[running] = "running"
      /\ t # running /\ t # Main /\ t \notin Active
  BY DEF IInv, TypeOK, CallersChained, Active
<1>1. TypeOK'
  BY <1>0 DEF TypeOK
<1>2. CallersChained'
  <2>1. \A u \in Thread : status'[u] = IF u = t THEN "running"
                                       ELSE IF u = running THEN "normal" ELSE status[u]
    BY <1>0 DEF TypeOK
  <2>2. status'[running'] = "running" /\ \A u \in Thread \ {running'} : status'[u] # "running"
    <3>1. \A u \in Thread : u # running => status[u] # "running"
      BY DEF IInv, CallersChained
    <3>2. running' = t
      OBVIOUS
    <3> HIDE DEF Enter
    <3> QED
      BY <1>0, <2>1, <3>1, <3>2
  <2>3. Active' = Active \cup {t}
    BY <1>0, <2>1 DEF Active
  <2>4. ASSUME NEW u \in Active' \ {Main}
        PROVE  caller'[u] \in Thread /\ status'[caller'[u]] = "normal" /\ Waits(caller[u], u)'
    <3>1. CASE u = t
      BY <1>0, <2>1, <3>1 DEF TypeOK, Waits
    <3>2. CASE u # t
      <4>1. u \in Active \ {Main} /\ caller'[u] = caller[u]
        BY <1>0, <2>3, <3>2 DEF TypeOK, Active
      <4>2. caller[u] \in Thread /\ status[caller[u]] = "normal" /\ Waits(caller[u], u)
        BY <4>1 DEF IInv, CallersChained
      <4> QED
        BY <1>0, <2>1, <4>1, <4>2 DEF TypeOK, Waits
    <3> QED
      BY <3>1, <3>2
  <2>5. ASSUME NEW w \in Active', status'[w] = "normal"
        PROVE  target'[w] \in Active' \ {Main} /\ caller'[target'[w]] = w
    <3>1. CASE w = running
      BY <1>0, <2>3, <3>1 DEF TypeOK, Active
    <3>2. CASE w # running
      <4>1. w \in Active /\ status[w] = "normal" /\ target'[w] = target[w]
        BY <1>0, <2>1, <2>3, <2>5, <3>2 DEF TypeOK, Active
      <4>2. target[w] \in Active \ {Main} /\ caller[target[w]] = w
        BY <4>1 DEF IInv, CallersChained
      <4> QED
        BY <1>0, <2>3, <4>1, <4>2 DEF TypeOK
    <3> QED
      BY <3>1, <3>2
  <2>6. Main \in Active'
    BY <2>3 DEF IInv, CallersChained
  <2> QED
    BY <2>2, <2>4, <2>5, <2>6 DEF CallersChained
<1>3. FramesFollow'
  BY <1>0 DEF IInv, TypeOK, FramesFollow, Opened
<1>4. Positions'
  BY <1>0 DEF IInv, TypeOK, Positions
<1>5. WaitsOver'
  BY <1>0 DEF IInv, TypeOK, Positions, WaitsOver
<1> QED
  BY <1>1, <1>2, <1>3, <1>4, <1>5 DEF IInv

(* The coroutine that runs gives control to its caller, to wait with its    *)
(* frames stashed or because it ended.                                      *)
LEMMA LeaveStep ==
    ASSUME IInv, running # Main,
           NEW after \in {"suspended", "dead"}, NEW how \in {"yielding", "returned", "raised"},
           after = "suspended" => how = "yielding",
           status' = [status EXCEPT ![running] = after, ![caller[running]] = "running"],
           running' = caller[running],
           at' = [at EXCEPT ![running] = how],
           UNCHANGED <<caller, target>>,
           loaded' = top_root[caller[running]],
           after = "suspended" => top_root'[running] = running,
           \A u \in Thread \ {running, caller[running]} : top_root'[u] = top_root[u],
           TypeOK'
    PROVE  IInv'
<1> DEFINE c == caller[running]
<1>0. /\ TypeOK /\ running \in Thread /\ c \in Thread \ {running}
      /\ status[running] = "running" /\ status[c] = "normal" /\ target[c] = running
      /\ at[c] \in {"resuming", "closing", "capiClosing"}
  BY CallerWaits DEF IInv, TypeOK
<1>1. \A u \in Thread : status'[u] = IF u = c THEN "running"
                                     ELSE IF u = running THEN after ELSE status[u]
  BY <1>0 DEF TypeOK
<1>2. Active' = Active \ {running}
  BY ZenonT(40), <1>0, <1>1 DEF Active
<1>3. CallersChained'
  <2>1. status'[running'] = "running" /\ \A u \in Thread \ {running'} : status'[u] # "running"
    <3>1. \A u \in Thread : u # running => status[u] # "running"
      BY DEF IInv, CallersChained
    <3> QED
      BY ZenonT(40), <1>0, <1>1, <3>1
  <2>2. ASSUME NEW u \in Active' \ {Main}
        PROVE  caller'[u] \in Thread /\ status'[caller'[u]] = "normal" /\ Waits(caller[u], u)'
    <3>1. u \in Active \ {Main, running} /\ u \in Thread
      BY <1>2 DEF Active
    <3>2. /\ caller[u] \in Thread /\ status[caller[u]] = "normal"
          /\ Waits(caller[u], u) /\ caller[u] # c
      BY <3>1, CallerWaits DEF IInv, CallersChained
    <3> QED
      BY <1>0, <1>1, <3>2 DEF TypeOK, Waits
  <2>3. ASSUME NEW w \in Active', status'[w] = "normal"
        PROVE  target'[w] \in Active' \ {Main} /\ caller'[target'[w]] = w
    <3>1. w \in Active \ {running, c} /\ status[w] = "normal"
      BY <1>0, <1>1, <1>2, <2>3 DEF Active
    <3>2. target[w] \in Active \ {Main} /\ caller[target[w]] = w /\ target[w] # running
      BY <3>1, CallerWaits DEF IInv, CallersChained
    <3> QED
      BY <1>2, <3>2
  <2>4. Main \in Active'
    BY <1>2 DEF IInv, CallersChained
  <2> QED
    BY <2>1, <2>2, <2>3, <2>4 DEF CallersChained
<1>4. FramesFollow'
  <2>1. loaded' = Opened(running)'
    BY <1>0 DEF IInv, TypeOK, FramesFollow, Opened
  <2>2. ASSUME NEW u \in Thread, status'[u] \in {"normal", "suspended"}
        PROVE  top_root'[u] = Opened(u)'
    <3>1. CASE u = running
      BY <1>0, <1>1, <2>2, <3>1 DEF TypeOK, Opened
    <3>2. CASE u # running
      BY <1>0, <1>1, <2>2, <3>2 DEF IInv, TypeOK, FramesFollow, Opened
    <3> QED
      BY <3>1, <3>2
  <2> QED
    BY <2>1, <2>2 DEF FramesFollow
<1>5. Positions'
  BY <1>0, <1>1 DEF IInv, TypeOK, Positions
<1>6. WaitsOver'
  BY <1>0, <1>1 DEF IInv, TypeOK, WaitsOver
<1> QED
  BY <1>3, <1>4, <1>5, <1>6 DEF IInv

(* A step of the coroutine that runs which moves no control: it goes on in  *)
(* its body, and may create or kill coroutines that are not active.         *)
LEMMA LocalStep ==
    ASSUME IInv, TypeOK', UNCHANGED <<running, caller, top_root, started>>,
           at' = [at EXCEPT ![running] = "body"], loaded' = running,
           \A u \in Thread \ {running} : target'[u] = target[u],
           \/ UNCHANGED status
           \/ \E t \in Thread \ Active : status' = [status EXCEPT ![t] = "dead"]
    PROVE  IInv'
<1>0. TypeOK /\ running \in Thread /\ status[running] = "running"
  BY DEF IInv, TypeOK, CallersChained
<1>1. \A u \in Thread : \/ status'[u] = status[u]
                        \/ u \notin Active /\ status'[u] = "dead"
  BY <1>0 DEF TypeOK
<1>2. Active' = Active
  BY <1>1 DEF Active
<1>3. CallersChained'
  BY <1>0, <1>1, <1>2 DEF IInv, TypeOK, CallersChained, Waits, Active
<1>4. FramesFollow'
  BY <1>0, <1>1 DEF IInv, TypeOK, FramesFollow, Opened
<1>5. Positions'
  BY <1>0, <1>1 DEF IInv, TypeOK, Positions
<1>6. WaitsOver'
  BY <1>0 DEF TypeOK, WaitsOver
<1> QED
  BY <1>3, <1>4, <1>5, <1>6 DEF IInv

LEMMA CreateStep ==
    ASSUME IInv, NEW t \in Thread, Create(t)
    PROVE  IInv'
<1> USE DEF Create, InBody
<1>0. TypeOK /\ running \in Thread /\ status[running] = "running" /\ t \notin Active /\ t # running
  BY DEF IInv, TypeOK, CallersChained, Active
<1>1. TypeOK'
  BY <1>0 DEF TypeOK
<1>2. \A u \in Thread : status'[u] = IF u = t THEN "suspended" ELSE status[u]
  BY <1>0 DEF TypeOK
<1>3. Active' = Active /\ \A u \in Active : caller'[u] = caller[u] /\ at'[u] = at[u]
  BY <1>0, <1>2 DEF Active, TypeOK
<1>4. CallersChained'
  <2>1. status'[running] = "running" /\ \A u \in Thread \ {running} : status'[u] # "running"
    BY <1>0, <1>2 DEF IInv, CallersChained
  <2>2. \A u \in Active \ {Main} : caller[u] \in Active
    BY DEF IInv, CallersChained, Active
  <2> QED
    BY <1>0, <1>2, <1>3, <2>1, <2>2 DEF IInv, CallersChained, Waits, Active
<1>5. FramesFollow'
  BY <1>0 DEF IInv, TypeOK, FramesFollow, Opened
<1>6. t # Main
  BY <1>0 DEF IInv, CallersChained
<1>7. Positions'
  BY <1>0, <1>6 DEF IInv, TypeOK, Positions
<1>8. WaitsOver'
  BY <1>0 DEF TypeOK, WaitsOver
<1> QED
  BY <1>1, <1>4, <1>5, <1>7, <1>8 DEF IInv

LEMMA InitIInv == Init => IInv
<1> SUFFICES ASSUME Init PROVE IInv
  OBVIOUS
<1> USE DEF Init
<1>1. TypeOK
  BY DEF TypeOK
<1>2. Active = {Main}
  BY DEF Active
<1>3. CallersChained
  BY <1>2 DEF CallersChained
<1>4. FramesFollow /\ Positions /\ WaitsOver
  BY DEF FramesFollow, Positions, WaitsOver, Opened
<1> QED
  BY <1>1, <1>3, <1>4 DEF IInv

(* A body that ends with an error, in its code or in yield. *)
LEMMA RunningMain ==
    ASSUME IInv, at[running] \in {"yielding", "entry"}
    PROVE  running # Main
BY DEF IInv, TypeOK, Positions

LEMMA YieldStep ==
    ASSUME IInv, NEW n \in Nat, Yield(n)
    PROVE  IInv'
<1> USE DEF Yield, Leave, InBody
<1>0. /\ TypeOK /\ running \in Thread /\ caller[running] \in Thread \ {running}
      /\ loaded = running
  BY CallerWaits DEF IInv, TypeOK, FramesFollow, Opened
<1>1. TypeOK'
  BY <1>0 DEF TypeOK
<1>2. /\ loaded' = top_root[caller[running]] /\ top_root'[running] = running
      /\ \A u \in Thread \ {running, caller[running]} : top_root'[u] = top_root[u]
  BY <1>0 DEF TypeOK
<1> QED
  BY <1>1, <1>2, LeaveStep

LEMMA EndStep ==
    ASSUME IInv, running # Main, NEW how \in {"returned", "raised"},
           status' = Ended(running, status), running' = caller[running],
           at' = [at EXCEPT ![running] = how],
           LET stashed == [top_root EXCEPT ![running] = Nil]
           IN  loaded' = stashed[caller[running]]
               /\ top_root' = [stashed EXCEPT ![caller[running]] = Nil],
           UNCHANGED <<caller, started, resume_args, target, got>>,
           yield_args' \in [Thread -> Nat], has_error' \in [Thread -> BOOLEAN],
           close_requested' \in [Thread -> BOOLEAN]
    PROVE  IInv'
<1>0. TypeOK /\ running \in Thread /\ caller[running] \in Thread \ {running}
  BY CallerWaits DEF IInv, TypeOK
<1>1. TypeOK'
  BY <1>0 DEF TypeOK, Ended
<1>2. /\ loaded' = top_root[caller[running]]
      /\ \A u \in Thread \ {running, caller[running]} : top_root'[u] = top_root[u]
  BY <1>0 DEF TypeOK
<1> QED
  BY <1>1, <1>2, LeaveStep DEF Ended

(* A step of a program that passes any number of values, or none. *)
AnyStep ==
    \/ \E t \in Thread : \/ Create(t) \/ CloseUnstarted(t)
                         \/ \E n \in Nat : Resume(t, n)
                         \/ \E who \in Closers : Close(t, who)
    \/ \E n \in Nat : Yield(n) \/ Return(n)
    \/ Raise \/ StartBody \/ Resumed \/ ClosingCaught \/ ClosingUncaught
    \/ ResumeReturns \/ CloseReturns \/ UNCHANGED vars

LEMMA NextIsStep == [Next]_vars => AnyStep
<1>1. SUFFICES ASSUME Next PROVE AnyStep
  BY DEF AnyStep
<1>2. \A n \in Counts : n \in Nat
  OBVIOUS
<1> QED
  BY <1>1, <1>2 DEF Next, AnyStep

LEMMA NextIInv ==
    ASSUME Disciplined, IInv, AnyStep
    PROVE  IInv'
<1>0. TypeOK /\ running \in Thread
  BY DEF IInv, TypeOK
<1>1. ASSUME NEW t \in Thread, Create(t) PROVE IInv'
  BY <1>1, CreateStep
<1>2. ASSUME NEW t \in Thread, CloseUnstarted(t) PROVE IInv'
  <2>1. TypeOK'
    BY <1>0, <1>2 DEF TypeOK, CloseUnstarted, roots
  <2>2. t \in Thread \ Active
    BY <1>2 DEF Active, CloseUnstarted
  <2>3. at' = [at EXCEPT ![running] = "body"] /\ loaded' = running
    BY <1>0, <1>2 DEF CloseUnstarted, InBody, TypeOK, IInv, FramesFollow, Opened, roots
  <2> QED
    BY <1>2, <2>1, <2>2, <2>3, LocalStep DEF CloseUnstarted, roots
<1>3. ASSUME NEW t \in Thread, NEW n \in Nat, Resume(t, n) PROVE IInv'
  BY <1>0, <1>3, EnterStep DEF Resume, Disciplined, TypeOK
<1>4. ASSUME NEW t \in Thread, NEW who \in Closers, Close(t, who) PROVE IInv'
  BY <1>0, <1>4, EnterStep DEF Close, TypeOK
<1>5. ASSUME NEW n \in Nat, Yield(n) PROVE IInv'
  BY <1>5, YieldStep
<1>6. ASSUME NEW n \in Nat, Return(n) PROVE IInv'
  BY <1>0, <1>6, EndStep DEF Return, Leave, TypeOK
<1>7. CASE Raise
  BY <1>0, <1>7, EndStep DEF Raise, Leave, TypeOK
<1>8. CASE StartBody
  <2>1. TypeOK'
    BY <1>0, <1>8 DEF TypeOK, StartBody, control
  <2> QED
    BY <1>8, <2>1, LocalStep DEF StartBody, control
<1>9. CASE Resumed
  <2>1. TypeOK'
    BY <1>0, <1>9 DEF TypeOK, Resumed, control, roots
  <2>2. loaded' = running
    BY <1>9 DEF Resumed, IInv, FramesFollow, Opened, roots
  <2> QED
    BY <1>9, <2>1, <2>2, LocalStep DEF Resumed, control, roots
<1>10. CASE ClosingCaught
  <2>1. TypeOK'
    BY <1>0, <1>10 DEF TypeOK, ClosingCaught, control, roots
  <2>2. loaded' = running
    BY <1>10 DEF ClosingCaught, IInv, FramesFollow, Opened, roots
  <2> QED
    BY <1>10, <2>1, <2>2, LocalStep DEF ClosingCaught, control, roots
<1>11. CASE ClosingUncaught
  BY <1>0, <1>11, RunningMain, EndStep DEF ClosingUncaught, TypeOK
<1>12. CASE ResumeReturns
  <2>1. TypeOK'
    BY <1>0, <1>12 DEF TypeOK, ResumeReturns, control, roots, IInv, WaitsOver
  <2>2. loaded' = running
    BY <1>12 DEF ResumeReturns, IInv, FramesFollow, Opened, roots
  <2>3. \A u \in Thread \ {running} : target'[u] = target[u]
    BY <1>0, <1>12 DEF ResumeReturns, TypeOK
  <2> QED
    BY <1>12, <2>1, <2>2, <2>3, LocalStep DEF ResumeReturns, control, roots
<1>13. CASE CloseReturns
  <2>0. target[running] \in Thread /\ status[target[running]] \in {"suspended", "dead"}
    BY <1>13 DEF CloseReturns, IInv, WaitsOver
  <2>1. TypeOK'
    BY <1>0, <1>13, <2>0 DEF TypeOK, CloseReturns, roots
  <2>2. loaded' = running
    BY <1>13 DEF CloseReturns, IInv, FramesFollow, Opened, roots
  <2>3. \A u \in Thread \ {running} : target'[u] = target[u]
    BY <1>0, <1>13 DEF CloseReturns, TypeOK
  <2>4. target[running] \in Thread \ Active
    BY <2>0 DEF Active
  <2>5. \/ UNCHANGED status
        \/ status' = [status EXCEPT ![target[running]] = "dead"]
    BY <1>13 DEF CloseReturns
  <2> QED
    BY <1>13, <2>1, <2>2, <2>3, <2>4, <2>5, LocalStep DEF CloseReturns, roots
<1>14. CASE UNCHANGED vars
  BY <1>14 DEF vars, control, roots, IInv, TypeOK, CallersChained, Active, Waits,
               FramesFollow, Opened, Positions, WaitsOver
<1> QED
  BY <1>1, <1>2, <1>3, <1>4, <1>5, <1>6, <1>7, <1>8, <1>9, <1>10, <1>11, <1>12, <1>13, <1>14
     DEF AnyStep

(* Whatever the bodies do, one coroutine runs, the callers form a chain to  *)
(* the main thread, and the frames the collector scans are those of the     *)
(* coroutine that runs (resume, yield, fiber_entry_impl, close_thread).     *)
THEOREM ChainHolds == Disciplined /\ Spec => []IInv
<1>1. Disciplined /\ IInv /\ [Next]_vars => IInv'
  BY NextIInv, NextIsStep
<1>2. Disciplined => Disciplined'
  BY DEF Disciplined
<1> QED
  BY InitIInv, <1>1, <1>2, PTL DEF Spec

(* When resume returns, the coroutine it resumed has yielded or ended. *)
THEOREM ResumeReturnsInTurn == Disciplined /\ Spec => []ResumeWaits
<1>1. IInv => ResumeWaits
  BY DEF IInv, WaitsOver, ResumeWaits
<1> QED
  BY ChainHolds, <1>1, PTL

-----------------------------------------------------------------------------
(* The callers as a stack.  IInv alone allows active coroutines that wait for *)
(* each other in a ring; that they form one line to the main thread is an     *)
(* invariant of its own, and with it what Callers computes.                 *)
IsChain(st) ==
    /\ st \in Seq(Thread) /\ Len(st) \in Nat \ {0}
    /\ st[1] = Main /\ st[Len(st)] = running
    /\ \A i, j \in 1..Len(st) : st[i] = st[j] => i = j
    /\ \A i \in 1 .. Len(st) - 1 : caller[st[i + 1]] = st[i]
    /\ \A u : u \in Active <=> \E i \in 1..Len(st) : st[i] = u

InLine == \E st \in Seq(Thread) : IsChain(st)

(* How a step moves control: not at all, into a coroutine, or to the caller. *)
Stays ==
    running' = running /\ Active' = Active /\ \A u \in Active : caller'[u] = caller[u]

Enters(t) ==
    /\ t \in Thread \ Active
    /\ running' = t /\ Active' = Active \cup {t}
    /\ caller'[t] = running /\ \A u \in Active : caller'[u] = caller[u]

Leaves ==
    /\ running # Main
    /\ running' = caller[running] /\ Active' = Active \ {running} /\ UNCHANGED caller

LEMMA LeavesIs ==
    ASSUME IInv, running # Main, NEW after \in {"suspended", "dead"},
           status' = [status EXCEPT ![running] = after, ![caller[running]] = "running"],
           running' = caller[running], UNCHANGED caller
    PROVE  Leaves
<1>1. TypeOK /\ caller[running] \in Thread \ {running} /\ status[caller[running]] = "normal"
  BY CallerWaits DEF IInv
<1>2. \A u \in Thread : status'[u] = IF u = caller[running] THEN "running"
                                     ELSE IF u = running THEN after ELSE status[u]
  BY <1>1 DEF TypeOK
<1>3. Active' = Active \ {running}
  BY ZenonT(40), <1>1, <1>2 DEF Active
<1> QED
  BY <1>3 DEF Leaves

LEMMA EntersIs ==
    ASSUME IInv, NEW t \in Thread, status[t] = "suspended", NEW n, NEW how, Enter(t, n, how)
    PROVE  Enters(t)
<1>1. TypeOK /\ running \in Thread /\ t # running /\ status[running] = "running"
  BY DEF IInv, TypeOK, CallersChained
<1>2. \A u \in Thread : status'[u] = IF u = t THEN "running"
                                     ELSE IF u = running THEN "normal" ELSE status[u]
  BY <1>1 DEF TypeOK, Enter
<1>3. Active' = Active \cup {t} /\ t \notin Active
  BY <1>1, <1>2 DEF Active
<1>4. running' = t /\ caller' = [caller EXCEPT ![t] = running]
  BY DEF Enter
<1>5. caller'[t] = running /\ \A u \in Active : caller'[u] = caller[u]
  BY <1>1, <1>3, <1>4 DEF TypeOK, Active
<1> QED
  BY <1>3, <1>4, <1>5 DEF Enters

LEMMA StaysIs ==
    ASSUME IInv, UNCHANGED <<running, caller>>,
           \/ UNCHANGED status
           \/ \E t \in Thread \ Active : status' = [status EXCEPT ![t] = "dead"]
    PROVE  Stays
<1>1. \A u \in Thread : \/ status'[u] = status[u]
                        \/ u \notin Active /\ status'[u] = "dead"
  BY DEF IInv, TypeOK
<1> QED
  BY <1>1 DEF Stays, Active

LEMMA StepMoves ==
    ASSUME Disciplined, IInv, AnyStep
    PROVE  Stays \/ Leaves \/ \E t \in Thread : Enters(t)
<1>0. TypeOK /\ running \in Thread
  BY DEF IInv, TypeOK
<1>1. ASSUME NEW t \in Thread, Create(t) PROVE Stays
  <2>1. t \notin Active
    BY <1>1 DEF Create, Active
  <2>2. \A u \in Thread : status'[u] = IF u = t THEN "suspended" ELSE status[u]
    BY <1>0, <1>1 DEF Create, TypeOK
  <2>3. Active' = Active
    BY <2>1, <2>2 DEF Active
  <2>4. \A u \in Active : caller'[u] = caller[u]
    BY <1>0, <1>1, <2>1 DEF Create, TypeOK, Active
  <2> QED
    BY <1>1, <2>3, <2>4 DEF Create, Stays
<1>2. ASSUME NEW t \in Thread, CloseUnstarted(t) PROVE Stays
  <2>1. t \notin Active
    BY <1>2 DEF CloseUnstarted, Active
  <2> QED
    BY <1>2, <2>1, StaysIs DEF CloseUnstarted
<1>3. ASSUME NEW t \in Thread, NEW n \in Nat, Resume(t, n) PROVE Enters(t)
  BY <1>3, EntersIs DEF Resume, Disciplined
<1>4. ASSUME NEW t \in Thread, NEW who \in Closers, Close(t, who) PROVE Enters(t)
  BY <1>4, EntersIs DEF Close
<1>5. ASSUME NEW n \in Nat, Yield(n) PROVE Leaves
  BY <1>5, LeavesIs DEF Yield, Leave
<1>6. ASSUME NEW n \in Nat, Return(n) PROVE Leaves
  BY <1>6, LeavesIs DEF Return, Leave, Ended
<1>7. CASE Raise
  BY <1>7, LeavesIs DEF Raise, Leave, Ended
<1>8. CASE ClosingUncaught
  BY <1>8, RunningMain, LeavesIs DEF ClosingUncaught, Ended
<1>9. CASE StartBody \/ Resumed \/ ClosingCaught \/ ResumeReturns \/ UNCHANGED vars
  <2>1. UNCHANGED <<running, caller, status>>
    BY <1>9 DEF StartBody, Resumed, ClosingCaught, ResumeReturns, control, vars
  <2> QED
    BY <2>1, StaysIs
<1>10. CASE CloseReturns
  <2>1. target[running] \in Thread \ Active
    BY <1>10 DEF CloseReturns, IInv, WaitsOver, Active
  <2>2. UNCHANGED <<running, caller>>
    BY <1>10 DEF CloseReturns
  <2>3. UNCHANGED status \/ status' = [status EXCEPT ![target[running]] = "dead"]
    BY <1>10 DEF CloseReturns
  <2> QED
    BY <2>1, <2>2, <2>3, StaysIs
<1> QED
  BY <1>1, <1>2, <1>3, <1>4, <1>5, <1>6, <1>7, <1>8, <1>9, <1>10 DEF AnyStep

LEMMA EnterLine ==
    ASSUME NEW st, IsChain(st), NEW t \in Thread, Enters(t)
    PROVE  IsChain(Append(st, t))'
<1> DEFINE s == Append(st, t)
           n == Len(st)
<1>1. /\ st \in Seq(Thread) /\ n \in Nat \ {0} /\ st[1] = Main /\ st[n] = running
      /\ \A i \in 1..n : st[i] \in Active
      /\ \A u \in Active : \E i \in 1..n : st[i] = u
  BY DEF IsChain
<1>2. /\ s \in Seq(Thread) /\ Len(s) = n + 1 /\ s[n + 1] = t
      /\ \A i \in 1..n : s[i] = st[i]
  BY <1>1
<1>3. t \notin Active /\ running' = t /\ Active' = Active \cup {t}
  BY DEF Enters
<1> HIDE DEF s, n
<1>4. s[1] = Main /\ s[Len(s)] = running' /\ Len(s) \in Nat \ {0}
  <2>1. 1 \in 1..n /\ n + 1 \in Nat \ {0}
    BY <1>1
  <2> QED
    BY <1>1, <1>2, <1>3, <2>1
<1>5. \A i, j \in 1..Len(s) : s[i] = s[j] => i = j
  <2>1. SUFFICES ASSUME NEW i \in 1..Len(s), NEW j \in 1..Len(s), s[i] = s[j]
                 PROVE  i = j
    OBVIOUS
  <2>2. (i \in 1..n \/ i = n + 1) /\ (j \in 1..n \/ j = n + 1)
    BY <1>1, <1>2
  <2>3. \A k \in 1..n : s[k] # t
    BY <1>1, <1>2, <1>3
  <2>4. CASE i \in 1..n /\ j \in 1..n
    BY <1>2, <2>1, <2>4 DEF IsChain, n
  <2> QED
    BY <1>2, <2>1, <2>2, <2>3, <2>4
<1>6. \A i \in 1 .. Len(s) - 1 : caller'[s[i + 1]] = s[i]
  <2>1. SUFFICES ASSUME NEW i \in 1 .. Len(s) - 1 PROVE caller'[s[i + 1]] = s[i]
    OBVIOUS
  <2>2. i \in 1..n /\ s[i] = st[i]
    BY <1>1, <1>2
  <2>3. CASE i = n
    BY <1>1, <1>2, <2>2, <2>3 DEF Enters
  <2>4. CASE i # n
    <3>1. i \in 1 .. n - 1 /\ i + 1 \in 1..n
      BY <1>1, <2>2, <2>4
    <3>2. s[i + 1] = st[i + 1] /\ st[i + 1] \in Active /\ caller[st[i + 1]] = st[i]
      BY <1>1, <1>2, <3>1 DEF IsChain, n
    <3> QED
      BY <2>2, <3>2 DEF Enters
  <2> QED
    BY <2>3, <2>4
<1>7. \A u : u \in Active' <=> \E i \in 1..Len(s) : s[i] = u
  <2>1. \A i \in 1..Len(s) : i \in 1..n \/ i = n + 1
    BY <1>1, <1>2
  <2>2. \A i \in 1..n : i \in 1..Len(s)
    BY <1>1, <1>2
  <2>3. n + 1 \in 1..Len(s)
    BY <1>1, <1>2
  <2>4. ASSUME NEW u, u \in Active' PROVE \E i \in 1..Len(s) : s[i] = u
    <3>1. CASE u = t
      BY <1>2, <2>3, <3>1
    <3>2. CASE u \in Active
      <4>1. PICK i \in 1..n : st[i] = u
        BY <1>1, <3>2
      <4> QED
        BY <1>2, <2>2, <4>1
    <3> QED
      BY <1>3, <2>4, <3>1, <3>2
  <2>5. ASSUME NEW i \in 1..Len(s) PROVE s[i] \in Active'
    <3>1. CASE i \in 1..n
      BY <1>1, <1>2, <1>3, <3>1
    <3>2. CASE i = n + 1
      BY <1>2, <1>3, <3>2
    <3> QED
      BY <2>1, <3>1, <3>2
  <2> QED
    BY <2>4, <2>5
<1> QED
  BY <1>2, <1>4, <1>5, <1>6, <1>7 DEF IsChain, s

LEMMA LeaveLine ==
    ASSUME NEW st, IsChain(st), Leaves
    PROVE  IsChain(SubSeq(st, 1, Len(st) - 1))' /\ Len(st) > 1
<1> DEFINE m == Len(st) - 1
           s == SubSeq(st, 1, m)
<1>1. /\ st \in Seq(Thread) /\ Len(st) \in Nat \ {0} /\ st[1] = Main /\ st[Len(st)] = running
      /\ running # Main
  BY DEF IsChain, Leaves
<1>2. m \in Nat \ {0} /\ Len(st) = m + 1 /\ Len(st) > 1
  BY <1>1
<1>3. \A i \in 1..m : i \in 1..Len(st) /\ st[i] \in Thread /\ st[i] # running
  <2>1. SUFFICES ASSUME NEW i \in 1..m
                 PROVE  i \in 1..Len(st) /\ st[i] \in Thread /\ st[i] # running
    OBVIOUS
  <2>2. i \in 1..Len(st) /\ Len(st) \in 1..Len(st) /\ i # Len(st)
    <3> DEFINE k == Len(st)
    <3>1. k \in Nat \ {0} /\ k = m + 1 /\ i \in 1..m
      BY <1>1, <1>2
    <3> HIDE DEF k, m
    <3>2. i \in 1..k /\ k \in 1..k /\ i # k
      BY <1>2, <3>1
    <3> QED
      BY <3>2 DEF k
  <2> QED
    BY <1>1, <2>2, ElementOfSeq DEF IsChain
<1> HIDE DEF m
<1>4. s \in Seq(Thread) /\ Len(s) = m /\ \A i \in 1..m : s[i] = st[i]
  <2>1. 1 \in Int /\ m \in Int /\ \A i \in 1..m : st[i] \in Thread
    BY <1>2, <1>3
  <2>2. /\ s \in Seq(Thread) /\ Len(s) = IF 1 <= m THEN m - 1 + 1 ELSE 0
        /\ \A i \in 1 .. m - 1 + 1 : s[i] = st[1 + i - 1]
    BY <2>1, SubSeqProperties
  <2> HIDE DEF s
  <2>3. Len(s) = m /\ m - 1 + 1 = m /\ \A i \in 1..m : 1 + i - 1 = i
    BY <1>2, <2>2
  <2> QED
    BY <2>2, <2>3
<1> HIDE DEF s
<1>5. s[1] = Main /\ s[m] = running'
  <2>1. 1 \in 1..m /\ m \in 1 .. Len(st) - 1 /\ m \in 1..m
    BY <1>2
  <2>2. caller[st[m + 1]] = st[m]
    BY <2>1 DEF IsChain
  <2> QED
    BY <1>1, <1>2, <1>4, <2>1, <2>2 DEF Leaves
<1>6. \A i \in 1 .. m - 1 : caller'[s[i + 1]] = s[i]
  <2>1. SUFFICES ASSUME NEW i \in 1 .. m - 1 PROVE caller'[s[i + 1]] = s[i]
    OBVIOUS
  <2>2. i \in 1..m /\ i + 1 \in 1..m /\ i \in 1 .. Len(st) - 1
    BY <1>2
  <2>3. caller[st[i + 1]] = st[i]
    BY <2>2 DEF IsChain
  <2> QED
    BY <1>4, <2>2, <2>3 DEF Leaves
<1>7. \A i, j \in 1..m : s[i] = s[j] => i = j
  BY <1>3, <1>4 DEF IsChain
<1>8. \A u : u \in Active' <=> \E i \in 1..m : s[i] = u
  <2>1. \A i \in 1..Len(st) : i \in 1..m \/ i = Len(st)
    BY <1>2
  <2>2. Active' = Active \ {running}
    BY DEF Leaves
  <2> QED
    BY <1>1, <1>3, <1>4, <2>1, <2>2 DEF IsChain
<1> QED
  BY <1>2, <1>4, <1>5, <1>6, <1>7, <1>8 DEF IsChain, s, m

LEMMA StayLine ==
    ASSUME NEW st, IsChain(st), Stays
    PROVE  IsChain(st)'
<1>1. \A i \in 1 .. Len(st) - 1 : st[i + 1] \in Active
  <2>1. SUFFICES ASSUME NEW i \in 1 .. Len(st) - 1 PROVE st[i + 1] \in Active
    OBVIOUS
  <2>2. i + 1 \in 1..Len(st)
    BY DEF IsChain
  <2> QED
    BY <2>2 DEF IsChain
<1> QED
  BY <1>1 DEF IsChain, Stays

LEMMA NextInLine ==
    ASSUME Disciplined, IInv, InLine, AnyStep
    PROVE  InLine'
<1>1. PICK st \in Seq(Thread) : IsChain(st)
  BY DEF InLine
<1>2. CASE Stays
  BY <1>1, <1>2, StayLine DEF InLine
<1>3. CASE Leaves
  <2>1. IsChain(SubSeq(st, 1, Len(st) - 1))'
    BY <1>1, <1>3, LeaveLine
  <2> QED
    BY <2>1 DEF InLine, IsChain
<1>4. ASSUME NEW t \in Thread, Enters(t) PROVE InLine'
  <2>1. IsChain(Append(st, t))'
    BY <1>1, <1>4, EnterLine
  <2> QED
    BY <2>1 DEF InLine, IsChain
<1> QED
  BY <1>2, <1>3, <1>4, StepMoves

LEMMA InitInLine == Init => InLine
<1> SUFFICES ASSUME Init PROVE InLine
  OBVIOUS
<1> DEFINE st == <<Main>>
<1>1. st \in Seq(Thread) /\ Len(st) = 1 /\ st[1] = Main
  <2>1. Main \in Thread
    BY MainAssumption
  <2> QED
    BY <2>1
<1>2. \A i \in 1..1 : i = 1
  OBVIOUS
<1>3. Active = {Main} /\ running = Main
  BY DEF Init, Active
<1> HIDE DEF st
<1>4. IsChain(st)
  BY <1>1, <1>2, <1>3 DEF IsChain
<1> QED
  BY <1>1, <1>4 DEF InLine

(* While the main thread runs no other coroutine is active. *)
LEMMA MainAlone ==
    ASSUME InLine, running = Main
    PROVE  Active = {Main}
<1>1. PICK st \in Seq(Thread) : IsChain(st)
  BY DEF InLine
<1>2. Len(st) \in 1..Len(st) /\ 1 \in 1..Len(st)
  BY <1>1 DEF IsChain
<1>3. Len(st) = 1
  <2>1. \A i, j \in 1..Len(st) : st[i] = st[j] => i = j
    BY <1>1 DEF IsChain
  <2>2. st[1] = st[Len(st)]
    BY <1>1 DEF IsChain
  <2> QED
    BY <1>2, <2>1, <2>2
<1>4. \A i \in 1..Len(st) : i = 1
  BY <1>3
<1> QED
  BY <1>1, <1>2, <1>4 DEF IsChain

LEMMA LineHolds == Disciplined /\ Spec => [](IInv /\ InLine)
<1>1. Disciplined /\ (IInv /\ InLine) /\ [Next]_vars => (IInv /\ InLine)'
  BY NextIInv, NextInLine, NextIsStep
<1>2. Disciplined => Disciplined'
  BY DEF Disciplined
<1> QED
  BY InitIInv, InitInLine, <1>1, <1>2, PTL DEF Spec

-----------------------------------------------------------------------------
(* Whether resume tells errors from results.  Programs that close coroutines *)
(* with lua_closethread only: coroutine.close may leave close_requested set.  *)
ByCApi == Closers \subseteq {"capi"}

(* A close is requested only of a coroutine that runs and has not seen it; a  *)
(* coroutine that was started is active, dead or has yielded; and the error   *)
(* flag of one that was resumed is clear until it dies.                      *)
FlagsClear ==
    /\ \A t \in Thread : close_requested[t] =>
           status[t] = "running" /\ at[t] = "yielding" /\ at[caller[t]] = "capiClosing"
    /\ \A t \in Thread : status[t] = "suspended" => (started[t] <=> at[t] = "yielding")
    /\ \A t \in Active \ {Main} : started[t] /\ (at[caller[t]] = "resuming" => ~has_error[t])

TruthInv == FlagsClear /\ ResumeTruth

LEMMA EnterTruth ==
    ASSUME IInv, TruthInv, NEW t \in Thread, status[t] = "suspended", NEW n, NEW how, InBody,
           Enter(t, n, how),
           \/ UNCHANGED close_requested
           \/ close_requested' = [close_requested EXCEPT ![t] = TRUE]
              /\ started[t] /\ how = "capiClosing"
    PROVE  TruthInv'
<1>1. /\ TypeOK /\ running \in Thread /\ status[running] = "running" /\ t # running
      /\ at[running] = "body" /\ t \notin Active /\ t # Main
  BY DEF IInv, TypeOK, CallersChained, InBody, Active
<1>2. /\ running' = t /\ at' = [at EXCEPT ![running] = how]
      /\ caller' = [caller EXCEPT ![t] = running]
      /\ status' = [status EXCEPT ![running] = "normal", ![t] = "running"]
      /\ started' = [started EXCEPT ![t] = TRUE]
      /\ has_error' = [has_error EXCEPT ![t] = FALSE]
  BY DEF Enter
<1>3. /\ \A u \in Thread : status'[u] = IF u = t THEN "running"
                                        ELSE IF u = running THEN "normal" ELSE status[u]
      /\ \A u \in Thread : at'[u] = IF u = running THEN how ELSE at[u]
      /\ \A u \in Thread : caller'[u] = IF u = t THEN running ELSE caller[u]
      /\ started'[t] /\ \A u \in Thread : u # t => started'[u] = started[u]
      /\ ~has_error'[t] /\ \A u \in Thread : u # t => has_error'[u] = has_error[u]
  BY <1>1, <1>2 DEF TypeOK
<1>4. \A u \in Thread : ~close_requested[u]
  BY <1>1 DEF TruthInv, FlagsClear, IInv, CallersChained
<1>5. \A u \in Thread : close_requested'[u] => u = t /\ started[t] /\ how = "capiClosing"
  BY <1>1, <1>4 DEF TypeOK
<1>6. at[t] \in {"entry", "yielding"} /\ (started[t] => at[t] = "yielding")
  BY DEF IInv, Positions, TruthInv, FlagsClear
<1>7. \A u \in Thread : close_requested'[u] =>
          status'[u] = "running" /\ at'[u] = "yielding" /\ at'[caller'[u]] = "capiClosing"
  BY <1>1, <1>3, <1>5, <1>6
<1>8. ASSUME NEW u \in Thread, status'[u] = "suspended"
      PROVE  started'[u] <=> at'[u] = "yielding"
  <2>1. /\ status[u] = "suspended" /\ started'[u] = started[u] /\ at'[u] = at[u]
    BY <1>1, <1>3, <1>8
  <2> QED
    BY <2>1 DEF TruthInv, FlagsClear
<1>9. ASSUME NEW u \in Active' \ {Main}
      PROVE  started'[u] /\ (at'[caller'[u]] = "resuming" => ~has_error'[u])
  <2>1. CASE u = t
    BY <1>3, <2>1
  <2>2. CASE u # t
    <3>1. u \in Active \ {Main} /\ u \in Thread
      BY <1>1, <1>3, <2>2 DEF Active
    <3>2. caller[u] \in Thread /\ caller[u] # running /\ caller'[u] = caller[u]
      BY <1>1, <1>3, <2>2, <3>1 DEF IInv, CallersChained
    <3>3. at'[caller'[u]] = at[caller[u]]
      BY <1>3, <3>2
    <3>4. started'[u] = started[u] /\ has_error'[u] = has_error[u]
      BY <1>3, <2>2, <3>1
    <3> QED
      BY <3>1, <3>3, <3>4 DEF TruthInv, FlagsClear
  <2> QED
    BY <2>1, <2>2
<1>10. ResumeTruth'
  BY <1>1, <1>2, <1>3, <1>6 DEF ResumeTruth
<1> QED
  BY <1>7, <1>8, <1>9, <1>10 DEF TruthInv, FlagsClear

LEMMA LeaveTruth ==
    ASSUME IInv, TruthInv, running # Main,
           NEW after \in {"suspended", "dead"}, NEW how \in {"yielding", "returned", "raised"},
           NEW failed \in BOOLEAN,
           status' = [status EXCEPT ![running] = after, ![caller[running]] = "running"],
           running' = caller[running],
           at' = [at EXCEPT ![running] = how],
           UNCHANGED <<caller, target, started>>,
           has_error' = [has_error EXCEPT ![running] = failed],
           at[caller[running]] = "resuming" => (failed <=> how = "raised"),
           after = "suspended" => how = "yielding" /\ started[running],
           \A u \in Thread : ~close_requested'[u]
    PROVE  TruthInv'
<1> DEFINE c == caller[running]
<1>1. /\ TypeOK /\ running \in Thread /\ c \in Thread \ {running}
      /\ status[running] = "running" /\ status[c] = "normal" /\ target[c] = running
  BY CallerWaits DEF IInv, TypeOK
<1>2. /\ \A u \in Thread : status'[u] = IF u = c THEN "running"
                                        ELSE IF u = running THEN after ELSE status[u]
      /\ \A u \in Thread : at'[u] = IF u = running THEN how ELSE at[u]
      /\ has_error'[running] = failed
      /\ \A u \in Thread : u # running => has_error'[u] = has_error[u]
  BY <1>1 DEF TypeOK
<1>3. ASSUME NEW u \in Thread, status'[u] = "suspended"
      PROVE  started'[u] <=> at'[u] = "yielding"
  <2>1. CASE u = running
    BY <1>1, <1>2, <1>3, <2>1
  <2>2. CASE u # running
    <3>1. status[u] = "suspended" /\ at'[u] = at[u] /\ started'[u] = started[u]
      BY <1>1, <1>2, <1>3, <2>2
    <3> QED
      BY <3>1 DEF TruthInv, FlagsClear
  <2> QED
    BY <2>1, <2>2
<1>4. ASSUME NEW u \in Active' \ {Main}
      PROVE  started'[u] /\ (at'[caller'[u]] = "resuming" => ~has_error'[u])
  <2>1. u \in Active \ {Main} /\ u \in Thread /\ u # running
    BY ZenonT(40), <1>1, <1>2 DEF Active
  <2>2. caller[u] \in Thread /\ caller[u] # running /\ caller'[u] = caller[u]
    BY <1>1, <2>1 DEF IInv, CallersChained
  <2>3. /\ started'[u] = started[u] /\ has_error'[u] = has_error[u]
        /\ at'[caller'[u]] = at[caller[u]]
    BY <1>2, <2>1, <2>2
  <2> QED
    BY <2>1, <2>3 DEF TruthInv, FlagsClear
<1>5. ResumeTruth'
  BY <1>1, <1>2 DEF ResumeTruth
<1> QED
  BY <1>3, <1>4, <1>5 DEF TruthInv, FlagsClear

(* A step of the coroutine that runs which moves no control. *)
LEMMA LocalTruth ==
    ASSUME IInv, TruthInv, UNCHANGED <<running, caller, started>>,
           at' = [at EXCEPT ![running] = "body"],
           \/ UNCHANGED close_requested
           \/ close_requested' = [close_requested EXCEPT ![running] = FALSE],
           close_requested[running] => close_requested' # close_requested,
           \A u \in Thread : \/ status'[u] = status[u]
                             \/ u \notin Active /\ status'[u] = "dead",
           \A u \in Active \ {Main} : \/ has_error'[u] = has_error[u]
                                      \/ u = running /\ at[caller[u]] = "capiClosing"
    PROVE  TruthInv'
<1>1. TypeOK /\ running \in Thread /\ status[running] = "running"
  BY DEF IInv, TypeOK, CallersChained
<1>2. \A u \in Thread : at'[u] = IF u = running THEN "body" ELSE at[u]
  BY <1>1 DEF TypeOK
<1>3. \A u \in Thread : ~close_requested'[u]
  <2>1. \A u \in Thread : close_requested[u] => u = running
    BY DEF TruthInv, FlagsClear, IInv, CallersChained
  <2> QED
    BY <1>1, <2>1 DEF TypeOK
<1>4. Active' = Active
  BY <1>1 DEF Active
<1>5. \A u \in Thread : status'[u] = "suspended" => (started'[u] <=> at'[u] = "yielding")
  BY <1>1, <1>2 DEF TruthInv, FlagsClear, Active
<1>6. ASSUME NEW u \in Active' \ {Main}
      PROVE  started'[u] /\ (at'[caller'[u]] = "resuming" => ~has_error'[u])
  <2>1. u \in Active \ {Main} /\ caller[u] \in Thread /\ caller[u] # running
    BY <1>1, <1>4 DEF IInv, CallersChained
  <2>2. at'[caller'[u]] = at[caller[u]] /\ started'[u] = started[u]
    BY <1>2, <2>1
  <2> QED
    BY <2>1, <2>2 DEF TruthInv, FlagsClear
<1>7. ResumeTruth'
  BY <1>1, <1>2 DEF ResumeTruth
<1> QED
  BY <1>3, <1>5, <1>6, <1>7 DEF TruthInv, FlagsClear

LEMMA CreateTruth ==
    ASSUME IInv, TruthInv, NEW t \in Thread, Create(t)
    PROVE  TruthInv'
<1>1. /\ TypeOK /\ running \in Thread /\ status[running] = "running" /\ t \notin Active
      /\ t # running /\ at[running] = "body"
  BY DEF IInv, TypeOK, CallersChained, Active, Create, InBody
<1>2. /\ \A u \in Thread : status'[u] = IF u = t THEN "suspended" ELSE status[u]
      /\ \A u \in Thread : at'[u] = IF u = t THEN "entry" ELSE at[u]
      /\ \A u \in Thread : caller'[u] = IF u = t THEN Nil ELSE caller[u]
      /\ ~started'[t] /\ \A u \in Thread : u # t => started'[u] = started[u]
      /\ \A u \in Thread : u # t => has_error'[u] = has_error[u]
      /\ ~close_requested'[t]
      /\ \A u \in Thread : u # t => close_requested'[u] = close_requested[u]
      /\ running' = running
  BY <1>1 DEF Create, TypeOK
<1>3. \A u \in Thread : ~close_requested'[u]
  <2>1. \A u \in Thread : ~close_requested[u]
    BY <1>1 DEF TruthInv, FlagsClear, IInv, CallersChained
  <2> QED
    BY <1>2, <2>1
<1>4. ASSUME NEW u \in Thread, status'[u] = "suspended"
      PROVE  started'[u] <=> at'[u] = "yielding"
  <2>1. CASE u = t
    BY <1>2, <2>1
  <2>2. CASE u # t
    <3>1. status[u] = "suspended" /\ at'[u] = at[u] /\ started'[u] = started[u]
      BY <1>2, <1>4, <2>2
    <3> QED
      BY <3>1 DEF TruthInv, FlagsClear
  <2> QED
    BY <2>1, <2>2
<1>5. ASSUME NEW u \in Active' \ {Main}
      PROVE  started'[u] /\ (at'[caller'[u]] = "resuming" => ~has_error'[u])
  <2>1. u \in Active \ {Main} /\ u \in Thread /\ u # t
    BY <1>2 DEF Active
  <2>2. caller[u] \in Thread /\ caller[u] # t
    BY <1>1, <2>1 DEF IInv, CallersChained, Active
  <2>3. /\ started'[u] = started[u] /\ has_error'[u] = has_error[u]
        /\ at'[caller'[u]] = at[caller[u]]
    BY <1>2, <2>1, <2>2
  <2> QED
    BY <2>1, <2>3 DEF TruthInv, FlagsClear
<1>6. ResumeTruth'
  BY <1>1, <1>2 DEF ResumeTruth
<1> QED
  BY <1>3, <1>4, <1>5, <1>6 DEF TruthInv, FlagsClear

LEMMA NextTruth ==
    ASSUME Disciplined, ByCApi, IInv, TruthInv, AnyStep
    PROVE  TruthInv'
<1>0. TypeOK /\ running \in Thread /\ status[running] = "running"
  BY DEF IInv, TypeOK, CallersChained
<1>q. \A u \in Thread : close_requested[u] =>
          u = running /\ at[u] = "yielding" /\ at[caller[u]] = "capiClosing"
  BY DEF TruthInv, FlagsClear, IInv, CallersChained
<1>1. ASSUME NEW t \in Thread, Create(t) PROVE TruthInv'
  BY <1>1, CreateTruth
<1>2. ASSUME NEW t \in Thread, CloseUnstarted(t) PROVE TruthInv'
  <2>1. /\ t \notin Active /\ \A u \in Thread : u # t => has_error'[u] = has_error[u]
        /\ \A u \in Thread : status'[u] = status[u] \/ (u \notin Active /\ status'[u] = "dead")
    BY <1>0, <1>2 DEF Active, CloseUnstarted, TypeOK
  <2>2. at' = [at EXCEPT ![running] = "body"] /\ ~close_requested[running]
    BY <1>0, <1>2, <1>q DEF CloseUnstarted, InBody, TypeOK
  <2>3. \A u \in Active \ {Main} : has_error'[u] = has_error[u]
    BY <2>1 DEF Active
  <2> QED
    BY <1>2, <2>1, <2>2, <2>3, LocalTruth DEF CloseUnstarted
<1>3. ASSUME NEW t \in Thread, NEW n \in Nat, Resume(t, n) PROVE TruthInv'
  BY <1>3, EnterTruth DEF Resume, Disciplined
<1>4. ASSUME NEW t \in Thread, NEW who \in Closers, Close(t, who) PROVE TruthInv'
  <2>1. who = "capi"
    BY DEF ByCApi
  <2> QED
    BY <1>4, <2>1, EnterTruth DEF Close
<1>5. ASSUME NEW n \in Nat, Yield(n) PROVE TruthInv'
  <2>1. running # Main /\ \A u \in Thread : ~close_requested'[u]
    BY <1>5, <1>q DEF Yield, Leave, InBody
  <2>2. has_error' = [has_error EXCEPT ![running] = has_error[running]]
        /\ has_error[running] \in BOOLEAN
    BY <1>0, <1>5 DEF Yield, TypeOK
  <2>3. started[running] /\ (at[caller[running]] = "resuming" => ~has_error[running])
    BY <1>0, <2>1 DEF TruthInv, FlagsClear, Active
  <2> QED
    BY <1>5, <2>1, <2>2, <2>3, LeaveTruth DEF Yield, Leave
<1>6. ASSUME NEW n \in Nat, Return(n) PROVE TruthInv'
  <2>1. running # Main /\ \A u \in Thread : ~close_requested'[u]
    BY <1>6, <1>q DEF Return, Leave, InBody
  <2>2. has_error' = [has_error EXCEPT ![running] = has_error[running]]
        /\ has_error[running] \in BOOLEAN
    BY <1>0, <1>6 DEF Return, TypeOK
  <2>3. at[caller[running]] = "resuming" => ~has_error[running]
    BY <1>0, <2>1 DEF TruthInv, FlagsClear, Active
  <2> QED
    BY <1>6, <2>1, <2>2, <2>3, LeaveTruth DEF Return, Leave, Ended
<1>7. CASE Raise
  <2>1. running # Main /\ \A u \in Thread : ~close_requested'[u]
    BY <1>7, <1>q DEF Raise, Leave, InBody
  <2> QED
    BY <1>7, <2>1, LeaveTruth DEF Raise, Leave, Ended
<1>8. CASE ClosingUncaught
  <2>1. running # Main /\ \A u \in Thread : ~close_requested'[u]
    BY <1>0, <1>8, <1>q, RunningMain DEF ClosingUncaught, TypeOK
  <2> QED
    BY <1>8, <2>1, LeaveTruth DEF ClosingUncaught, Ended
<1>9. CASE StartBody
  BY <1>0, <1>9, <1>q, LocalTruth DEF StartBody, control
<1>10. CASE Resumed
  BY <1>0, <1>10, <1>q, LocalTruth DEF Resumed, control
<1>11. CASE ClosingCaught
  <2>1. /\ at[caller[running]] = "capiClosing"
        /\ \A u \in Thread : u # running => has_error'[u] = has_error[u]
        /\ close_requested' # close_requested
    BY <1>0, <1>11, <1>q DEF ClosingCaught, TypeOK
  <2> QED
    BY <1>0, <1>11, <2>1, LocalTruth DEF ClosingCaught, control, Active
<1>12. CASE ResumeReturns
  BY <1>0, <1>12, <1>q, LocalTruth DEF ResumeReturns, control
<1>13. CASE CloseReturns
  <2>1. target[running] \in Thread \ Active
    BY <1>13 DEF CloseReturns, IInv, WaitsOver, Active
  <2>2. \A u \in Thread : \/ status'[u] = status[u] /\ has_error'[u] = has_error[u]
                          \/ u \notin Active /\ status'[u] = "dead"
    BY <1>0, <1>13, <2>1 DEF CloseReturns, TypeOK
  <2>3. \A u \in Active : has_error'[u] = has_error[u]
    BY <1>0, <1>13, <2>1 DEF CloseReturns, TypeOK, Active
  <2> QED
    BY <1>0, <1>13, <1>q, <2>2, <2>3, LocalTruth DEF CloseReturns
<1>14. CASE UNCHANGED vars
  BY <1>14 DEF vars, control, TruthInv, FlagsClear, ResumeTruth, Active
<1> QED
  BY <1>1, <1>2, <1>3, <1>4, <1>5, <1>6, <1>7, <1>8, <1>9, <1>10, <1>11, <1>12, <1>13, <1>14
     DEF AnyStep

LEMMA InitTruth == Init => TruthInv
BY DEF Init, TruthInv, FlagsClear, ResumeTruth, Active

(* resume reports an error exactly when the coroutine died of one, whatever   *)
(* closes, caught errors and nested resumes came before.                     *)
THEOREM ResumeReportsErrors == Disciplined /\ ByCApi /\ Spec => []ResumeTruth
<1>1. Init => TruthInv
  BY InitTruth
<1>2. Disciplined /\ ByCApi /\ (IInv /\ TruthInv) /\ [Next]_vars => (IInv /\ TruthInv)'
  BY NextIInv, NextTruth, NextIsStep
<1>3. Disciplined /\ ByCApi => (Disciplined /\ ByCApi)'
  BY DEF Disciplined, ByCApi
<1>4. TruthInv => ResumeTruth
  BY DEF TruthInv
<1> QED
  BY InitIInv, <1>1, <1>2, <1>3, <1>4, PTL DEF Spec

-----------------------------------------------------------------------------
(* Coroutines implement the stack of CallStack.  First, that walking up the    *)
(* callers finds the line of active coroutines.                             *)
WalkUp(cal, run) ==
    LET upTo[n \in 0..Cardinality(Thread)] ==
            IF n = 0 THEN <<run>>
            ELSE LET below == upTo[n - 1]
                 IN  IF Head(below) = Main THEN below
                     ELSE <<cal[Head(below)]>> \o below
    IN  upTo[Cardinality(Thread)]

Lined(st, cal, run) ==
    /\ st \in Seq(Thread) /\ Len(st) \in Nat \ {0}
    /\ st[1] = Main /\ st[Len(st)] = run
    /\ \A i, j \in 1..Len(st) : st[i] = st[j] => i = j
    /\ \A i \in 1 .. Len(st) - 1 : cal[st[i + 1]] = st[i]

LEMMA NoLongerThanThread ==
    ASSUME IsFiniteSet(Thread), NEW st, NEW cal, NEW run, Lined(st, cal, run)
    PROVE  Cardinality(Thread) \in Nat /\ Len(st) <= Cardinality(Thread)
<1> DEFINE n == Len(st)
<1>1. n \in Nat /\ n \in Int /\ 1 \in Int /\ n # 0
  BY DEF Lined
<1>2. st \in [1..n -> Thread] /\ \A i, j \in 1..n : st[i] = st[j] => i = j
  BY LenProperties DEF Lined
<1> HIDE DEF n
<1>3. IsFiniteSet(1..n) /\ Cardinality(1..n) = n
  <2>1. IsFiniteSet(1..n) /\ Cardinality(1..n) = IF 1 > n THEN 0 ELSE n - 1 + 1
    BY <1>1, FS_Interval
  <2> QED
    BY <1>1, <2>1
<1>4. st \in Injection(1..n, Thread)
  <2>1. DOMAIN st = 1..n
    BY <1>2
  <2>2. IsInjective(st)
    BY <1>2, <2>1 DEF IsInjective
  <2> QED
    BY <1>2, <2>2 DEF Injection
<1>5. Cardinality(1..n) <= Cardinality(Thread)
  BY <1>4, FS_Injection
<1> QED
  BY <1>3, <1>5, FS_CardinalityType DEF n

LEMMA WalkIs ==
    ASSUME IsFiniteSet(Thread), NEW st, NEW cal, NEW run, Lined(st, cal, run)
    PROVE  WalkUp(cal, run) = st
<1> DEFINE C == Cardinality(Thread)
           L == Len(st)
           low(n) == IF n < L THEN L - n ELSE 1
           F == [n \in 0..C |-> SubSeq(st, low(n), L)]
           Next1(f, n) == IF n = 0 THEN <<run>>
                          ELSE IF Head(f[n - 1]) = Main THEN f[n - 1]
                               ELSE <<cal[Head(f[n - 1])]>> \o f[n - 1]
           Solves(f) == f = [n \in 0..C |-> Next1(f, n)]
<1>1. /\ C \in Nat /\ L \in Nat \ {0} /\ L <= C /\ st \in Seq(Thread)
      /\ st[1] = Main /\ st[L] = run /\ \A i, j \in 1..L : st[i] = st[j] => i = j
      /\ \A i \in 1 .. L - 1 : cal[st[i + 1]] = st[i]
  BY NoLongerThanThread DEF Lined
<1>2. \A n \in 0..C : low(n) \in 1..L /\ low(n) <= L /\ L \in low(n)..L
  BY <1>1
<1>3. ASSUME NEW n \in 0..C PROVE F[n] = Next1(F, n)
  <2>1. CASE n = 0
    <3>1. F[0] = SubSeq(st, L, L)
      <4>1. 0 \in 0..C /\ low(0) = L
        <5>1. 0 < L /\ L - 0 = L
          BY <1>1
        <5> HIDE DEF C, L
        <5> QED
          BY <1>1, <5>1
      <4> HIDE DEF C, L, low
      <4> QED
        BY <4>1
    <3>2. SubSeq(st, L, L) = <<st[L]>> \o SubSeq(st, L + 1, L)
      <4>1. L \in 1..L /\ L \in L..L
        BY <1>1
      <4> HIDE DEF L
      <4> QED
        BY <1>1, <4>1, SubSeqRecursiveFirst
    <3>3. SubSeq(st, L + 1, L) = <<>>
      <4>1. L \in Int /\ L + 1 \in Int /\ L < L + 1
        BY <1>1
      <4> HIDE DEF L
      <4> QED
        BY <4>1, SubSeqEmpty
    <3>4. <<st[L]>> \o <<>> = <<st[L]>>
      <4>1. <<st[L]>> \in Seq({st[L]})
        OBVIOUS
      <4> QED
        BY <4>1, ConcatEmptySeq
    <3> QED
      BY <1>1, <2>1, <3>1, <3>2, <3>3, <3>4
  <2>2. CASE n # 0
    <3> DEFINE k == low(n - 1)
    <3>1. n - 1 \in 0..C /\ F[n - 1] = SubSeq(st, k, L) /\ F[n] = SubSeq(st, low(n), L)
      <4>1. n - 1 \in 0..C
        <5> HIDE DEF C, L
        <5> QED
          BY <1>1, <2>2
      <4> HIDE DEF C, L, low
      <4> QED
        BY <4>1
    <3>2. k \in 1..L /\ L \in k..L
      BY <1>2, <3>1
    <3>3. Head(SubSeq(st, k, L)) = st[k]
      <4> HIDE DEF k, L
      <4> QED
        BY <1>1, <3>2, HeadTailOfSubSeq
    <3>4. CASE st[k] = Main
      <4>1. k = 1
        <5>1. 1 \in 1..L
          BY <1>1
        <5> HIDE DEF k, L
        <5> QED
          BY <1>1, <3>2, <3>4, <5>1
      <4>2. low(n) = 1
        BY <1>1, <2>2, <4>1
      <4> HIDE DEF low, F, L
      <4> QED
        BY <2>2, <3>1, <3>3, <3>4, <4>1, <4>2
    <3>5. CASE st[k] # Main
      <4>1. k # 1
        BY <1>1, <3>5
      <4>2. low(n) = k - 1 /\ k - 1 \in 1 .. L - 1 /\ k - 1 \in 1..L /\ L \in k - 1 .. L
        BY <1>1, <2>2, <3>2, <4>1
      <4>3. k - 1 + 1 = k
        BY <3>2
      <4>4. cal[st[k]] = st[k - 1]
        <5> HIDE DEF k, L
        <5> QED
          BY <1>1, <4>2, <4>3
      <4>5. SubSeq(st, k - 1, L) = <<st[k - 1]>> \o SubSeq(st, k - 1 + 1, L)
        <5> DEFINE j == k - 1
        <5>1. j \in 1..L /\ L \in j..L
          BY <4>2
        <5> HIDE DEF j, k, L
        <5>2. SubSeq(st, j, L) = <<st[j]>> \o SubSeq(st, j + 1, L)
          BY <1>1, <5>1, SubSeqRecursiveFirst
        <5> QED
          BY <5>2 DEF j
      <4> HIDE DEF low, F, L
      <4> QED
        BY <2>2, <3>1, <3>3, <3>5, <4>2, <4>3, <4>4, <4>5
    <3> QED
      BY <3>4, <3>5
  <2> QED
    BY <2>1, <2>2
<1>4. Solves(F)
  <2>1. F = [n \in 0..C |-> F[n]]
    OBVIOUS
  <2> HIDE DEF F, Next1
  <2> QED
    BY <1>3, <2>1
<1>5. ASSUME NEW f, Solves(f) PROVE f = F
  <2>1. f = [n \in 0..C |-> f[n]] /\ F = [n \in 0..C |-> F[n]]
    <3> HIDE DEF F, Next1, C
    <3> QED
      BY <1>4, <1>5
  <2>2. ASSUME NEW n \in 0..C PROVE f[n] = Next1(f, n)
    <3> HIDE DEF Next1, C
    <3> QED
      BY <1>5
  <2> DEFINE D == {n \in 0..C : f[n] # F[n]}
  <2>3. ASSUME D # {} PROVE FALSE
    <3> DEFINE R == OpToRel(<, Nat)
    <3>1. IsWellFoundedOn(R, Nat)
      BY NatLessThanWellFounded
    <3>2. \A y, x \in Nat : <<y, x>> \in R <=> y < x
      BY DEF OpToRel
    <3>3. D \subseteq Nat
      BY <1>1
    <3> HIDE DEF R, D
    <3>4. PICK m \in D : \A y \in D : ~(<<y, m>> \in R)
      BY <2>3, <3>1, <3>3, WFMin
    <3>5. m \in 0..C /\ f[m] # F[m]
      BY <3>4 DEF D
    <3>6. CASE m = 0
      <4>1. f[m] = <<run>> /\ F[m] = <<run>>
        <5> HIDE DEF F, C
        <5> QED
          BY <1>3, <2>2, <3>5, <3>6
      <4> QED
        BY <3>5, <4>1
    <3>7. CASE m # 0
      <4>1. m - 1 \in 0..C /\ m - 1 \in Nat /\ m \in Nat /\ m - 1 < m
        BY <1>1, <3>5, <3>7
      <4>2. ~(<<m - 1, m>> \in R) => m - 1 \notin D \/ m - 1 \in D
        OBVIOUS
      <4>3. <<m - 1, m>> \in R
        BY <3>2, <4>1, Zenon
      <4>4. m - 1 \notin D
        BY <3>4, <4>3
      <4>5. f[m - 1] = F[m - 1]
        BY <4>1, <4>4 DEF D
      <4>6. Next1(f, m) = Next1(F, m)
        <5> HIDE DEF F
        <5> QED
          BY <4>5
      <4>7. f[m] = Next1(f, m) /\ F[m] = Next1(F, m)
        <5> HIDE DEF F, Next1
        <5> QED
          BY <1>3, <2>2, <3>5
      <4> QED
        BY <3>5, <4>6, <4>7
    <3> QED
      BY <3>6, <3>7
  <2>4. \A n \in 0..C : f[n] = F[n]
    BY <2>3
  <2> HIDE DEF F
  <2> QED
    BY <2>1, <2>4
<1>6. WalkUp(cal, run) = (CHOOSE f : Solves(f))[C]
  BY DEF WalkUp
<1>7. (CHOOSE f : Solves(f)) = F
  <2> HIDE DEF Solves, F
  <2> QED
    BY <1>4, <1>5
<1>8. F[C] = SubSeq(st, 1, L)
  <2>1. C \in 0..C /\ low(C) = 1
    <3> HIDE DEF C, L
    <3> QED
      BY <1>1
  <2> HIDE DEF C, L, low
  <2> QED
    BY <2>1
<1>9. SubSeq(st, 1, L) = st
  BY <1>1, SubSeqFull
<1> QED
  BY <1>6, <1>7, <1>8, <1>9

LEMMA CallersIs ==
    ASSUME IsFiniteSet(Thread), NEW st, IsChain(st)
    PROVE  Callers = st
<1>1. Lined(st, caller, running)
  BY DEF IsChain, Lined
<1>2. Callers = WalkUp(caller, running)
  BY DEF Callers, WalkUp
<1> QED
  BY <1>1, <1>2, WalkIs

LEMMA CallersNext ==
    ASSUME IsFiniteSet(Thread), NEW st, IsChain(st)'
    PROVE  Callers' = st
<1>1. Lined(st, caller', running')
  BY DEF IsChain, Lined
<1>2. Callers' = WalkUp(caller', running')
  BY DEF Callers, WalkUp
<1> QED
  BY <1>1, <1>2, WalkIs

Alive == {t \in Thread : status[t] \notin {"none", "dead"}}

(* How the stack that Callers reads off changes with a step. *)
LEMMA StackMoves ==
    ASSUME IsFiniteSet(Thread), InLine
    PROVE  /\ Callers \in Seq(Thread) /\ Len(Callers) \in Nat \ {0}
           /\ Callers[Len(Callers)] = running
           /\ \A u : u \in Stack!OnStack <=> u \in Active
           /\ Stays => Callers' = Callers
           /\ Leaves => Callers' = Stack!Below /\ Len(Callers) > 1
           /\ \A t \in Thread : Enters(t) => Callers' = Append(Callers, t)
<1>1. PICK st \in Seq(Thread) : IsChain(st)
  BY DEF InLine
<1>2. Callers = st
  BY <1>1, CallersIs
<1>3. \A u : u \in Stack!OnStack <=> u \in Active
  BY <1>1, <1>2 DEF IsChain, Stack!OnStack
<1>4. ASSUME Stays PROVE Callers' = Callers
  BY <1>1, <1>2, <1>4, StayLine, CallersNext
<1>5. ASSUME Leaves PROVE Callers' = Stack!Below /\ Len(Callers) > 1
  <2>1. IsChain(SubSeq(st, 1, Len(st) - 1))' /\ Len(st) > 1
    BY <1>1, <1>5, LeaveLine
  <2>2. Callers' = SubSeq(st, 1, Len(st) - 1)
    BY <2>1, CallersNext
  <2> QED
    BY <1>2, <2>1, <2>2 DEF Stack!Below
<1>6. ASSUME NEW t \in Thread, Enters(t) PROVE Callers' = Append(Callers, t)
  <2>1. IsChain(Append(st, t))'
    BY <1>1, <1>6, EnterLine
  <2> QED
    BY <1>2, <2>1, CallersNext
<1> QED
  BY <1>1, <1>2, <1>3, <1>4, <1>5, <1>6 DEF IsChain

LEMMA MailIs ==
    ASSUME IInv
    PROVE  Mail \in Nat /\ (InBody \/ at[running] \in {"closing", "capiClosing"} => Mail = 0)
<1>1. /\ TypeOK /\ running \in Thread
      /\ at[running] = "resuming" => target[running] \in Thread
  BY DEF IInv, TypeOK, WaitsOver
<1>2. CASE at[running] \in {"entry", "yielding"}
  <2>1. Mail = resume_args[running]
    BY <1>2 DEF Mail
  <2> QED
    BY <1>1, <1>2, <2>1 DEF TypeOK, InBody
<1>3. CASE at[running] = "resuming"
  <2>1. Mail = yield_args[target[running]]
    BY <1>3 DEF Mail
  <2> QED
    BY <1>1, <1>3, <2>1 DEF TypeOK, InBody
<1>4. CASE at[running] \notin {"entry", "yielding", "resuming"}
  BY <1>4 DEF Mail
<1> QED
  BY <1>2, <1>3, <1>4

LEMMA NextRefines ==
    ASSUME IsFiniteSet(Thread), Disciplined, IInv, InLine, IInv', AnyStep
    PROVE  [Stack!Next]_(Stack!vars)
<1> DEFINE top == Callers[Len(Callers)]
<1>0. /\ TypeOK /\ running \in Thread /\ status[running] = "running"
      /\ running \in Active /\ top = running
      /\ \A u : u \in Stack!OnStack <=> u \in Active
      /\ \A u \in Active : u \in Alive
      /\ TypeOK' /\ running' \in Thread
  BY StackMoves DEF IInv, TypeOK, CallersChained, Active, Alive
<1>1. Mail' \in Nat /\ (InBody' => Mail' = 0) /\ (InBody => Mail = 0)
      /\ (at[running] \in {"closing", "capiClosing"} => Mail = 0)
  <2>1. (at'[running'] \notin {"entry", "yielding", "resuming"} => Mail' = 0)
    BY DEF Mail
  <2>2. /\ at'[running'] \in {"entry", "yielding"} => Mail' = resume_args'[running']
        /\ at'[running'] = "resuming" => Mail' = yield_args'[target'[running']]
    BY DEF Mail
  <2>3. at'[running'] = "resuming" => target'[running'] \in Thread
    BY DEF IInv, WaitsOver
  <2>4. Mail' \in Nat
    <3>1. CASE at'[running'] \in {"entry", "yielding"}
      <4>1. resume_args'[running'] \in Nat
        BY <1>0 DEF TypeOK
      <4> QED
        BY <2>2, <3>1, <4>1
    <3>2. CASE at'[running'] = "resuming"
      <4>1. yield_args'[target'[running']] \in Nat
        BY <1>0, <2>3, <3>2 DEF TypeOK
      <4> QED
        BY <2>2, <3>2, <4>1
    <3> QED
      BY <2>1, <3>1, <3>2
  <2> QED
    BY <2>1, <2>4, MailIs DEF InBody
(* A step of the one that runs which moves no control. *)
<1>r. ASSUME Stays, Mail' = 0, Alive' = Alive PROVE Stack!Receive
  BY <1>r, StackMoves DEF Stack!Receive, Alive
<1>k. ASSUME Stays, Mail' = 0, NEW t \in Thread, t \in Alive, t \notin Active,
             Alive' = Alive \ {t}
      PROVE  Stack!Kill(t)
  BY <1>0, <1>k, StackMoves DEF Stack!Kill, Alive
<1>e. ASSUME NEW t \in Thread, Enters(t), t \in Alive, Alive' = Alive PROVE Stack!Resume(t)
  <2>1. t \notin Stack!OnStack
    BY <1>0, <1>e DEF Enters
  <2> QED
    BY <1>1, <1>e, <2>1, StackMoves DEF Stack!Resume, Alive
<1>l. ASSUME Leaves, Alive' = Alive \/ Alive' = Alive \ {running} PROVE Stack!Leave
  BY <1>0, <1>1, <1>l, StackMoves DEF Stack!Leave, Alive
<1>2. ASSUME NEW t \in Thread, Create(t) PROVE [Stack!Next]_(Stack!vars)
  <2>1. /\ \A u \in Thread : status'[u] = IF u = t THEN "suspended" ELSE status[u]
        /\ \A u \in Active : caller'[u] = caller[u]
        /\ running' = running /\ InBody /\ t \notin Active
        /\ at'[running] = at[running]
    BY <1>0, <1>2 DEF Create, TypeOK, Active, InBody
  <2>2. Active' = Active /\ Alive' = Alive \cup {t}
    BY <2>1 DEF Active, Alive
  <2>3. Stays /\ Mail' = Mail
    BY <1>1, <2>1, <2>2 DEF Stays, InBody
  <2>4. CASE t \in Alive
    BY <2>2, <2>3, <2>4, StackMoves DEF Stack!vars, Alive
  <2>5. CASE t \notin Alive
    BY <2>2, <2>3, <2>5, StackMoves DEF Stack!Next, Stack!Create, Alive
  <2> QED
    BY <2>4, <2>5
<1>3. ASSUME NEW t \in Thread, CloseUnstarted(t) PROVE Stack!Kill(t)
  <2>1. /\ \A u \in Thread : status'[u] = IF u = t THEN "dead" ELSE status[u]
        /\ t \in Alive /\ t \notin Active /\ UNCHANGED <<running, caller, at>> /\ InBody
    BY <1>0, <1>3 DEF CloseUnstarted, TypeOK, Active, Alive
  <2>2. Alive' = Alive \ {t} /\ Stays /\ Mail' = 0
    BY <1>1, <2>1 DEF Alive, Active, Stays, InBody
  <2> QED
    BY <1>k, <2>1, <2>2
<1>4. ASSUME NEW t \in Thread, status[t] = "suspended", NEW n, NEW how, Enter(t, n, how)
      PROVE  Stack!Resume(t)
  <2>1. Enters(t)
    BY <1>4, EntersIs
  <2>2. status' = [status EXCEPT ![running] = "normal", ![t] = "running"]
    BY <1>4 DEF Enter
  <2>3. \A u \in Thread : status'[u] = IF u = t THEN "running"
                                       ELSE IF u = running THEN "normal" ELSE status[u]
    BY <1>0, <1>4, <2>2 DEF TypeOK
  <2>4. t \in Alive /\ Alive' = Alive
    BY <1>0, <1>4, <2>3 DEF Alive
  <2> QED
    BY <1>e, <2>1, <2>4
<1>5. ASSUME running # Main, NEW after \in {"suspended", "dead"}, running' = caller[running],
             UNCHANGED caller,
             status' = [status EXCEPT ![running] = after, ![caller[running]] = "running"]
      PROVE  Stack!Leave
  <2>1. Leaves
    BY <1>5, LeavesIs
  <2>2. caller[running] \in Thread /\ status[caller[running]] = "normal"
    BY <1>5, CallerWaits
  <2>3. \A u \in Thread : status'[u] = IF u = caller[running] THEN "running"
                                       ELSE IF u = running THEN after ELSE status[u]
    BY <1>0, <1>5, <2>2 DEF TypeOK
  <2>4. Alive' = Alive \/ Alive' = Alive \ {running}
    BY <1>0, <2>2, <2>3 DEF Alive
  <2> QED
    BY <1>l, <2>1, <2>4
<1>6. ASSUME UNCHANGED <<running, caller, status>>, at' = [at EXCEPT ![running] = "body"]
      PROVE  Stack!Receive
  <2>1. Stays /\ Alive' = Alive
    BY <1>6, StaysIs DEF Alive
  <2>2. Mail' = 0
    BY <1>0, <1>1, <1>6 DEF InBody, TypeOK
  <2> QED
    BY <1>r, <2>1, <2>2
<1>7. CASE CloseReturns
  <2>1. /\ target[running] \in Thread /\ status[target[running]] \in {"suspended", "dead"}
        /\ UNCHANGED <<running, caller>> /\ at' = [at EXCEPT ![running] = "body"]
    BY <1>7 DEF CloseReturns, IInv, WaitsOver
  <2>2. CASE UNCHANGED status
    BY <1>6, <2>1, <2>2 DEF Stack!Next
  <2>3. CASE /\ status' = [status EXCEPT ![target[running]] = "dead"]
             /\ status[target[running]] # "dead"
    <3>t. PICK t \in Thread : t = target[running]
      BY <2>1
    <3>0. t \in Thread /\ status[t] = "suspended" /\ status' = [status EXCEPT ![t] = "dead"]
      BY <2>1, <2>3, <3>t
    <3>1. /\ \A u \in Thread : status'[u] = IF u = t THEN "dead" ELSE status[u]
          /\ t \in Alive /\ t \notin Active
      BY <1>0, <3>0 DEF TypeOK, Active, Alive
    <3>2. Alive' = Alive \ {t}
      BY <3>1 DEF Alive
    <3>3. Stays
      BY <2>1, <3>0, <3>1, StaysIs
    <3>4. Mail' = 0
      BY <1>0, <1>1, <2>1 DEF InBody, TypeOK
    <3>5. Stack!Kill(t)
      BY <1>k, <3>0, <3>1, <3>2, <3>3, <3>4
    <3> QED
      BY <3>0, <3>5 DEF Stack!Next
  <2> QED
    BY <1>7, <2>2, <2>3 DEF CloseReturns, Stack!Next
<1>8. CASE UNCHANGED vars
  <2>1. UNCHANGED <<running, caller, status, at, resume_args, yield_args, target>>
    BY <1>8 DEF vars, control
  <2>2. Mail' = Mail
    BY <2>1 DEF Mail
  <2>3. Stays /\ Alive' = Alive
    BY <2>1, StaysIs DEF Alive
  <2> QED
    BY <2>2, <2>3, StackMoves DEF Stack!vars, Alive
<1>9. ASSUME NEW t \in Thread, NEW n \in Nat, Resume(t, n) PROVE Stack!Resume(t)
  BY <1>4, <1>9 DEF Resume, Disciplined
<1>10. ASSUME NEW t \in Thread, NEW who \in Closers, Close(t, who) PROVE Stack!Resume(t)
  BY <1>4, <1>10 DEF Close
<1>11. ASSUME NEW n \in Nat, Yield(n) PROVE Stack!Leave
  BY <1>5, <1>11 DEF Yield, Leave
<1>12. ASSUME NEW n \in Nat, Return(n) PROVE Stack!Leave
  BY <1>5, <1>12 DEF Return, Leave, Ended
<1>13. CASE Raise
  BY <1>5, <1>13 DEF Raise, Leave, Ended, Stack!Next
<1>14. CASE ClosingUncaught
  BY <1>5, <1>14, RunningMain DEF ClosingUncaught, Ended, Stack!Next
<1>15. CASE StartBody \/ Resumed \/ ClosingCaught \/ ResumeReturns
  <2>1. UNCHANGED <<running, caller, status>> /\ at' = [at EXCEPT ![running] = "body"]
    BY <1>15 DEF StartBody, Resumed, ClosingCaught, ResumeReturns, control
  <2> QED
    BY <1>6, <2>1 DEF Stack!Next
<1> QED
  BY <1>2, <1>3, <1>7, <1>8, <1>9, <1>10, <1>11, <1>12, <1>13, <1>14, <1>15
     DEF AnyStep, Stack!Next

(* Coroutines, with their caller pointers and status words, implement a stack *)
(* of coroutines on top of which one runs, to which values are handed.       *)
THEOREM ImplementsStack == Disciplined /\ IsFiniteSet(Thread) /\ Spec => StackSpec
<1>1. IsFiniteSet(Thread) /\ Init => Stack!Init
  <2> SUFFICES ASSUME IsFiniteSet(Thread), Init PROVE Stack!Init
    OBVIOUS
  <2>1. Callers = <<Main>>
    <3> DEFINE st == <<Main>>
    <3>1. st \in Seq(Thread) /\ Len(st) = 1 /\ st[1] = Main
      BY MainAssumption
    <3>2. running = Main /\ \A i \in 1..1 : i = 1
      BY DEF Init
    <3> HIDE DEF st
    <3>3. Lined(st, caller, running)
      BY <3>1, <3>2 DEF Lined
    <3>4. Callers = WalkUp(caller, running)
      BY DEF Callers, WalkUp
    <3> QED
      BY <3>3, <3>4, WalkIs DEF st
  <2>2. Mail = 0 /\ Alive = {Main}
    BY MainAssumption DEF Init, Mail, Alive
  <2> QED
    BY <2>1, <2>2 DEF Stack!Init, Alive
<1>2. /\ Disciplined /\ IsFiniteSet(Thread) /\ IInv /\ InLine /\ IInv' /\ [Next]_vars =>
           [Stack!Next]_(Stack!vars)
  BY NextRefines, NextIsStep
<1>3. Disciplined /\ IsFiniteSet(Thread) => (Disciplined /\ IsFiniteSet(Thread))'
  BY DEF Disciplined
<1> QED
  BY <1>1, <1>2, <1>3, LineHolds, PTL DEF Spec, StackSpec, Stack!Spec

-----------------------------------------------------------------------------
(* The roots of coroutines. *)

CollectsOnMain == CollectsOn \subseteq {Main}

USE ValAssumption, ActorsAssumption

RootsInv == IInv /\ InLine /\ RootsIInv

(* A coroutine other than the one that runs, in a step of the program: it     *)
(* keeps what it holds, and what is known of it.                            *)
Untouched(u) ==
    /\ held'[u] = held[u] /\ age'[u] = age[u]
    /\ at'[u] = "entry" => at[u] = "entry"
    /\ status'[u] = "suspended" => status[u] = "suspended"
    /\ status'[u] \in {"running", "normal"} => status[u] \in {"running", "normal", "suspended"}
    /\ u \in rem => u \in rem'

Kept ==
    /\ heap \subseteq heap' /\ \A x \in heap : age'[x] = age[x]
    /\ held'[running] \subseteq heap'
    /\ at'[running] # "entry"
    /\ status'[running] = "suspended" /\ age'[running] = "old" => running \in rem'
    /\ \A u \in Thread \ {running} : held'[u] = {} \/ Untouched(u)
    /\ due' = FALSE

LEMMA KeptHolds ==
    ASSUME RootsIInv, RootsTypeOK', SentNotFreed', Kept
    PROVE  RootsIInv'
<1>1. HeldNotFreed'
  <2>1. SUFFICES ASSUME NEW u \in Thread, status'[u] \in {"running", "normal", "suspended"}
                 PROVE  held'[u] \subseteq heap'
    BY DEF HeldNotFreed
  <2>2. CASE u = running \/ held'[u] = {}
    BY <2>2 DEF Kept
  <2>3. CASE u # running /\ Untouched(u)
    <3>1. status[u] \in {"running", "normal", "suspended"} /\ held'[u] = held[u]
      BY <2>1, <2>3 DEF Untouched
    <3> QED
      BY <3>1 DEF Kept, RootsIInv, HeldNotFreed
  <2> QED
    BY <2>2, <2>3 DEF Kept
<1>2. SuspendedRemembered'
  <2>1. SUFFICES ASSUME NEW u \in Thread, status'[u] = "suspended", age'[u] = "old",
                        NEW x \in held'[u], age'[x] # "old"
                 PROVE  u \in rem'
    BY DEF SuspendedRemembered, NonOld
  <2>2. CASE u = running
    BY <2>1, <2>2 DEF Kept
  <2>3. CASE u # running
    <3>1. Untouched(u)
      BY <2>1, <2>3 DEF Kept
    <3>2. status[u] = "suspended" /\ age[u] = "old" /\ x \in held[u]
      BY <2>1, <3>1 DEF Untouched
    <3>3. age[x] # "old"
      BY <2>1, <3>2 DEF Kept, RootsIInv, HeldNotFreed
    <3> QED
      BY <3>1, <3>2, <3>3 DEF RootsIInv, SuspendedRemembered, NonOld, Untouched
  <2> QED
    BY <2>2, <2>3
<1>3. UnstartedHoldNothing'
  BY DEF UnstartedHoldNothing, RootsIInv, Kept, Untouched
<1>4. DueWhereCollected'
  BY DEF DueWhereCollected, Kept
<1> QED
  BY <1>1, <1>2, <1>3, <1>4 DEF RootsIInv

(* What the coroutine that runs holds is in the heap. *)
LEMMA RunningHolds ==
    ASSUME IInv, RootsIInv
    PROVE  /\ TypeOK /\ RootsTypeOK /\ running \in Thread /\ status[running] = "running"
           /\ held[running] \subseteq heap /\ held[running] \subseteq Val
           /\ (due => InBody)
BY DEF IInv, TypeOK, CallersChained, RootsIInv, RootsTypeOK, HeldNotFreed, DueWhereCollected

LEMMA SubsetCount ==
    ASSUME NEW S \in SUBSET Val
    PROVE  Cardinality(S) \in Nat
BY FS_Subset, FS_CardinalityType

LEMMA NewValueStep ==
    ASSUME IInv, RootsIInv, NEW v0 \in Val, NewValue(v0)
    PROVE  RootsIInv'
<1>1. /\ TypeOK /\ RootsTypeOK /\ running \in Thread /\ held[running] \subseteq heap
      /\ at[running] = "body" /\ due = FALSE
  BY RunningHolds DEF NewValue, Acts, InBody, RootsTypeOK
<1>2. /\ UNCHANGED <<running, status, at, sent, gave, rem, mainMarked, due, target, top_root>>
      /\ heap' = heap \cup {v0} /\ age' = [age EXCEPT ![v0] = "young"]
      /\ held' = [held EXCEPT ![running] = @ \cup {v0}]
  BY DEF NewValue, vars, control, roots
<1>3. TypeOK'
  BY <1>1 DEF NewValue, vars, control, roots, TypeOK
<1>4. RootsTypeOK'
  BY <1>1, <1>2, <1>3 DEF RootsTypeOK
<1>5. v0 \notin Thread /\ v0 \notin heap
  BY DEF NewValue
<1>6. Kept
  <2>1. heap \subseteq heap' /\ \A x \in heap : age'[x] = age[x]
    BY <1>1, <1>2, <1>5 DEF RootsTypeOK
  <2>2. held'[running] \subseteq heap'
    BY <1>1, <1>2 DEF RootsTypeOK
  <2>3. \A u \in Thread \ {running} : Untouched(u)
    BY <1>1, <1>2, <1>5 DEF Untouched, RootsTypeOK
  <2>4. at'[running] # "entry" /\ status'[running] # "suspended" /\ due' = FALSE
    BY <1>1, <1>2, RunningHolds
  <2> QED
    BY <2>1, <2>2, <2>3, <2>4 DEF Kept
<1>7. SentNotFreed'
  BY <1>1, <1>2 DEF SentNotFreed
<1> QED
  BY <1>4, <1>6, <1>7, KeptHolds

LEMMA DropStep ==
    ASSUME IInv, RootsIInv, TypeOK', NEW v0, Drop(v0)
    PROVE  RootsIInv'
<1>1. /\ RootsTypeOK /\ running \in Thread /\ held[running] \subseteq heap
      /\ at[running] = "body" /\ due = FALSE /\ status[running] = "running"
  BY RunningHolds DEF Drop, Acts, InBody, RootsTypeOK
<1>2. /\ UNCHANGED <<running, status, at, sent, gave, heap, age, rem, mainMarked, due, target>>
      /\ held' = [held EXCEPT ![running] = @ \ {v0}]
  BY DEF Drop, vars, control, heapVars
<1>3. RootsTypeOK'
  BY <1>1, <1>2 DEF RootsTypeOK
<1>4. held'[running] \subseteq heap' /\ \A u \in Thread \ {running} : Untouched(u)
  BY <1>1, <1>2 DEF Untouched, RootsTypeOK
<1>5. Kept /\ SentNotFreed'
  BY <1>1, <1>2, <1>4 DEF Kept, SentNotFreed
<1> QED
  BY <1>3, <1>5, KeptHolds

LEMMA CreateThreadStep ==
    ASSUME IInv, RootsIInv, TypeOK', NEW t \in Thread, CreateThread(t)
    PROVE  RootsIInv'
<1>1. /\ TypeOK /\ RootsTypeOK /\ running \in Thread /\ held[running] \subseteq heap
      /\ at[running] = "body" /\ due = FALSE /\ status[running] = "running" /\ t # running
  BY RunningHolds DEF CreateThread, Create, Acts, InBody, RootsTypeOK
<1>2. /\ UNCHANGED <<running, heap, mainMarked, due, target>>
      /\ status' = [status EXCEPT ![t] = "suspended"] /\ at' = [at EXCEPT ![t] = "entry"]
      /\ age' = [age EXCEPT ![t] = "young"] /\ rem' = rem \ {t}
      /\ held' = [held EXCEPT ![t] = {}]
      /\ sent' = [sent EXCEPT ![t] = {}] /\ gave' = [gave EXCEPT ![t] = {}]
  BY DEF CreateThread, Create
<1>3. RootsTypeOK'
  BY <1>1, <1>2 DEF RootsTypeOK
<1>4. /\ held'[running] = held[running] /\ at'[running] = "body"
      /\ status'[running] = "running"
  BY <1>1, <1>2 DEF TypeOK, RootsTypeOK
<1>5. \A x \in heap : age'[x] = age[x]
  BY <1>1, <1>2 DEF RootsTypeOK
<1>6. ASSUME NEW u \in Thread \ {running} PROVE held'[u] = {} \/ Untouched(u)
  <2>1. CASE u = t
    BY <1>1, <1>2, <2>1 DEF RootsTypeOK
  <2>2. CASE u # t
    BY <1>1, <1>2, <2>2 DEF Untouched, RootsTypeOK, TypeOK
  <2> QED
    BY <2>1, <2>2
<1>7. Kept
  BY <1>1, <1>2, <1>4, <1>5, <1>6 DEF Kept
<1>8. SentNotFreed'
  BY <1>2, <1>4 DEF SentNotFreed
<1> QED
  BY <1>3, <1>7, <1>8, KeptHolds

(* A coroutine is entered, with values that the one that runs holds. *)
LEMMA EnterKeeps ==
    ASSUME IInv, RootsIInv, TypeOK', ~due,
           NEW t \in Thread, status[t] = "suspended", NEW n,
           NEW how \in {"resuming", "closing", "capiClosing"}, InBody, Enter(t, n, how),
           NEW S \in SUBSET held[running], sent' = [sent EXCEPT ![t] = S],
           UNCHANGED <<held, gave, heap, age, mainMarked, due>>,
           rem \subseteq rem', rem' \subseteq Thread
    PROVE  RootsIInv'
<1>1. /\ TypeOK /\ RootsTypeOK /\ running \in Thread /\ t # running /\ status[running] = "running"
      /\ held[running] \subseteq heap /\ held[running] \subseteq Val /\ due = FALSE
  BY RunningHolds DEF RootsTypeOK
<1>2. /\ running' = t /\ at' = [at EXCEPT ![running] = how]
      /\ status' = [status EXCEPT ![running] = "normal", ![t] = "running"]
  BY DEF Enter
<1>3. at[t] \in {"entry", "yielding"}
  BY DEF IInv, Positions
<1>4. RootsTypeOK'
  BY <1>1 DEF RootsTypeOK
<1>5. ASSUME NEW u \in Thread \ {running} PROVE Untouched(u)
  BY <1>1, <1>2 DEF Untouched, TypeOK
<1>6. at'[running] # "entry" /\ status'[running] = "normal"
  BY <1>1, <1>2 DEF TypeOK
<1>7. Kept
  BY <1>1, <1>5, <1>6 DEF Kept
<1>8. SentNotFreed'
  <2>1. sent'[t] \subseteq heap /\ at'[t] = at[t]
    BY <1>1, <1>2 DEF RootsTypeOK, TypeOK
  <2> QED
    BY <1>2, <1>3, <2>1 DEF SentNotFreed
<1> QED
  BY <1>4, <1>7, <1>8, KeptHolds

LEMMA ResumeWithStep ==
    ASSUME Disciplined, IInv, RootsIInv, TypeOK', NEW t \in Thread,
           NEW S \in SUBSET held[running], ResumeWith(t, S)
    PROVE  RootsIInv'
<1>1. rem \subseteq rem' /\ rem' \subseteq Thread
  BY DEF ResumeWith, BarrierOn, RootsIInv, RootsTypeOK
<1>2. status[t] = "suspended" /\ InBody /\ ~due
  BY DEF ResumeWith, Resume, Disciplined, Acts
<1>3. Enter(t, Cardinality(S), "resuming")
  BY DEF ResumeWith, Resume
<1> QED
  BY <1>1, <1>2, <1>3, EnterKeeps DEF ResumeWith

LEMMA CloseThreadStep ==
    ASSUME IInv, RootsIInv, TypeOK', NEW t \in Thread, NEW who, CloseThread(t, who)
    PROVE  RootsIInv'
<1>1. rem \subseteq rem' /\ rem' \subseteq Thread
  BY DEF CloseThread, heapVars, RootsIInv, RootsTypeOK
<1>2. status[t] = "suspended" /\ InBody /\ ~due
  BY DEF CloseThread, Close, Acts
<1>3. PICK how \in {"closing", "capiClosing"} : Enter(t, 0, how)
  BY DEF CloseThread, Close
<1>4. {} \in SUBSET held[running] /\ sent' = [sent EXCEPT ![t] = {}]
  BY DEF CloseThread
<1>5. UNCHANGED <<held, gave, heap, age, mainMarked, due>>
  BY DEF CloseThread, heapVars
<1> QED
  BY <1>1, <1>2, <1>3, <1>4, <1>5, EnterKeeps

(* Control goes back to the caller, with values that the one that runs holds; *)
(* if it is suspended and old, it is remembered.                             *)
LEMMA LeaveKeeps ==
    ASSUME IInv, RootsIInv, TypeOK', ~due, running # Main,
           NEW after \in {"suspended", "dead"}, NEW how \in {"yielding", "returned", "raised"},
           status' = [status EXCEPT ![running] = after, ![caller[running]] = "running"],
           running' = caller[running],
           at' = [at EXCEPT ![running] = how],
           NEW S \in SUBSET held[running], gave' = [gave EXCEPT ![running] = S],
           UNCHANGED <<target, sent, heap, age, mainMarked, due>>,
           UNCHANGED held \/ held' = [held EXCEPT ![running] = {}],
           rem \subseteq rem', rem' \subseteq Thread,
           after = "suspended" /\ age[running] = "old" => running \in rem'
    PROVE  RootsIInv'
<1> DEFINE c == caller[running]
<1>1. /\ TypeOK /\ RootsTypeOK /\ running \in Thread /\ c \in Thread \ {running}
      /\ status[running] = "running" /\ status[c] = "normal" /\ target[c] = running
      /\ at[c] \in {"resuming", "closing", "capiClosing"}
      /\ held[running] \subseteq heap /\ held[running] \subseteq Val /\ due = FALSE
  BY CallerWaits, RunningHolds DEF RootsTypeOK
<1>2. /\ \A u \in Thread : status'[u] = IF u = c THEN "running"
                                        ELSE IF u = running THEN after ELSE status[u]
      /\ \A u \in Thread : at'[u] = IF u = running THEN how ELSE at[u]
  BY <1>1 DEF TypeOK
<1>3. RootsTypeOK'
  BY <1>1 DEF RootsTypeOK
<1>4. ASSUME NEW u \in Thread \ {running} PROVE Untouched(u)
  BY ZenonT(40), <1>1, <1>2 DEF Untouched, RootsTypeOK
<1>5. held'[running] \subseteq heap'
  BY <1>1 DEF RootsTypeOK
<1>6. Kept
  BY <1>1, <1>2, <1>4, <1>5 DEF Kept
<1>7. SentNotFreed'
  BY <1>1, <1>2 DEF SentNotFreed, RootsTypeOK
<1> QED
  BY <1>3, <1>6, <1>7, KeptHolds

LEMMA YieldWithStep ==
    ASSUME IInv, RootsIInv, TypeOK', NEW S \in SUBSET held[running], YieldWith(S)
    PROVE  RootsIInv'
<1>1. /\ rem \subseteq rem' /\ rem' \subseteq Thread
      /\ age[running] = "old" => running \in rem'
  BY RunningHolds DEF YieldWith, RootsTypeOK
<1>2. running # Main /\ ~due
  BY DEF YieldWith, Yield, Acts
<1>3. /\ status' = [status EXCEPT ![running] = "suspended", ![caller[running]] = "running"]
      /\ running' = caller[running] /\ at' = [at EXCEPT ![running] = "yielding"]
      /\ gave' = [gave EXCEPT ![running] = S]
      /\ UNCHANGED <<held, target, sent, heap, age, mainMarked, due>>
  BY DEF YieldWith, Yield, Leave
<1> QED
  BY <1>1, <1>2, <1>3, LeaveKeeps

(* The body of the coroutine that runs ends. *)
LEMMA EndKeeps ==
    ASSUME IInv, RootsIInv, TypeOK', ~due, running # Main,
           NEW S \in SUBSET held[running], Ends(S),
           NEW how \in {"returned", "raised"}, status' = Ended(running, status),
           running' = caller[running], at' = [at EXCEPT ![running] = how], UNCHANGED target
    PROVE  RootsIInv'
<1>1. /\ gave' = [gave EXCEPT ![running] = S] /\ held' = [held EXCEPT ![running] = {}]
      /\ UNCHANGED <<sent, heap, age, rem, mainMarked, due>>
  BY DEF Ends, heapVars
<1>2. rem' \subseteq Thread
  BY <1>1 DEF RootsIInv, RootsTypeOK
<1> QED
  BY <1>1, <1>2, LeaveKeeps DEF Ended

(* The coroutine that runs goes on in its body, with the values it is handed. *)
LEMMA GoesOnKeeps ==
    ASSUME IInv, RootsIInv, TypeOK', ~due, UNCHANGED <<running, gave, heapVars>>,
           UNCHANGED sent \/ sent' = [sent EXCEPT ![running] = {}],
           at' = [at EXCEPT ![running] = "body"],
           NEW S \in SUBSET (Val \cap heap), UNCHANGED held \/ TakesIn(S),
           \A u \in Thread : status'[u] \in {status[u], "dead"}
    PROVE  RootsIInv'
<1>1. /\ TypeOK /\ RootsTypeOK /\ running \in Thread /\ status[running] = "running"
      /\ held[running] \subseteq heap /\ held[running] \subseteq Val /\ due = FALSE
  BY RunningHolds DEF RootsTypeOK
<1>2. UNCHANGED <<heap, age, rem, mainMarked, due>>
  BY DEF heapVars
<1>3. \A u \in Thread : at'[u] = IF u = running THEN "body" ELSE at[u]
  BY <1>1 DEF TypeOK
<1>4. /\ held' \in [Thread -> SUBSET Val] /\ held'[running] \subseteq heap
      /\ \A u \in Thread \ {running} : held'[u] = held[u]
  BY <1>1 DEF TakesIn, RootsTypeOK
<1>5. RootsTypeOK'
  BY <1>1, <1>2, <1>4 DEF RootsTypeOK
<1>6. ASSUME NEW u \in Thread \ {running} PROVE Untouched(u)
  BY <1>2, <1>3, <1>4 DEF Untouched
<1>7. Kept
  BY <1>1, <1>2, <1>3, <1>4, <1>6 DEF Kept
<1>8. SentNotFreed'
  BY <1>1, <1>3 DEF SentNotFreed
<1> QED
  BY <1>5, <1>7, <1>8, KeptHolds

(* What the program does is a step of Coroutine. *)
LEMMA ProgramIsStep ==
    ASSUME RootsTypeOK, Program
    PROVE  AnyStep
<1>0. \A S \in SUBSET held[running] : Cardinality(S) \in Nat
  <2>1. running \in Thread /\ held[running] \subseteq Val
    BY DEF RootsTypeOK, TypeOK
  <2> QED
    BY <2>1, SubsetCount
<1>1. CASE \E v0 \in Val : NewValue(v0) \/ Drop(v0)
  BY <1>1 DEF NewValue, Drop, AnyStep
<1>2. ASSUME NEW t \in Thread, CreateThread(t) PROVE AnyStep
  BY <1>2 DEF CreateThread, AnyStep
<1>3. ASSUME NEW t \in Thread, NEW S \in SUBSET held[running], ResumeWith(t, S) PROVE AnyStep
  BY <1>0, <1>3 DEF ResumeWith, AnyStep
<1>4. ASSUME NEW t \in Thread, NEW who \in Closers, CloseThread(t, who) PROVE AnyStep
  BY <1>4 DEF CloseThread, AnyStep
<1>5. ASSUME NEW t \in Thread, CloseUnstarted(t) PROVE AnyStep
  BY <1>5 DEF AnyStep
<1>6. ASSUME NEW S \in SUBSET held[running], YieldWith(S) \/ ReturnWith(S) PROVE AnyStep
  BY <1>0, <1>6 DEF YieldWith, ReturnWith, AnyStep
<1>7. CASE StartBodyWith \/ ResumeReturnsWith
  BY <1>7 DEF StartBodyWith, ResumeReturnsWith, AnyStep
<1> QED
  BY <1>1, <1>2, <1>3, <1>4, <1>5, <1>6, <1>7 DEF Program, AnyStep

LEMMA ProgramKeeps ==
    ASSUME Disciplined, IInv, RootsIInv, TypeOK', Program
    PROVE  RootsIInv'
<1>0. /\ TypeOK /\ RootsTypeOK /\ running \in Thread /\ status[running] = "running"
      /\ held[running] \subseteq heap /\ (due => InBody)
      /\ \A t \in Thread : sent[t] \subseteq Val /\ gave[t] \subseteq Val
  BY RunningHolds DEF RootsTypeOK
<1>1. ASSUME NEW v0 \in Val, NewValue(v0) \/ Drop(v0) PROVE RootsIInv'
  BY <1>1, NewValueStep, DropStep
<1>2. ASSUME NEW t \in Thread, CreateThread(t) PROVE RootsIInv'
  BY <1>2, CreateThreadStep
<1>3. ASSUME NEW t \in Thread, NEW S \in SUBSET held[running], ResumeWith(t, S)
      PROVE  RootsIInv'
  BY <1>3, ResumeWithStep
<1>4. ASSUME NEW t \in Thread, NEW who \in Closers, CloseThread(t, who) PROVE RootsIInv'
  BY <1>4, CloseThreadStep
<1>5. ASSUME NEW t \in Thread, Acts, CloseUnstarted(t), UNCHANGED <<frameVars, heapVars>>
      PROVE  RootsIInv'
  <2>1. ~due /\ UNCHANGED <<running, gave, heapVars, sent, held>>
    BY <1>5 DEF Acts, CloseUnstarted, frameVars
  <2>2. at' = [at EXCEPT ![running] = "body"]
    BY <1>0, <1>5 DEF CloseUnstarted, InBody, TypeOK
  <2>3. \A u \in Thread : status'[u] \in {status[u], "dead"}
    BY <1>0, <1>5 DEF CloseUnstarted, TypeOK
  <2>4. {} \in SUBSET (Val \cap heap)
    OBVIOUS
  <2> QED
    BY <2>1, <2>2, <2>3, <2>4, GoesOnKeeps
<1>6. CASE StartBodyWith
  <2>1. ~due /\ sent[running] \in SUBSET (Val \cap heap)
    BY <1>0, <1>6 DEF StartBodyWith, StartBody, InBody, RootsIInv, SentNotFreed
  <2>2. /\ UNCHANGED <<running, gave, heapVars, status>> /\ TakesIn(sent[running])
        /\ sent' = [sent EXCEPT ![running] = {}] /\ at' = [at EXCEPT ![running] = "body"]
    BY <1>6 DEF StartBodyWith, StartBody, control
  <2> QED
    BY <2>1, <2>2, GoesOnKeeps
<1>7. ASSUME NEW S \in SUBSET held[running], YieldWith(S) PROVE RootsIInv'
  BY <1>7, YieldWithStep
<1>8. ASSUME NEW S \in SUBSET held[running], ReturnWith(S) PROVE RootsIInv'
  <2>1. /\ ~due /\ running # Main /\ Ends(S) /\ status' = Ended(running, status)
        /\ running' = caller[running] /\ at' = [at EXCEPT ![running] = "returned"]
        /\ UNCHANGED target
    BY <1>8 DEF ReturnWith, Acts, Return, Leave
  <2> QED
    BY <2>1, EndKeeps
<1>9. CASE Acts /\ Raise /\ Ends({})
  <2>1. /\ ~due /\ running # Main /\ Ends({}) /\ status' = Ended(running, status)
        /\ running' = caller[running] /\ at' = [at EXCEPT ![running] = "raised"]
        /\ UNCHANGED target
    BY <1>9 DEF Acts, Raise, Leave
  <2>2. {} \in SUBSET held[running]
    OBVIOUS
  <2> QED
    BY <2>1, <2>2, EndKeeps
<1>10. CASE Resumed /\ TakesIn(sent[running]) /\ UNCHANGED <<sent, gave, heapVars>>
  <2>1. ~due /\ sent[running] \in SUBSET (Val \cap heap)
    BY <1>0, <1>10 DEF Resumed, InBody, RootsIInv, SentNotFreed
  <2>2. /\ UNCHANGED <<running, gave, heapVars, status, sent>>
        /\ at' = [at EXCEPT ![running] = "body"]
    BY <1>10 DEF Resumed, control
  <2> QED
    BY <1>10, <2>1, <2>2, GoesOnKeeps
<1>11. CASE ClosingUncaught /\ Ends({})
  <2>1. /\ ~due /\ running # Main /\ Ends({}) /\ status' = Ended(running, status)
        /\ running' = caller[running] /\ at' = [at EXCEPT ![running] = "raised"]
        /\ UNCHANGED target
    BY <1>0, <1>11, RunningMain DEF ClosingUncaught, InBody
  <2>2. {} \in SUBSET held[running]
    OBVIOUS
  <2> QED
    BY <2>1, <2>2, EndKeeps
<1>12. CASE ClosingCaught /\ UNCHANGED <<frameVars, heapVars>>
  <2>1. /\ ~due /\ UNCHANGED <<running, gave, heapVars, sent, held, status>>
        /\ at' = [at EXCEPT ![running] = "body"]
    BY <1>0, <1>12 DEF ClosingCaught, InBody, control, frameVars
  <2>2. {} \in SUBSET (Val \cap heap)
    OBVIOUS
  <2> QED
    BY <2>1, <2>2, GoesOnKeeps
<1>13. CASE ResumeReturnsWith
  <2>1. target[running] \in Thread
    BY <1>13 DEF ResumeReturnsWith, ResumeReturns, IInv, WaitsOver
  <2>2. ~due /\ gave[target[running]] \in SUBSET (Val \cap heap)
    BY <1>0, <1>13, <2>1 DEF ResumeReturnsWith, ResumeReturns, InBody, RootsIInv, SentNotFreed
  <2>3. /\ UNCHANGED <<running, gave, heapVars, status, sent>>
        /\ TakesIn(gave[target[running]]) /\ at' = [at EXCEPT ![running] = "body"]
    BY <1>13 DEF ResumeReturnsWith, ResumeReturns, control
  <2> QED
    BY <2>2, <2>3, GoesOnKeeps
<1>14. CASE CloseReturns /\ UNCHANGED <<frameVars, heapVars>>
  <2>1. /\ ~due /\ UNCHANGED <<running, gave, heapVars, sent, held>>
        /\ at' = [at EXCEPT ![running] = "body"]
    BY <1>0, <1>14 DEF CloseReturns, InBody, frameVars
  <2>2. \A u \in Thread : status'[u] \in {status[u], "dead"}
    BY <1>0, <1>14 DEF CloseReturns, TypeOK
  <2>3. {} \in SUBSET (Val \cap heap)
    OBVIOUS
  <2> QED
    BY <2>1, <2>2, <2>3, GoesOnKeeps
<1> QED
  BY <1>1, <1>2, <1>3, <1>4, <1>5, <1>6, <1>7, <1>8, <1>9, <1>10, <1>11, <1>12, <1>13, <1>14
     DEF Program

-----------------------------------------------------------------------------
(* A collection on the main thread: every other coroutine is suspended or has *)
(* ended, and what the frames of a suspended one hold is found through it.    *)
LEMMA FramesFound ==
    ASSUME CollectsOnMain, IInv, InLine, RootsIInv, InBody, running \in CollectsOn
    PROVE  /\ running = Main /\ FramesOf(loaded) = held[Main]
           /\ \A t \in Thread : status[t] \in {"running", "normal", "suspended"} =>
                  t = Main \/ (t \in Coroutines /\ status[t] = "suspended"
                               /\ held[t] \subseteq Refs(t) /\ held[t] \subseteq heap)
<1>1. running = Main /\ Active = {Main}
  BY MainAlone DEF CollectsOnMain
<1>2. loaded = Main
  BY <1>1 DEF IInv, FramesFollow, Opened, InBody
<1>3. ASSUME NEW t \in Thread, status[t] = "suspended"
      PROVE  t \in Coroutines /\ held[t] \subseteq Refs(t) /\ held[t] \subseteq heap
  <2>1. t \in Coroutines
    BY <1>1, <1>3 DEF Coroutines, Active
  <2>2. held[t] \subseteq heap
    BY <1>3 DEF RootsIInv, HeldNotFreed
  <2>3. CASE at[t] = "entry"
    BY <2>1, <2>2, <2>3 DEF RootsIInv, UnstartedHoldNothing
  <2>4. CASE at[t] # "entry"
    BY <1>3, <2>1, <2>2, <2>4, MainAssumption DEF IInv, FramesFollow, Opened, FramesOf, Refs
  <2> QED
    BY <2>3, <2>4
<1> QED
  BY <1>1, <1>2, <1>3, MainAssumption DEF Active, FramesOf

LEMMA MinorKeeps ==
    ASSUME CollectsOnMain, IInv, InLine, RootsIInv, NEW wantFull \in BOOLEAN, Minor(wantFull)
    PROVE  RootsIInv'
<1> DEFINE marked == heap \cap (FramesOf(loaded) \cup UNION {Refs(t) : t \in MinorTraced})
           aged == NonOld(marked \cup Coroutines)
           promoted == {x \in aged : age[x] = "survivor"}
           newAge == [x \in Thread \cup Val |-> IF x \in aged THEN NextAge(age[x]) ELSE age[x]]
           found(t) == (Refs(t) \cap heap) \cup ({caller[t]} \ {Nil})
           surely == {t \in promoted \cap Thread : \E x \in found(t) : newAge[x] # "old"}
           perhaps == {t \in promoted \cap Thread : (found(t) \ {t}) \cap promoted # {}}
           kept == {t \in rem : age[t] # "old" \/ HasNonOld(t)}
<1>1. InBody /\ running \in CollectsOn
  BY DEF Minor, Acts
<1>2. /\ TypeOK /\ RootsTypeOK /\ running = Main /\ FramesOf(loaded) = held[Main]
      /\ held[Main] \subseteq heap /\ at[Main] = "body"
  BY <1>1, FramesFound, RunningHolds DEF InBody
<1>3. ASSUME NEW t \in Thread, status[t] \in {"running", "normal", "suspended"}, t # Main
      PROVE  /\ t \in Coroutines /\ status[t] = "suspended"
             /\ held[t] \subseteq Refs(t) /\ held[t] \subseteq heap
  BY <1>1, <1>3, FramesFound
<1>4. /\ heap' = heap \ (NonOld(heap) \ marked) /\ age' = newAge
      /\ \E spurious \in SUBSET perhaps : rem' = kept \cup surely \cup spurious
      /\ due' = wantFull
      /\ UNCHANGED <<running, status, at, target, held, sent, gave>>
      /\ mainMarked' = TRUE /\ UNCHANGED vars
  BY DEF Minor, vars, control, frameVars
<1>5. RootsTypeOK'
  <2>1. TypeOK'
    BY <1>2, <1>4 DEF TypeOK, vars, control, roots
  <2>2. newAge \in [Thread \cup Val -> {"young", "survivor", "old"}]
    BY <1>2 DEF RootsTypeOK, NextAge
  <2>3. rem' \subseteq Thread /\ heap' \subseteq Val
    BY <1>2, <1>4 DEF RootsTypeOK
  <2> QED
    BY <1>2, <1>4, <2>1, <2>2, <2>3 DEF RootsTypeOK
<1>6. HeldNotFreed'
  <2>1. SUFFICES ASSUME NEW t \in Thread, status[t] \in {"running", "normal", "suspended"},
                        NEW x \in held[t]
                 PROVE  x \in heap'
    BY <1>4 DEF HeldNotFreed
  <2>2. x \in heap
    BY <1>2, <1>3, <2>1
  <2>3. CASE age[x] = "old"
    BY <1>4, <2>2, <2>3 DEF NonOld
  <2>4. CASE age[x] # "old"
    <3>1. x \in marked
      <4>1. CASE t = Main
        BY <1>2, <2>2, <4>1
      <4>2. CASE t # Main
        <5>1. t \in MinorTraced
          <6>1. CASE age[t] # "old"
            BY <1>3, <2>1, <4>2, <6>1 DEF MinorTraced, NonOld
          <6>2. CASE age[t] = "old"
            BY <1>3, <2>1, <2>4, <4>2, <6>2
               DEF MinorTraced, NonOld, RootsIInv, SuspendedRemembered
          <6> QED
            BY <6>1, <6>2
        <5>2. x \in Refs(t)
          BY <1>3, <2>1, <4>2
        <5> QED
          BY <2>2, <5>1, <5>2
      <4> QED
        BY <4>1, <4>2
    <3> QED
      BY <1>4, <2>2, <3>1
  <2> QED
    BY <2>3, <2>4
<1>7. SuspendedRemembered'
  <2>1. SUFFICES ASSUME NEW t \in Thread, status[t] = "suspended", newAge[t] = "old",
                        NEW x \in held[t], newAge[x] # "old"
                 PROVE  t \in kept \cup surely
    BY <1>4 DEF SuspendedRemembered, NonOld
  <2>2. /\ t # Main /\ t \in Coroutines /\ x \in Refs(t) /\ x \in heap
        /\ t \in Thread \cup Val /\ x \in Thread \cup Val
    BY <1>2, <1>3, <2>1, RunningHolds DEF RootsTypeOK
  <2>3. age[x] # "old"
    BY <2>1, <2>2 DEF NonOld
  <2>4. CASE age[t] = "old"
    <3>1. t \in rem
      BY <2>1, <2>3, <2>4 DEF RootsIInv, SuspendedRemembered, NonOld
    <3>2. HasNonOld(t)
      BY <2>2, <2>3 DEF HasNonOld, NonOld
    <3> QED
      BY <3>1, <3>2
  <2>5. CASE age[t] # "old"
    <3>1. t \in aged /\ NextAge(age[t]) = "old"
      BY <2>1, <2>2, <2>5 DEF NonOld
    <3>2. age[t] = "survivor"
      BY <1>2, <2>5, <3>1 DEF NextAge, RootsTypeOK
    <3>3. t \in promoted \cap Thread
      BY <3>1, <3>2
    <3>4. x \in found(t)
      BY <2>2
    <3> QED
      BY <2>1, <3>3, <3>4
  <2> QED
    BY <2>4, <2>5
<1>8. SentNotFreed'
  BY <1>2, <1>4 DEF SentNotFreed
<1>9. UnstartedHoldNothing' /\ DueWhereCollected'
  BY <1>1, <1>4 DEF RootsIInv, UnstartedHoldNothing, DueWhereCollected, InBody
<1> QED
  BY <1>5, <1>6, <1>7, <1>8, <1>9 DEF RootsIInv

LEMMA FullKeeps ==
    ASSUME CollectsOnMain, IInv, InLine, RootsIInv, Full
    PROVE  RootsIInv'
<1> DEFINE marked == heap \cap (FramesOf(loaded)
                                \cup UNION {Refs(t) : t \in Coroutines \cup MainPushed})
           promoted == marked \cup (Coroutines \ rem)
<1>1. InBody /\ running \in CollectsOn
  BY DEF Full, RootsIInv, DueWhereCollected
<1>2. /\ TypeOK /\ RootsTypeOK /\ running = Main /\ FramesOf(loaded) = held[Main]
      /\ held[Main] \subseteq heap /\ at[Main] = "body" /\ status[Main] = "running"
  BY <1>1, FramesFound, RunningHolds DEF InBody
<1>3. ASSUME NEW t \in Thread, status[t] \in {"running", "normal", "suspended"}
      PROVE  held[t] \subseteq marked
  <2>1. CASE t = Main
    BY <1>2, <2>1
  <2>2. CASE t # Main
    BY <1>1, <1>3, <2>2, FramesFound
  <2> QED
    BY <2>1, <2>2
<1>4. /\ heap' = marked
      /\ age' = [x \in Thread \cup Val |-> IF x \in promoted THEN "old" ELSE age[x]]
      /\ UNCHANGED <<running, status, at, target, held, sent, gave, rem>>
      /\ due' = FALSE /\ mainMarked' = TRUE /\ UNCHANGED vars
  BY DEF Full, vars, control, frameVars
<1>5. RootsTypeOK'
  <2>1. TypeOK'
    BY <1>2, <1>4 DEF TypeOK, vars, control, roots
  <2>2. age' \in [Thread \cup Val -> {"young", "survivor", "old"}] /\ heap' \subseteq Val
    BY <1>2, <1>4 DEF RootsTypeOK
  <2> QED
    BY <1>2, <1>4, <2>1, <2>2 DEF RootsTypeOK
<1>6. HeldNotFreed'
  BY <1>3, <1>4 DEF HeldNotFreed
<1>7. SuspendedRemembered'
  <2>1. SUFFICES ASSUME NEW t \in Thread, status[t] = "suspended", NEW x \in held[t]
                 PROVE  age'[x] = "old"
    BY <1>4 DEF SuspendedRemembered, NonOld
  <2>2. x \in promoted /\ x \in Thread \cup Val
    BY <1>2, <1>3, <2>1 DEF RootsTypeOK
  <2> QED
    BY <1>4, <2>2
<1>8. SentNotFreed'
  BY <1>2, <1>4 DEF SentNotFreed
<1>9. UnstartedHoldNothing' /\ DueWhereCollected'
  BY <1>4 DEF RootsIInv, UnstartedHoldNothing, DueWhereCollected
<1> QED
  BY <1>5, <1>6, <1>7, <1>8, <1>9 DEF RootsIInv

LEMMA InitRoots == RootsInit => RootsInv
<1> SUFFICES ASSUME RootsInit PROVE RootsInv
  OBVIOUS
<1>1. IInv /\ InLine /\ TypeOK
  BY InitIInv, InitInLine DEF RootsInit, IInv
<1>2. RootsTypeOK
  BY <1>1 DEF RootsInit, RootsTypeOK
<1>3. \A t \in Thread : held[t] = {} /\ sent[t] = {} /\ gave[t] = {} /\ age[t] = "young"
  BY DEF RootsInit
<1>4. HeldNotFreed /\ SuspendedRemembered /\ UnstartedHoldNothing
  BY <1>3 DEF HeldNotFreed, SuspendedRemembered, UnstartedHoldNothing
<1>5. SentNotFreed
  <2>1. at[running] = "body"
    BY MainAssumption DEF RootsInit, Init
  <2> QED
    BY <2>1 DEF SentNotFreed
<1>6. DueWhereCollected
  BY DEF RootsInit, DueWhereCollected
<1> QED
  BY <1>1, <1>2, <1>4, <1>5, <1>6 DEF RootsInv, RootsIInv

LEMMA RootsNextInv ==
    ASSUME Disciplined, CollectsOnMain, RootsInv, [RootsNext]_allVars
    PROVE  RootsInv'
<1>1. AnyStep
  <2>1. CASE Program
    BY <2>1, ProgramIsStep DEF RootsInv, RootsIInv
  <2>2. CASE (\E wantFull \in BOOLEAN : Minor(wantFull)) \/ Full \/ UNCHANGED allVars
    BY <2>2 DEF Minor, Full, allVars, AnyStep
  <2> QED
    BY <2>1, <2>2 DEF RootsNext
<1>2. IInv' /\ InLine' /\ TypeOK'
  BY <1>1, NextIInv, NextInLine DEF RootsInv, IInv
<1>3. RootsIInv'
  <2>1. CASE Program
    BY <1>2, <2>1, ProgramKeeps DEF RootsInv
  <2>2. ASSUME NEW wantFull \in BOOLEAN, Minor(wantFull) PROVE RootsIInv'
    BY <2>2, MinorKeeps DEF RootsInv
  <2>3. CASE Full
    BY <2>3, FullKeeps DEF RootsInv
  <2>4. CASE UNCHANGED allVars
    BY <1>2, <2>4 DEF allVars, vars, control, roots, frameVars, heapVars, RootsInv, RootsIInv,
                      RootsTypeOK, HeldNotFreed, SuspendedRemembered, NonOld, SentNotFreed,
                      UnstartedHoldNothing, DueWhereCollected, InBody
  <2> QED
    BY <2>1, <2>2, <2>3, <2>4 DEF RootsNext
<1> QED
  BY <1>2, <1>3 DEF RootsInv

(* Coroutines keep a line of callers, and what they hold, through every      *)
(* minor and full collection that starts on the main thread: the inductive  *)
(* invariant.                                                               *)
THEOREM RootsHold == Disciplined /\ CollectsOnMain /\ RootsSpec => []RootsIInv
<1>1. Disciplined /\ CollectsOnMain /\ RootsInv /\ [RootsNext]_allVars => RootsInv'
  BY RootsNextInv
<1>2. Disciplined /\ CollectsOnMain => (Disciplined /\ CollectsOnMain)'
  BY DEF Disciplined, CollectsOnMain
<1>3. RootsInv => RootsIInv
  BY DEF RootsInv
<1> QED
  BY InitRoots, <1>1, <1>2, <1>3, PTL DEF RootsSpec

(* No value is freed that the frames of a live coroutine hold. *)
THEOREM CoroutinesKeepValues == Disciplined /\ CollectsOnMain /\ RootsSpec => []HeldNotFreed
<1>1. RootsIInv => HeldNotFreed
  BY DEF RootsIInv
<1> QED
  BY <1>1, RootsHold, PTL

(* With the collector at work resume still tells errors from results. *)
THEOREM RootsResumeReportsErrors ==
    Disciplined /\ CollectsOnMain /\ ByCApi /\ RootsSpec => []ResumeTruth
<1>1. RootsInit => RootsInv /\ TruthInv
  BY InitRoots, InitTruth DEF RootsInit
<1>2. ASSUME Disciplined, CollectsOnMain, ByCApi, RootsInv, TruthInv, [RootsNext]_allVars
      PROVE  (RootsInv /\ TruthInv)'
  <2>1. AnyStep
    <3>1. CASE Program
      BY <1>2, <3>1, ProgramIsStep DEF RootsInv, RootsIInv
    <3>2. CASE (\E wantFull \in BOOLEAN : Minor(wantFull)) \/ Full \/ UNCHANGED allVars
      BY <3>2 DEF Minor, Full, allVars, AnyStep
    <3> QED
      BY <1>2, <3>1, <3>2 DEF RootsNext
  <2> QED
    BY <1>2, <2>1, RootsNextInv, NextTruth DEF RootsInv
<1>3. /\ Disciplined /\ CollectsOnMain /\ ByCApi =>
           (Disciplined /\ CollectsOnMain /\ ByCApi)'
      /\ TruthInv => ResumeTruth
  BY DEF Disciplined, CollectsOnMain, ByCApi, TruthInv
<1> QED
  BY <1>1, <1>2, <1>3, PTL DEF RootsSpec
=============================================================================

-------------------------------- MODULE Loops --------------------------------
(***************************************************************************)
(* The numeric 'for' (src/codegen/loops.cpp).  What the compiler knows of     *)
(* the three expressions decides what the loop becomes:                      *)
(*   "counter" an int64_t counter, the step being an integer literal, and the *)
(*             start one too, or the sum or difference of one and a number;   *)
(*             a limit that is no literal, and that number, are cast to       *)
(*             integers, as doubles if they are kept as doubles,             *)
(*   "native"  a double counter, the expressions being numbers,              *)
(*   "boxed"   anything else: the types decide at run time, as in Lua.        *)
(* Numbers are those of Numbers: few bits, so that all boundaries are near.  *)
(***************************************************************************)
EXTENDS Numbers

CONSTANTS
    Starts, Limits, Steps,  \* the numbers in the loops of a program
    Addends,                \* those a literal is added to or subtracted from
    MaxVisits               \* bound: visits counted

VARIABLE loop   \* kind, start, lim, step: as written; i, to, by: the C++ variables
                \* i_val, l_ and st_; ints: the counter is an int64_t, cast: the
                \* numbers it depends on that were cast, visits: bodies run so
                \* far, at: the program counter

ASSUME LoopsAssumption ==
    /\ Starts \cup Limits \cup Steps \cup Addends \subseteq Number
    /\ MaxVisits \in Nat

NoLoop == [at |-> "outside"]

Zero(x) == x.v = 0

(* static_cast<int64_t>: beyond the integers, and of a NaN, C++ leaves it     *)
(* undefined; x86 gives the least integer, ARM the nearest, and 0 for NaN.    *)
CastToInt(h) ==
    IF h = NaN THEN {MinInt, 0}
    ELSE IF InIntRange(h) THEN {h \div 2}
    ELSE {MinInt, IF h > 0 THEN MaxInt ELSE MinInt}

(* Floats at or beyond the greatest one are infinities. *)
Added(x, y) ==
    LET sum == RoundToFloat(x + y)
    IN  IF NaN \in {x, y} \/ {x, y} = {PInf, NInf} THEN NaN
        ELSE IF PInf \in {x, y} \/ sum > MaxFloat THEN PInf
        ELSE IF NInf \in {x, y} \/ sum < -MaxFloat THEN NInf
        ELSE sum

(* Mutant: the limit is always rounded down. *)
CounterLimitsDown(lim, step, literal) ==
    IF literal THEN {lim.v}
    ELSE IF IsNaN(lim) THEN CastToInt(NaN)
    ELSE CastToInt(FloorOf(AsDouble(lim)))

(* A literal is the limit; of anything else std::ceil or std::floor make a    *)
(* double, of an integer too, that is cast back.                             *)
CounterLimits(lim, step, literal) ==
    IF literal THEN {lim.v}
    ELSE IF IsNaN(lim) THEN CastToInt(NaN)
    ELSE CastToInt(IF step < 0 THEN CeilOf(AsDouble(lim)) ELSE FloorOf(AsDouble(lim)))

Ready(kind, start, lim, step, cast, ints, i, to, by) ==
    [at |-> "test", kind |-> kind, start |-> start, lim |-> lim, step |-> step,
     cast |-> cast, ints |-> ints, i |-> i, to |-> to, by |-> by, visits |-> 0]

StartCounter(start, lim, literal, step) ==
    /\ loop = NoLoop /\ IsInt(start) /\ IsInt(step) /\ ~Zero(step)
    /\ literal => IsInt(lim)
    /\ \E to \in CounterLimits(lim, step.v, literal) :
           loop' = Ready("counter", start, lim, step, IF literal THEN {} ELSE {lim},
                         TRUE, start.v, to, step.v)

(* What the cast makes of the number in the sum; an integer may be kept as an *)
(* int64_t or as a double.                                                   *)
Cuts(x) ==
    IF IsInt(x) THEN {x.v} \cup CastToInt(AsDouble(x))
    ELSE IF IsNaN(x) THEN CastToInt(NaN)
    ELSE CastToInt(IF x.v < 0 THEN CeilOf(x.v) ELSE FloorOf(x.v))

Signs == {<<1, 1>>, <<1, -1>>, <<-1, 1>>}   \* n + x, n - x, x - n

(* The sum as it is written. *)
SumOf(n, x, s) ==
    IF IsInt(x) THEN [type |-> "Int64", v |-> Wrap(s[1] * n.v + s[2] * x.v)]
    ELSE IF IsNaN(x) THEN x
    ELSE [type |-> "Double", v |-> Added(s[1] * AsDouble(n), s[2] * x.v)]

(* The start is a literal n and a number x, added or subtracted: each is cast *)
(* to an integer before.                                                     *)
StartCounterSum(n, x, s, lim, literal, step) ==
    /\ loop = NoLoop /\ IsInt(n) /\ IsInt(step) /\ ~Zero(step)
    /\ literal => IsInt(lim)
    /\ \E c \in Cuts(x), to \in CounterLimits(lim, step.v, literal) :
           loop' = Ready("counter", SumOf(n, x, s), lim, step, {x} \cup IF literal THEN {} ELSE {lim},
                         TRUE, Wrap(s[1] * n.v + s[2] * c), to, step.v)

StartNative(start, lim, step) ==
    /\ loop = NoLoop /\ ~Zero(step)
    /\ loop' = Ready("native", start, lim, step, {}, FALSE,
                     AsDouble(start), AsDouble(lim), AsDouble(step))

StartBoxed(start, lim, step) ==
    /\ loop = NoLoop /\ ~Zero(step)
    /\ loop' = IF IsInt(start) /\ IsInt(step)
               THEN LET f == ForLimit(start.v, lim, step.v)
                        ready == Ready("boxed", start, lim, step, {}, TRUE, start.v, f.p, step.v)
                    IN  IF f.skip THEN [ready EXCEPT !.at = "over"] ELSE ready
               ELSE Ready("boxed", start, lim, step, {}, FALSE,
                          AsDouble(start), AsDouble(lim), AsDouble(step))

(* Mutant: the loop runs until the counter hits the limit. *)
GoesOnUntilEqual(l) ==
    ~(NaN \in {l.i, l.to, l.by}) /\ l.i # l.to

(* i_val <= l_, or i_val >= l_ for a step that is not positive. *)
GoesOn(l) ==
    /\ NaN \notin {l.i, l.to}
    /\ IF l.by # NaN /\ l.by > 0 THEN l.i <= l.to ELSE l.i >= l.to

Test ==
    /\ loop.at = "test"
    /\ loop' = [loop EXCEPT !.at = IF GoesOn(loop) THEN "body" ELSE "over"]

(* The body ends and the counter advances, on integers with the overflow that *)
(* C++ leaves undefined and the hardware wraps.                              *)
Advance ==
    /\ loop.at = "body"
    /\ loop' = [loop EXCEPT !.at = "test",
                            !.i = IF loop.ints THEN Wrap(@ + loop.by) ELSE Added(@, loop.by),
                            !.visits = IF @ < MaxVisits THEN @ + 1 ELSE @]

(* break, goto or return. *)
Break == loop.at = "body" /\ loop' = [loop EXCEPT !.at = "over"]

LeaveLoop == loop.at = "over" /\ loop' = NoLoop

LoopInit == loop = NoLoop

LoopNext ==
    \/ \E start \in Starts, lim \in Limits, step \in Steps :
        \/ StartNative(start, lim, step)
        \/ StartBoxed(start, lim, step)
        \/ \E literal \in BOOLEAN :
            \/ StartCounter(start, lim, literal, step)
            \/ \E x \in Addends, s \in Signs :
                  StartCounterSum(start, x, s, lim, literal, step)
    \/ Test \/ Advance \/ Break \/ LeaveLoop

-----------------------------------------------------------------------------
Halves(x) == IF IsInt(x) THEN 2 * x.v ELSE x.v

(* A double holds the number, and it is within the integers. *)
Held(x) == AsDouble(x) = Halves(x) /\ InIntRange(Halves(x))

(* A loop whose counter stays where its type is exact: an integer that does   *)
(* not overflow one step behind the limit, starts from no fraction and        *)
(* depends on no cast that changes a number; a float that is not rounded.     *)
(* The README describes the others.                                         *)
Exact ==
    LET small == -(2^Mant) .. 2^Mant
        behind == loop.to + loop.by
    IN  /\ NaN \notin {Halves(loop.start), Halves(loop.lim), Halves(loop.step)}
        /\ IF loop.ints
           THEN /\ behind \in Ints
                /\ IsInt(loop.start) /\ \A x \in loop.cast : Held(x)
           ELSE {Halves(loop.start), loop.i, loop.to, loop.by, behind} \subseteq small

Nth(n) == Halves(loop.start) + n * Halves(loop.step)

Respects(h) ==
    IF Halves(loop.step) > 0 THEN h <= Halves(loop.lim) ELSE h >= Halves(loop.lim)

(* "Numeric for" (doc/compatibility.md): whatever the compiler makes of a     *)
(* loop that is exact, its body runs for start, start + step, ... up to the   *)
(* limit as it is written, an integer, a fraction or a float, and for nothing *)
(* else.                                                                    *)
VisitsProgression ==
    loop # NoLoop /\ loop.visits < MaxVisits /\ Exact =>
        LET value == IF loop.ints THEN 2 * loop.i ELSE loop.i
        IN  /\ loop.at \in {"test", "body"} => value = Nth(loop.visits)
            /\ loop.at = "body" => Respects(value)
            /\ loop.at = "test" /\ ~GoesOn(loop) => ~Respects(Nth(loop.visits))

(* Such a loop ends, if its body does.                                       *)
LoopEnds == (loop # NoLoop /\ Exact) ~> loop.at \in {"over", "outside"}

LoopFairness == WF_loop(Test) /\ WF_loop(Advance)

LoopSpec == LoopInit /\ [][LoopNext]_loop /\ LoopFairness
=============================================================================

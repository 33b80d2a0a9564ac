---------------------------- MODULE NumbersProps ----------------------------
(***************************************************************************)
(* What the arithmetic of Numbers must guarantee, for each question asked:   *)
(* integers a and b, two numbers x and y, a loop (init, lim, step), or a     *)
(* string of digits.                                                         *)
(***************************************************************************)
EXTENDS Numbers, Question, FiniteSets

CONSTANT MaxDigits   \* bound: digits of a string

ASSUME DigitsAssumption == MaxDigits \in Nat

IntQuestions == [kind : {"ints"}, a : Ints, b : Ints]
NumberQuestions == [kind : {"numbers"}, x : Number, y : Number]
LoopQuestions == [kind : {"loop"}, init : Ints, lim : Number, step : Ints \ {0}]
DigitQuestions ==
    [kind : {"digits"}, neg : BOOLEAN,
     digits : UNION {[1 .. n -> 0 .. 9] : n \in 0 .. MaxDigits}]

NumbersNext ==
    \/ Ask(IntQuestions)
    \/ Ask(NumberQuestions)
    \/ Ask(LoopQuestions)
    \/ Ask(DigitQuestions)

NumbersSpec == Quiet /\ [][NumbersNext]_asked

(* int_floor_div and int_floor_mod: a = q * b + r as integers are, with r on  *)
(* the divisor's side of 0 and smaller than it, at the ends of the range too: *)
(* no step on the way overflows.  Only the least integer divided by -1 has no *)
(* such quotient, and wraps to itself; math.fmod keeps the dividend's sign.   *)
DivisionExact ==
    Of("ints") /\ asked.b # 0 =>
        LET a == asked.a
            b == asked.b
            q == FloorDiv(a, b)
            r == FloorMod(a, b)
            t == Fmod(a, b)
        IN  /\ {q, r, t} \subseteq Ints
            /\ IF a = MinInt /\ b = -1 THEN q = MinInt /\ r = 0 ELSE q * b + r = a
            /\ IF b > 0 THEN 0 <= r /\ r < b ELSE b < r /\ r <= 0
            /\ Abs(t) < Abs(b) /\ (t # 0 => (t < 0) = (a < 0)) /\ (a - t) % Abs(b) = 0

(* shiftl_int and shr_int are multiplication and division of the unsigned    *)
(* value by a power of two for every count, those beyond the width and the   *)
(* least integer, which has no negation, included.                           *)
ShiftsExact ==
    Of("ints") =>
        LET Shifted(x, n) == IF n >= 0 THEN (Unsigned(x) * 2^n) % 2^Bits
                             ELSE Unsigned(x) \div 2^(-n)
        IN  /\ Unsigned(ShiftLeft(asked.a, asked.b)) = Shifted(asked.a, asked.b)
            /\ Unsigned(ShiftRight(asked.a, asked.b)) = Shifted(asked.a, -asked.b)

(* lt, le and eq decide between any two numbers but NaN, whatever is rounded *)
(* when an integer meets a float, and lt is transitive through the third;    *)
(* eq is not (README, section 5).                                           *)
OrderTotal ==
    Of("numbers") =>
        LET x == asked.x
            y == asked.y
        IN  IF IsNaN(x) \/ IsNaN(y)
            THEN ~Lt(x, y) /\ ~Le(x, y) /\ ~Eq(x, y)
            ELSE /\ Cardinality({c \in {1, 2, 3} :
                        \/ c = 1 /\ Lt(x, y)
                        \/ c = 2 /\ Eq(x, y)
                        \/ c = 3 /\ Lt(y, x)}) = 1
                 /\ Le(x, y) = (Lt(x, y) \/ Eq(x, y))
                 /\ \A z \in Number : Lt(x, y) /\ Lt(y, z) => Lt(x, z)

(* math.floor and math.ceil: the result is the neighbour of x it claims to   *)
(* be, and an integer exactly when that one fits in an integer.              *)
RoundingExact ==
    Of("numbers") /\ ~IsInt(asked.x) /\ asked.x.v \in Finite =>
        LET h == asked.x.v
            Right(r, lo, hi) ==
                LET w == IF IsInt(r) THEN 2 * r.v ELSE r.v
                IN  /\ lo <= w /\ w <= hi /\ w % 2 = 0
                    /\ IsInt(r) <=> \E i \in Ints : 2 * i = w
        IN  /\ Right(MathFloor(asked.x), h - 1, h)
            /\ Right(MathCeil(asked.x), h, h + 1)

(* forlimit: the integers the loop visits up to the clipped limit are those  *)
(* of the progression that respect the limit as written, a fraction, a float *)
(* beyond the integers or an infinity. NaN counts as the negative infinity,   *)
(* as in the interpreter: such a loop counts down to the least integer.      *)
ForLimitExact ==
    Of("loop") =>
        LET s == asked.step
            r == ForLimit(asked.init, asked.lim, s)
            Visited(Respects(_)) ==
                {n \in Ints : (n - asked.init) % Abs(s) = 0 /\ Respects(n)
                              /\ (IF s > 0 THEN n >= asked.init ELSE n <= asked.init)}
            Clipped(n) == ~r.skip /\ IF s > 0 THEN n <= r.p ELSE n >= r.p
            Written(n) ==
                LET w == IF IsInt(asked.lim) THEN 2 * asked.lim.v
                         ELSE IF IsNaN(asked.lim) THEN NInf ELSE asked.lim.v
                IN  IF s > 0 THEN 2 * n <= w ELSE 2 * n >= w
        IN  Visited(Clipped) = Visited(Written)

(* to_integer_coerced accepts a string of digits exactly when the integer it *)
(* denotes fits, the least integer included, and returns that integer.       *)
DecimalsExact ==
    Of("digits") =>
        LET value[n \in 0 .. Len(asked.digits)] ==
                IF n = 0 THEN 0 ELSE 10 * value[n - 1] + asked.digits[n]
            denoted == IF asked.neg THEN -value[Len(asked.digits)]
                       ELSE value[Len(asked.digits)]
            r == ReadDecimal(asked.digits, asked.neg)
        IN  /\ r.ok <=> asked.digits # <<>> /\ denoted \in Ints
            /\ r.ok => r.v = denoted
=============================================================================

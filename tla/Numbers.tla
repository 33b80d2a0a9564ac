------------------------------ MODULE Numbers ------------------------------
(***************************************************************************)
(* The arithmetic of compiled code: integers of Bits bits that wrap, and     *)
(* floats with a mantissa of Mant bits, so that large integers are rounded   *)
(* when they are turned into floats, as 64-bit integers are by a double.     *)
(* A float is the number of halves in it; two huge ones are the infinities.  *)
(***************************************************************************)
EXTENDS Integers, Sequences

CONSTANTS Bits, Mant,   \* 64 and 53 in the code
          NaN

ASSUME NumbersAssumption ==
    Bits \in Nat /\ Mant \in Nat /\ 2 <= Mant /\ Mant < Bits /\ NaN \notin Int

MaxInt == 2^(Bits - 1) - 1
MinInt == -(2^(Bits - 1))
Ints == MinInt .. MaxInt

\* int_add, int_sub, int_mul, int_neg: unsigned arithmetic cast back.
Wrap(n) == ((n - MinInt) % 2^Bits) + MinInt
Unsigned(n) == n % 2^Bits

PInf == 2^(Bits + 4)
NInf == -PInf
MaxFloat == 2^(Bits + 2)

Abs(n) == IF n < 0 THEN -n ELSE n

\* The distance between floats around n halves; rounding goes to the even one.
Quantum(n) ==
    2^(CHOOSE e \in 0 .. Bits + 4 :
           /\ Abs(n) < 2^(Mant + e)
           /\ \A d \in 0 .. e - 1 : Abs(n) >= 2^(Mant + d))

RoundToFloat(n) ==
    LET q == Quantum(n)
        below == n \div q
        rest == n - below * q
    IN  IF 2 * rest < q \/ (2 * rest = q /\ below % 2 = 0)
        THEN below * q
        ELSE (below + 1) * q

Finite == {n \in -MaxFloat .. MaxFloat : RoundToFloat(n) = n}
Floats == Finite \cup {PInf, NInf, NaN}

\* A Lua number, as the LValue that holds it.
Number == [type : {"Int64"}, v : Ints] \cup [type : {"Double"}, v : Floats]
IsInt(x) == x.type = "Int64"
IsNaN(x) == ~IsInt(x) /\ x.v = NaN

\* static_cast<double>(payload.i64), payload.f64
AsDouble(x) == IF IsInt(x) THEN RoundToFloat(2 * x.v) ELSE x.v

----------------------------------------------------------------------------
(* Integer division: C truncates, Lua rounds down.                           *)

CDiv(a, b) ==
    LET q == Abs(a) \div Abs(b) IN IF (a < 0) = (b < 0) THEN q ELSE -q
CMod(a, b) == a - CDiv(a, b) * b

FloorDiv(a, b) ==
    IF b = -1 THEN IF a = MinInt THEN MinInt ELSE -a
    ELSE LET q == CDiv(a, b)
         IN  IF CMod(a, b) # 0 /\ (a < 0) # (b < 0) THEN q - 1 ELSE q

\* Mutant: the remainder is corrected by the sign of the dividend.
FloorModOfDividend(a, b) ==
    IF b = -1 THEN 0
    ELSE LET r == CMod(a, b)
         IN  IF r # 0 /\ a < 0 THEN r + b ELSE r

FloorMod(a, b) ==
    IF b = -1 THEN 0
    ELSE LET r == CMod(a, b)
         IN  IF r # 0 /\ (r < 0) # (b < 0) THEN r + b ELSE r

Fmod(a, b) == IF b = -1 THEN 0 ELSE CMod(a, b)

----------------------------------------------------------------------------
(* Shifts: a negative count shifts the other way, a large one leaves 0.      *)

\* Mutant: the sign bit is shifted in.
ShiftLeftSigned(x, y) ==
    IF y < 0 THEN IF y <= -Bits THEN 0 ELSE Wrap(x \div 2^(-y))
    ELSE IF y >= Bits THEN 0 ELSE Wrap(Unsigned(x) * 2^y)

ShiftLeft(x, y) ==
    IF y < 0 THEN IF y <= -Bits THEN 0 ELSE Wrap(Unsigned(x) \div 2^(-y))
    ELSE IF y >= Bits THEN 0 ELSE Wrap(Unsigned(x) * 2^y)

\* The count is negated with wrapping: that of the least integer is itself.
ShiftRight(x, y) == ShiftLeft(x, Wrap(-y))

----------------------------------------------------------------------------
(* Comparison: integers with each other exactly, all else as floats.         *)

Eq(a, b) ==
    IF IsInt(a) /\ IsInt(b) THEN a.v = b.v
    ELSE ~IsNaN(a) /\ ~IsNaN(b) /\ AsDouble(a) = AsDouble(b)

\* Mutant: integers are compared exactly with floats cut to integers.
LtCut(a, b) ==
    IF IsInt(a) THEN ~IsNaN(b) /\ 2 * a.v < AsDouble(b)
    ELSE ~IsNaN(a) /\ ~IsNaN(b) /\ AsDouble(a) < AsDouble(b)

Lt(a, b) ==
    IF IsInt(a) /\ IsInt(b) THEN a.v < b.v
    ELSE ~IsNaN(a) /\ ~IsNaN(b) /\ AsDouble(a) < AsDouble(b)

Le(a, b) ==
    IF IsInt(a) /\ IsInt(b) THEN a.v <= b.v
    ELSE ~IsNaN(a) /\ ~IsNaN(b) /\ AsDouble(a) <= AsDouble(b)

----------------------------------------------------------------------------
(* From floats to integers, and the limit of a 'for' loop.                   *)

InIntRange(h) == h >= 2 * MinInt /\ h < -2 * MinInt

FloorOf(h) == IF h \in {PInf, NInf} THEN h ELSE (h \div 2) * 2

\* Mutant: the next integer, of an integer too.
CeilAbove(h) == IF h \in {PInf, NInf} THEN h ELSE FloorOf(h) + 2

CeilOf(h) == -FloorOf(-h)

\* Whether flt_to_integer succeeds; its result is then h \div 2.
FitsInteger(h) == h # NaN /\ FloorOf(h) = h /\ InIntRange(h)

MathRound(h, r) == IF FitsInteger(r) THEN [type |-> "Int64", v |-> r \div 2]
                   ELSE [type |-> "Double", v |-> h]
MathFloor(x) ==
    IF IsInt(x) THEN x
    ELSE IF IsNaN(x) THEN x ELSE MathRound(FloorOf(x.v), FloorOf(x.v))
MathCeil(x) ==
    IF IsInt(x) THEN x
    ELSE IF IsNaN(x) THEN x ELSE MathRound(CeilOf(x.v), CeilOf(x.v))

\* Mutant: the limit is rounded down whatever the sign of the step.
LimitToIntegerDown(lim, step) ==
    IF IsInt(lim) THEN [ok |-> TRUE, v |-> lim.v]
    ELSE IF IsNaN(lim) THEN [ok |-> FALSE, v |-> 0]
    ELSE LET f == FloorOf(lim.v) IN [ok |-> InIntRange(f), v |-> f \div 2]

\* forlimit_tointeger: the limit rounded towards the start, or no integer.
LimitToInteger(lim, step) ==
    IF IsInt(lim) THEN [ok |-> TRUE, v |-> lim.v]
    ELSE IF IsNaN(lim) THEN [ok |-> FALSE, v |-> 0]
    ELSE LET f == IF step < 0 THEN CeilOf(lim.v) ELSE FloorOf(lim.v)
         IN  [ok |-> InIntRange(f), v |-> f \div 2]

\* forlimit: whether the loop is skipped, and the integer it runs to.
ForLimit(init, lim, step) ==
    LET i == LimitToInteger(lim, step)
        Skips(p) == IF step > 0 THEN init > p ELSE init < p
        positive == ~IsNaN(lim) /\ lim.v > 0
        Clip(p) == [skip |-> Skips(p), p |-> p]
    IN  IF i.ok THEN Clip(i.v)
        ELSE IF positive
             THEN IF step < 0 THEN [skip |-> TRUE, p |-> 0] ELSE Clip(MaxInt)
             ELSE IF step > 0 THEN [skip |-> TRUE, p |-> 0] ELSE Clip(MinInt)

----------------------------------------------------------------------------
(* to_integer_coerced on a string of decimal digits after an optional sign:  *)
(* the state of the loop is the number so far, and whether it gave up.       *)

MaxBy10 == MaxInt \div 10
MaxLastDigit == MaxInt % 10

\* Mutant: the last digit is compared with that of the greatest integer only.
ReadDigitPositive(s, d, neg) ==
    IF ~s.ok \/ (s.a >= MaxBy10 /\ (s.a > MaxBy10 \/ d > MaxLastDigit))
    THEN [ok |-> FALSE, a |-> s.a]
    ELSE [ok |-> TRUE, a |-> Unsigned(s.a * 10 + d)]

ReadDigit(s, d, neg) ==
    IF ~s.ok \/ (s.a >= MaxBy10
                 /\ (s.a > MaxBy10 \/ d > MaxLastDigit + (IF neg THEN 1 ELSE 0)))
    THEN [ok |-> FALSE, a |-> s.a]
    ELSE [ok |-> TRUE, a |-> Unsigned(s.a * 10 + d)]

ReadDecimal(digits, neg) ==
    LET read[n \in 0 .. Len(digits)] ==
            IF n = 0 THEN [ok |-> TRUE, a |-> 0]
            ELSE ReadDigit(read[n - 1], digits[n], neg)
        end == read[Len(digits)]
    IN  [ok |-> end.ok /\ digits # <<>>, v |-> Wrap(IF neg THEN -end.a ELSE end.a)]
=============================================================================

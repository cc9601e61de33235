------------------------------- MODULE Numbers --------------------------------
(***************************************************************************)
(* int64 and float64 as internal/engine/value.go uses them, scaled down:    *)
(* integers have Bits bits and wrap around, reals have Mantissa bits of     *)
(* precision, round half to even and have infinities, so that the limits at *)
(* which the two part are met by small numbers.  A real is counted in the    *)
(* smallest of them, One of which make 1: with two, 3 is 1.5.               *)
(***************************************************************************)
EXTENDS Integers

CONSTANTS
  Bits,      \* width of an integer
  Mantissa,  \* precision of a real
  MaxExp,    \* largest exponent of a real
  One        \* the smallest reals in 1

ASSUME WidthAssumption == Bits > 1 /\ Mantissa > 1 /\ {Bits, Mantissa, MaxExp} \subseteq Nat
                          /\ One \in {2^k : k \in 0..MaxExp}

\* int64 and float64.
MaxInt == 2^(Bits - 1) - 1
MinInt == -(2^(Bits - 1))
Int64 == MinInt..MaxInt
Infinity == 2^(Mantissa + MaxExp)
Float64 == {-Infinity, Infinity} \union
             {s * m * 2^e : s \in {-1, 1}, m \in 0..(2^Mantissa - 1), e \in 0..MaxExp}

Abs(x) == IF x < 0 THEN -x ELSE x
Sign(x) == IF x < 0 THEN -1 ELSE IF x > 0 THEN 1 ELSE 0

\* Integer division truncates toward zero, and results wrap around.
Quotient(a, b) == Sign(a) * Sign(b) * (Abs(a) \div Abs(b))
Remainder(a, b) == a - b * Quotient(a, b)
Wrap(x) == ((x - MinInt) % 2^Bits) + MinInt

\* The exponent of the last place of a / y, and a in units of it, half of one
\* going to the even neighbour.
LastPlace(a, y) == CHOOSE e \in 0..MaxExp : /\ e = MaxExp \/ a < y * 2^(Mantissa + e)
                                            /\ e = 0 \/ a >= y * 2^(Mantissa + e - 1)
RoundsUp(q, twice, unit) == twice > unit \/ (twice = unit /\ q % 2 = 1)
InUnits(a, unit) ==
  (a \div unit) + (IF RoundsUp(a \div unit, 2 * (a % unit), unit) THEN 1 ELSE 0)

\* The real nearest to x / y.
Magnitude(a, y, e) == IF a >= y * Infinity THEN Infinity ELSE 2^e * InUnits(a, y * 2^e)
Nearest(x, y) == Sign(x) * Magnitude(Abs(x), y, LastPlace(Abs(x), y))
ToFloat == [i \in Int64 |-> Nearest(One * i, 1)]

NaN == 2 * Infinity  \* no real: stands for the result of an undefined operation
Infinite(r) == Abs(r) = Infinity
RealSum(x, y) == IF NaN \in {x, y} \/ (Infinite(x) /\ y = -x) THEN NaN
                 ELSE IF Infinite(x) THEN x
                 ELSE IF Infinite(y) THEN y ELSE Nearest(x + y, 1)
RealProduct(x, y) == IF Infinite(x) \/ Infinite(y)
                       THEN IF x * y = 0 THEN NaN ELSE Sign(x) * Sign(y) * Infinity
                       ELSE Nearest(x * y, One)
RealQuotient(x, y) == IF x = NaN THEN NaN
                      ELSE IF Infinite(y) THEN IF Infinite(x) THEN NaN ELSE 0
                      ELSE IF Infinite(x) THEN Sign(x) * Sign(y) * Infinity
                      ELSE Nearest(One * x * Sign(y), Abs(y))

(* Go's int64(f): out of range it is what the processor gives, the smallest *)
(* integer or the nearest one.                                              *)
Converted(r) == IF Quotient(r, One) \in Int64 THEN {Quotient(r, One)}
                ELSE {MinInt, IF r < 0 THEN MinInt ELSE MaxInt}
=============================================================================

----------------------------- MODULE QueryProofs -----------------------------
(***************************************************************************)
(* Proofs about module Query, for every width, precision and range of the   *)
(* numbers and for every set of values that is inserted.  DISTINCT, SUM,     *)
(* ORDER BY, MIN and MAX are folds over columns of any length, of which it   *)
(* is first shown what they do value by value.                              *)
(***************************************************************************)
EXTENDS Query, NumbersProofs

-----------------------------------------------------------------------------
\* Reals are integers in the model, up to an infinity, and none of them is NaN.
LEMMA RealFacts ==
  /\ Float64 \subseteq Int
  /\ \A r \in Float64 : /\ -Infinity <= r /\ r <= Infinity /\ -r \in Float64
                        /\ FloatV(r) = [kind |-> "Float", n |-> r]
  /\ {0, One, Infinity} \subseteq Float64
  /\ Infinity \in Nat /\ 0 < One /\ One < Infinity
<1>1. Infinity \in Nat \ {0} /\ \A a \in Size : a \in Nat /\ a < Infinity
  BY InfinityFacts
<1>2. One \in Size /\ One \in Nat \ {0}
  <2>1. PICK k \in 0..MaxExp : One = 2^k
    BY OneFacts
  <2>2. 2^Mantissa >= 2
    <3>1. Mantissa \in Nat /\ 1 <= Mantissa /\ 2^1 = 2 * 2^0 /\ 2^0 \in Nat \ {0}
      BY WidthAssumption, PowerStep, PowerPositive
    <3>2. 2^1 <= 2^Mantissa /\ 2^1 \in Nat /\ 2^Mantissa \in Nat
      BY <3>1, PowerGrows, PowerPositive
    <3>3. QED
      BY <3>1, <3>2
  <2>3. 2^k \in Nat \ {0} /\ 2^Mantissa \in Nat
    BY <2>1, WidthAssumption, PowerPositive
  <2>4. 1 \in 0..(2^Mantissa - 1) /\ One = 1 * 2^k
    BY <2>1, <2>2, <2>3
  <2>5. QED
    BY <2>1, <2>3, <2>4 DEF Size
<1>3. 0 \in Size
  <2>1. 0 \in 0..MaxExp /\ MaxExp \in Nat /\ 2^0 \in Nat \ {0}
    BY WidthAssumption, PowerPositive
  <2>2. 2^Mantissa \in Nat \ {0}
    BY WidthAssumption, PowerPositive
  <2>3. 0 \in 0..(2^Mantissa - 1) /\ 0 = 0 * 2^0
    BY <2>1, <2>2
  <2>4. QED
    BY <2>1, <2>3 DEF Size
<1>4. {0, One, Infinity} \subseteq Float64
  BY <1>1, <1>2, <1>3, Reals DEF Abs
<1>5. ASSUME NEW r \in Float64
      PROVE  /\ r \in Int /\ -Infinity <= r /\ r <= Infinity /\ -r \in Float64
             /\ FloatV(r) = [kind |-> "Float", n |-> r]
  <2>1. r \in Int /\ Abs(r) \in Size \union {Infinity}
    BY Reals
  <2>2. -Infinity <= r /\ r <= Infinity /\ Abs(-r) = Abs(r) /\ -r \in Int
    BY <1>1, <2>1 DEF Abs
  <2>3. r # NaN
    BY <1>1, <2>1, <2>2 DEF NaN
  <2>4. -r \in Float64
    BY <2>1, <2>2, Reals
  <2>5. QED
    BY <2>1, <2>2, <2>3, <2>4 DEF FloatV
<1>6. QED
  BY <1>1, <1>2, <1>4, <1>5

\* What an integer becomes as a real: the same sign, and exact if there is such a real.
LEMMA ToFloatFacts ==
  ASSUME NEW i \in Int64
  PROVE  /\ i \in Int /\ One * i \in Int /\ ToFloat[i] \in Float64 /\ ToFloat[i] \in Int
         /\ i > 0 <=> ToFloat[i] > 0
         /\ i < 0 <=> ToFloat[i] < 0
         /\ One * i \in Float64 => ToFloat[i] = One * i
<1>1. i \in Int /\ One \in Nat \ {0}
  BY Limits, OneFacts DEF Int64
<1>2. /\ One * i \in Int
      /\ i > 0 => One * i >= 1
      /\ i < 0 => One * i <= -1
      /\ i = 0 => One * i = 0
  BY <1>1
<1>3. ToFloat[i] = Nearest(One * i, 1)
  BY DEF ToFloat
<1>4. i # 0 => Abs(One * i) >= 1
  BY <1>1, <1>2 DEF Abs
<1>5. /\ ToFloat[i] \in Float64 /\ ToFloat[i] \in Int
      /\ One * i >= 0 => ToFloat[i] >= 0
      /\ One * i <= 0 => ToFloat[i] <= 0
      /\ Abs(One * i) >= 1 => ToFloat[i] # 0
      /\ One * i \in Float64 => ToFloat[i] = One * i
  BY <1>2, <1>3, Rounding
<1>6. QED
  BY <1>1, <1>2, <1>4, <1>5

\* 0 and 1 are integers, and -1.
LEMMA SmallIntegers == {-1, 0, 1} \subseteq Int64 /\ MinInt \in Int64 /\ MaxInt \in Int64
BY Limits DEF Int64

-----------------------------------------------------------------------------
\* A float64 operation yields a float64 or the undefined result.
LEMMA RealOperations ==
  ASSUME NEW x \in Float64, NEW y \in Float64
  PROVE  /\ RealSum(x, y) \in Float64 \union {NaN}
         /\ RealProduct(x, y) \in Float64 \union {NaN}
         /\ y # 0 => RealQuotient(x, y) \in Float64 \union {NaN}
         \* When it is defined.
         /\ (x >= 0 /\ y >= 0) \/ (x <= 0 /\ y <= 0) => RealSum(x, y) \in Float64
         /\ x # 0 /\ y # 0 => RealProduct(x, y) \in Float64
         /\ y = -One => RealQuotient(x, y) \in Float64
<1>1. /\ x \in Int /\ y \in Int /\ Infinity \in Nat /\ 0 < One /\ One < Infinity /\ One \in Int
      /\ -Infinity \in Float64 /\ Infinity \in Float64 /\ 0 \in Float64
      /\ x <= Infinity /\ y <= Infinity /\ x # NaN /\ y # NaN
  BY RealFacts, OneFacts DEF NaN
<1>2. x + y \in Int /\ x * y \in Int /\ One * x * Sign(y) \in Int
  BY <1>1 DEF Sign
<1>3. /\ Nearest(x + y, 1) \in Float64
      /\ Nearest(x * y, One) \in Float64
      /\ y # 0 => Nearest(One * x * Sign(y), Abs(y)) \in Float64
  <2>1. Nearest(x + y, 1) \in Float64 /\ Nearest(x * y, One) \in Float64
    BY <1>1, <1>2, Rounding
  <2>2. y # 0 => Abs(y) \in Nat \ {0}
    BY <1>1 DEF Abs
  <2>3. y # 0 => Nearest(One * x * Sign(y), Abs(y)) \in Float64
    BY <1>2, <2>2, Rounding
  <2>4. QED
    BY <2>1, <2>3
<1>4. Sign(x) * Sign(y) * Infinity \in {-Infinity, 0, Infinity}
  BY <1>1 DEF Sign
<1>5. Sign(x) * Sign(y) * Infinity \in Float64
  BY <1>1, <1>4
<1>6. RealSum(x, y) \in Float64 \union {NaN}
  BY <1>1, <1>3 DEF RealSum
<1>7. (x >= 0 /\ y >= 0) \/ (x <= 0 /\ y <= 0) => RealSum(x, y) \in Float64
  <2>1. (x >= 0 /\ y >= 0) \/ (x <= 0 /\ y <= 0) => ~ (Infinite(x) /\ y = -x)
    BY <1>1 DEF Infinite, Abs
  <2>2. QED
    BY <1>1, <1>3, <2>1 DEF RealSum
<1>8. RealProduct(x, y) \in Float64 \union {NaN}
  BY <1>3, <1>5 DEF RealProduct
<1>9. x # 0 /\ y # 0 => RealProduct(x, y) \in Float64
  <2>1. x # 0 /\ y # 0 => x * y # 0
    BY <1>1
  <2>2. QED
    BY <1>3, <1>5, <2>1 DEF RealProduct
<1>10. y # 0 => RealQuotient(x, y) \in Float64 \union {NaN}
  BY <1>1, <1>3, <1>5 DEF RealQuotient
<1>11. y = -One => RealQuotient(x, y) \in Float64
  <2>1. y = -One => ~Infinite(y) /\ y # 0
    BY <1>1 DEF Infinite, Abs
  <2>2. QED
    BY <1>1, <1>3, <1>5, <2>1 DEF RealQuotient
<1>12. QED
  BY <1>6, <1>7, <1>8, <1>9, <1>10, <1>11

-----------------------------------------------------------------------------
\* Only the smallest integer, divided by -1, leaves the range of the integers.
LEMMA QuotientRange ==
  ASSUME NEW a \in Int64, NEW b \in Int64, b # 0
  PROVE  IF a = MinInt /\ b = -1 THEN Quotient(a, b) = MaxInt + 1 ELSE Quotient(a, b) \in Int64
<1> DEFINE q == Quotient(a, b)
           t == Remainder(a, b)
<1>1. /\ a \in Int /\ b \in Int /\ MinInt \in Int /\ MaxInt \in Int /\ MinInt = -(MaxInt + 1)
      /\ MinInt <= a /\ a <= MaxInt
  BY Limits DEF Int64
<1>2. /\ q \in Int /\ t \in Int /\ a = b * q + t /\ Abs(t) < Abs(b)
      /\ a >= 0 => t >= 0
      /\ a <= 0 => t <= 0
  BY <1>1, QuotientFacts
<1> HIDE DEF q, t
<1>3. CASE b = -1
  <2>1. t = 0
    BY <1>2, <1>3 DEF Abs
  <2>2. q = -a
    BY <1>1, <1>2, <1>3, <2>1
  <2>3. QED
    BY <1>1, <1>3, <2>2 DEF q, Int64
<1>4. CASE b >= 1
  <2>1. q >= 1 => b * q >= q
    BY <1>1, <1>2, <1>4
  <2>2. q <= -1 => b * q <= q
    BY <1>1, <1>2, <1>4
  <2>3. b * q \in Int
    BY <1>1, <1>2
  <2>4. MinInt <= q /\ q <= MaxInt
    BY <1>1, <1>2, <1>4, <2>1, <2>2, <2>3 DEF Abs
  <2>5. QED
    BY <1>1, <1>2, <1>4, <2>4 DEF q, Int64
<1>5. CASE b <= -2
  <2>1. q >= 1 => b * q <= -2 * q
    BY <1>1, <1>2, <1>5
  <2>2. q <= -1 => b * q >= -2 * q
    BY <1>1, <1>2, <1>5
  <2>3. b * q \in Int
    BY <1>1, <1>2
  <2>4. MinInt <= q /\ q <= MaxInt
    BY <1>1, <1>2, <1>5, <2>1, <2>2, <2>3, Limits DEF Abs
  <2>5. QED
    BY <1>1, <1>2, <1>5, <2>4 DEF q, Int64
<1>6. QED
  BY <1>1, <1>3, <1>4, <1>5

\* Dividing a product by one of its factors yields the other.
LEMMA QuotientOfProduct ==
  ASSUME NEW a \in Int, NEW b \in Int, b # 0
  PROVE  Quotient(a * b, b) = a
<1> DEFINE q == Quotient(a * b, b)
           t == Remainder(a * b, b)
<1>1. a * b \in Int
  OBVIOUS
<1>2. q \in Int /\ t \in Int /\ a * b = b * q + t /\ Abs(t) < Abs(b)
  BY <1>1, QuotientFacts
<1> HIDE DEF q, t
<1>3. t = b * (a - q)
  BY <1>1, <1>2
<1>4. a - q = 0
  BY <1>2, <1>3 DEF Abs
<1>5. QED
  BY <1>2, <1>4 DEF q

(* The test for an overflow of a product, "divide it again", finds exactly   *)
(* the products that are out of range.                                      *)
LEMMA ProductOverflow ==
  ASSUME NEW a \in Int64, NEW b \in Int64
  PROVE  Overflows("*", a, b) <=> a * b \notin Int64
<1> DEFINE w == Wrap(a * b)
           q == Quotient(w, b)
<1>1. /\ a \in Int /\ b \in Int /\ MinInt \in Int /\ MaxInt \in Int /\ MinInt = -(MaxInt + 1)
      /\ MaxInt >= 1 /\ a * b \in Int /\ MinInt <= b /\ b <= MaxInt
      /\ 2^Bits = 2 * (MaxInt + 1) /\ 2^Bits \in Int
  BY Limits DEF Int64
<1>2. w \in Int64 /\ w \in Int /\ (a * b \in Int64 => w = a * b)
  <2>1. w \in Int64 /\ (a * b \in Int64 => w = a * b)
    BY <1>1, WrapFacts
  <2>2. \A x \in Int64 : x \in Int
    BY DEF Int64
  <2>3. QED
    BY <2>1, <2>2
<1>3. PICK k \in Int : w = a * b - 2^Bits * k
  BY <1>1, WrapFacts
<1>4. Overflows("*", a, b) <=> /\ a # 0 /\ b # 0
                               /\ \/ a = MinInt /\ b = -1
                                  \/ b = MinInt /\ a = -1
                                  \/ Wrap(q) # a
  BY DEF Overflows
<1> HIDE DEF w
<1>5. CASE a * b \in Int64
  <2>1. ~ (a = MinInt /\ b = -1) /\ ~ (b = MinInt /\ a = -1)
    BY <1>1, <1>5 DEF Int64
  <2>2. b # 0 => Wrap(q) = a
    BY <1>1, <1>2, <1>5, QuotientOfProduct, WrapFacts
  <2>3. QED
    BY <1>4, <1>5, <2>1, <2>2
<1>6. CASE a * b \notin Int64
  <2>1. a # 0 /\ b # 0
    BY <1>1, <1>6 DEF Int64
  <2>2. SUFFICES ASSUME ~ (a = MinInt /\ b = -1), Wrap(q) = a PROVE FALSE
    BY <1>4, <1>6, <2>1
  <2>3. ~ (w = MinInt /\ b = -1)
    <3>1. SUFFICES ASSUME w = MinInt, b = -1 PROVE FALSE
      OBVIOUS
    <3>2. q = MaxInt + 1
      BY <1>2, <2>1, <3>1, QuotientRange
    <3>3. Wrap(q) = MinInt
      <4>1. PICK j \in Int : Wrap(q) = MaxInt + 1 - 2^Bits * j
        BY <1>1, <3>2, WrapFacts
      <4>2. Wrap(q) \in Int /\ MinInt <= Wrap(q) /\ Wrap(q) <= MaxInt
        BY <1>1, <3>2, WrapFacts DEF Int64
      <4>3. j <= 0 => 2^Bits * j <= 0
        BY <1>1
      <4>4. j >= 2 => 2^Bits * j >= 2^Bits * 2
        BY <1>1
      <4>5. j = 1
        BY <1>1, <4>1, <4>2, <4>3, <4>4
      <4>6. QED
        BY <1>1, <4>1, <4>5
    <3>4. QED
      BY <2>2, <3>1, <3>3
  <2>4. q \in Int64 /\ q \in Int
    BY <1>1, <1>2, <2>1, <2>3, QuotientRange DEF Int64
  <2>5. q = a
    BY <2>2, <2>4, WrapFacts
  <2>6. w = b * a + Remainder(w, b) /\ Remainder(w, b) \in Int /\ Abs(Remainder(w, b)) < Abs(b)
    BY <1>1, <1>2, <2>1, <2>5, QuotientFacts
  <2>7. Remainder(w, b) = -(2^Bits * k) /\ k # 0
    BY <1>1, <1>2, <1>3, <1>6, <2>6
  <2>8. Abs(Remainder(w, b)) >= 2^Bits
    <3>1. k >= 1 => 2^Bits * k >= 2^Bits
      BY <1>1
    <3>2. k <= -1 => 2^Bits * k <= -2^Bits
      BY <1>1
    <3>3. QED
      BY <1>1, <2>6, <2>7, <3>1, <3>2 DEF Abs
  <2>9. Abs(b) <= MaxInt + 1
    BY <1>1 DEF Abs
  <2>10. QED
    BY <1>1, <2>6, <2>8, <2>9 DEF Abs
<1>7. QED
  BY <1>5, <1>6

-----------------------------------------------------------------------------
(* The tests for an overflow are exact: an operation that is defined takes   *)
(* the way of the reals if and only if its result is out of range.          *)
LEMMA OverflowsIsExact ==
  ASSUME NEW a \in Int64, NEW b \in Int64, NEW op \in Operator, op \in {"/", "%"} => b # 0
  PROVE  /\ Exact(op, a, b) \in Int
         /\ Overflows(op, a, b) <=> Exact(op, a, b) \notin Int64
<1>1. /\ a \in Int /\ b \in Int /\ MinInt \in Int /\ MaxInt \in Int /\ MinInt = -(MaxInt + 1)
      /\ MaxInt >= 1 /\ MinInt <= a /\ a <= MaxInt /\ MinInt <= b /\ b <= MaxInt
  BY Limits DEF Int64
<1>2. \A x \in Int : x \in Int64 <=> MinInt <= x /\ x <= MaxInt
  BY <1>1 DEF Int64
<1>3. CASE op = "+"
  BY <1>1, <1>2, <1>3 DEF Overflows, Exact
<1>4. CASE op = "-"
  BY <1>1, <1>2, <1>4 DEF Overflows, Exact
<1>5. CASE op = "*"
  <2>1. Exact(op, a, b) = a * b /\ a * b \in Int
    BY <1>1, <1>5 DEF Exact
  <2>2. QED
    BY <1>5, <2>1, ProductOverflow
<1>6. CASE op = "/"
  <2>1. Exact(op, a, b) = Quotient(a, b) /\ b # 0
    BY <1>6 DEF Exact
  <2>2. Overflows(op, a, b) <=> (b = -1 /\ a = MinInt)
    BY <1>6 DEF Overflows
  <2>3. MaxInt + 1 \notin Int64 /\ MaxInt + 1 \in Int /\ \A x \in Int64 : x \in Int
    BY <1>1, <1>2 DEF Int64
  <2>4. QED
    BY <2>1, <2>2, <2>3, QuotientRange
<1>7. CASE op = "%"
  <2>1. Exact(op, a, b) = Remainder(a, b) /\ b # 0 /\ ~Overflows(op, a, b)
    BY <1>7 DEF Exact, Overflows
  <2>2. /\ Remainder(a, b) \in Int /\ Abs(Remainder(a, b)) < Abs(b)
    BY <1>1, <2>1, QuotientFacts
  <2>3. MinInt <= Remainder(a, b) /\ Remainder(a, b) <= MaxInt
    BY <1>1, <2>2 DEF Abs
  <2>4. QED
    BY <1>2, <2>1, <2>2, <2>3
<1>8. QED
  BY <1>3, <1>4, <1>5, <1>6, <1>7 DEF Operator

\* An operation that overflows has a real for its result, never an undefined one.
LEMMA OverflowIsReal ==
  ASSUME NEW a \in Int64, NEW b \in Int64, NEW op \in Operator \ {"%"}, Overflows(op, a, b)
  PROVE  \E r \in Float64 : RealMath(op, ToFloat[a], ToFloat[b]) = FloatV(r)
<1> DEFINE x == ToFloat[a]
           y == ToFloat[b]
<1>1. /\ a \in Int /\ b \in Int /\ MinInt \in Int /\ MaxInt \in Int /\ MinInt = -(MaxInt + 1)
      /\ MaxInt >= 1 /\ MinInt <= a /\ a <= MaxInt /\ MinInt <= b /\ b <= MaxInt
  BY Limits DEF Int64
<1>2. /\ x \in Float64 /\ x \in Int /\ (a > 0 <=> x > 0) /\ (a < 0 <=> x < 0)
      /\ y \in Float64 /\ y \in Int /\ (b > 0 <=> y > 0) /\ (b < 0 <=> y < 0)
  BY ToFloatFacts
<1> HIDE DEF x, y
<1>3. -y \in Float64 /\ -y \in Int
  BY <1>2, RealFacts
<1>4. CASE op = "+"
  <2>1. (x >= 0 /\ y >= 0) \/ (x <= 0 /\ y <= 0)
    BY <1>1, <1>2, <1>4 DEF Overflows
  <2>2. RealSum(x, y) \in Float64
    BY <1>2, <2>1, RealOperations
  <2>3. RealMath(op, x, y) = FloatV(RealSum(x, y))
    BY <1>4 DEF RealMath
  <2>4. QED
    BY <2>2, <2>3 DEF x, y
<1>5. CASE op = "-"
  <2>1. (x >= 0 /\ -y >= 0) \/ (x <= 0 /\ -y <= 0)
    BY <1>1, <1>2, <1>5 DEF Overflows
  <2>2. RealSum(x, -y) \in Float64
    BY <1>2, <1>3, <2>1, RealOperations
  <2>3. RealMath(op, x, y) = FloatV(RealSum(x, -y))
    BY <1>5 DEF RealMath
  <2>4. QED
    BY <2>2, <2>3 DEF x, y
<1>6. CASE op = "*"
  <2>1. x # 0 /\ y # 0
    BY <1>1, <1>2, <1>6 DEF Overflows
  <2>2. RealProduct(x, y) \in Float64
    BY <1>2, <2>1, RealOperations
  <2>3. RealMath(op, x, y) = FloatV(RealProduct(x, y))
    BY <1>6 DEF RealMath
  <2>4. QED
    BY <2>2, <2>3 DEF x, y
<1>7. CASE op = "/"
  <2>1. b = -1
    BY <1>7 DEF Overflows
  <2>2. One \in Float64 /\ One \in Int /\ 0 < One
    BY RealFacts, OneFacts
  <2>3. One * b = -One /\ -One \in Float64
    BY <2>1, <2>2, RealFacts
  <2>4. y = -One
    BY <2>3, ToFloatFacts DEF y
  <2>5. RealQuotient(x, y) \in Float64
    BY <1>2, <2>4, RealOperations
  <2>6. RealMath(op, x, y) = FloatV(RealQuotient(x, y))
    BY <1>7, <2>2, <2>4 DEF RealMath
  <2>7. QED
    BY <2>5, <2>6 DEF x, y
<1>8. QED
  BY <1>4, <1>5, <1>6, <1>7 DEF Operator

(* What intMath answers for every pair of integers.                         *)
LEMMA IntMathIsExact ==
  ASSUME NEW a \in Int64, NEW b \in Int64, NEW op \in Operator
  PROVE  IF op \in {"/", "%"} /\ b = 0 THEN IntMath(op, a, b) = NullV
         ELSE IF Exact(op, a, b) \in Int64 THEN IntMath(op, a, b) = IntV(Exact(op, a, b))
         ELSE \E r \in Float64 : IntMath(op, a, b) = FloatV(r)
<1>1. CASE op \in {"/", "%"} /\ b = 0
  BY <1>1 DEF IntMath
<1>2. CASE ~ (op \in {"/", "%"} /\ b = 0)
  <2>1. Exact(op, a, b) \in Int /\ (Overflows(op, a, b) <=> Exact(op, a, b) \notin Int64)
    BY <1>2, OverflowsIsExact
  <2>2. ASSUME Exact(op, a, b) \notin Int64
        PROVE  \E r \in Float64 : IntMath(op, a, b) = FloatV(r)
    <3>1. Overflows(op, a, b) /\ op # "%"
      BY <2>1, <2>2 DEF Overflows
    <3>2. IntMath(op, a, b) = RealMath(op, ToFloat[a], ToFloat[b])
      BY <1>2, <3>1 DEF IntMath
    <3>3. QED
      BY <3>1, <3>2, OverflowIsReal
  <2>3. ASSUME Exact(op, a, b) \in Int64
        PROVE  IntMath(op, a, b) = IntV(Exact(op, a, b))
    <3>1. ~Overflows(op, a, b)
      BY <2>1, <2>3
    <3>2. Wrap(Exact(op, a, b)) = Exact(op, a, b)
      BY <2>1, <2>3, WrapFacts
    <3>3. op = "%" => Remainder(a, IF b = -1 THEN 1 ELSE b) = Remainder(a, b)
      <4>1. SUFFICES ASSUME op = "%", b = -1 PROVE Remainder(a, 1) = Remainder(a, b)
        OBVIOUS
      <4>2. a \in Int
        BY DEF Int64
      <4>3. Remainder(a, 1) \in Int /\ Abs(Remainder(a, 1)) < Abs(1)
        BY <4>2, QuotientFacts
      <4>4. Remainder(a, -1) \in Int /\ Abs(Remainder(a, -1)) < Abs(-1)
        BY <4>2, QuotientFacts
      <4>5. Remainder(a, 1) = 0 /\ Remainder(a, -1) = 0
        BY <4>3, <4>4 DEF Abs
      <4>6. QED
        BY <4>1, <4>5
    <3>4. IntMath(op, a, b) = IntV(Wrap(Exact(op, a, b)))
      BY <1>2, <3>1, <3>3 DEF IntMath, Exact, Operator
    <3>5. QED
      BY <3>2, <3>4
  <2>4. QED
    BY <1>2, <2>2, <2>3
<1>3. QED
  BY <1>1, <1>2

-----------------------------------------------------------------------------
\* realToI64 yields an int64: its limit is a real, and below the first one out of range.
LEMMA Saturation == ASSUME NEW r \in Float64 PROVE RealToI64(r) \in Int64
<1> DEFINE B == One * 2^(Bits - 1)
           S == {Infinity - q : q \in {q \in Float64 : q < B}}
           L(l) == /\ l < B
                   /\ \A q \in Float64 : l < q => q >= B
<1>1. /\ One \in Int /\ 0 < One /\ Infinity \in Int /\ Float64 \subseteq Int /\ 0 \in Float64
      /\ \A q \in Float64 : q <= Infinity
  BY RealFacts, OneFacts
<1>2. /\ MinInt \in Int /\ MaxInt \in Int /\ MinInt = -(MaxInt + 1) /\ MaxInt >= 1
      /\ 2^(Bits - 1) = MaxInt + 1
  <2>1. 2^(Bits - 1) \in Nat
    BY PowerPositive, WidthAssumption
  <2>2. QED
    BY <2>1, Limits DEF MaxInt
<1>3. B = One * (MaxInt + 1) /\ B \in Int /\ 0 < B
  BY <1>1, <1>2
<1> HIDE DEF B
<1>4. S \subseteq Nat /\ S # {}
  BY <1>1, <1>3
<1>5. PICK m \in S : \A n \in S : m <= n
  BY <1>4, LeastElement
<1>6. PICK l \in Float64 : l < B /\ m = Infinity - l
  BY <1>5
<1>7. L(l)
  <2>1. ASSUME NEW q \in Float64, l < q, ~ (q >= B) PROVE FALSE
    <3>1. Infinity - q \in S
      BY <1>1, <1>3, <2>1
    <3>2. m <= Infinity - q
      <4> HIDE DEF S
      <4>1. QED
        BY <1>5, <3>1
    <3>3. l \in Int /\ q \in Int /\ m = Infinity - l
      BY <1>1, <1>6
    <3>4. QED
      BY <1>1, <2>1, <3>2, <3>3
  <2>2. QED
    BY <1>6, <2>1
<1>8. Limit = CHOOSE x \in Float64 : L(x)
  BY DEF Limit, B
<1>9. Limit \in Float64 /\ L(Limit)
  <2> HIDE DEF L
  <2>1. QED
    BY <1>7, <1>8
<1>10. ASSUME Abs(r) <= Limit PROVE Quotient(r, One) \in Int64
  <2> DEFINE q == Quotient(r, One)
  <2>1. /\ q \in Int
        /\ r >= 0 => r < One * q + One /\ One * q <= r
        /\ r <= 0 => r > One * q - One /\ One * q >= r
    BY TruncationIsReal
  <2> HIDE DEF q
  <2>2. -B < r /\ r < B /\ r \in Int
    BY <1>1, <1>3, <1>9, <1>10 DEF Abs
  <2>3. One * q \in Int /\ One * (MaxInt + 1 - q) = B - One * q /\ One * (q + (MaxInt + 1)) = One * q + B
    BY <1>1, <1>2, <1>3, <2>1
  <2>4. MaxInt + 1 - q > 0
    BY <1>1, <1>2, <1>3, <2>1, <2>2, <2>3
  <2>5. q + (MaxInt + 1) > 0
    BY <1>1, <1>2, <1>3, <2>1, <2>2, <2>3
  <2>6. QED
    BY <1>2, <2>1, <2>4, <2>5 DEF Int64, q
<1>11. QED
  BY <1>10, SmallIntegers DEF RealToI64

\* An integer that takes the place of a real is worth as much.
LEMMA ExactIsWorth ==
  ASSUME NEW r \in Float64, ExactInt(r, Quotient(r, One))
  PROVE  Quotient(r, One) \in Int64 /\ One * Quotient(r, One) = r
<1>1. Quotient(r, One) \in Int /\ One * Quotient(r, One) \in Float64
  BY TruncationIsReal
<1>2. Quotient(r, One) \in Int64
  BY <1>1, Limits DEF ExactInt, Int64
<1>3. QED
  BY <1>1, <1>2, ToFloatFacts DEF ExactInt

-----------------------------------------------------------------------------
\* How values are made and what they are made of.
LEMMA ValueForms ==
  /\ \A i \in Int64 : IntV(i) \in Value /\ IntV(i).kind = "Int" /\ IntV(i).n = i
  /\ \A r \in Float64 : FloatV(r) \in Value /\ FloatV(r).kind = "Float" /\ FloatV(r).n = r
  /\ \A t \in Bytes : TextV(t) \in Value /\ BlobV(t) \in Value
  /\ NullV \in Value /\ NullV.kind = "Null" /\ NullV.n = 0
  /\ \A v \in Value : /\ v.kind \in {"Null", "Int", "Float", "Text", "Blob"} /\ v.n \in Int
                      /\ v.kind = "Null" => v = NullV
                      /\ v.kind = "Int" => v.n \in Int64 /\ v = IntV(v.n)
                      /\ v.kind = "Float" => v.n \in Float64 /\ v = FloatV(v.n)
                      /\ v.kind = "Text" => v.n \in Bytes /\ v = TextV(v.n)
                      /\ v.kind = "Blob" => v.n \in Bytes /\ v = BlobV(v.n)
<1>1. /\ Int64 \subseteq Int /\ Float64 \subseteq Int /\ Bytes \subseteq Int
      /\ \A r \in Float64 : FloatV(r) = [kind |-> "Float", n |-> r]
  BY RealFacts, BytesAssumption DEF Int64
<1>2. /\ \A i \in Int64 : IntV(i) \in Value /\ IntV(i).kind = "Int" /\ IntV(i).n = i
      /\ \A t \in Bytes : TextV(t) \in Value /\ BlobV(t) \in Value
      /\ NullV \in Value /\ NullV.kind = "Null" /\ NullV.n = 0
  BY DEF Value, IntV, TextV, BlobV, NullV
<1>3. \A r \in Float64 : FloatV(r) \in Value /\ FloatV(r).kind = "Float" /\ FloatV(r).n = r
  BY <1>1 DEF Value
<1>4. ASSUME NEW v \in Value
      PROVE  /\ v.kind \in {"Null", "Int", "Float", "Text", "Blob"} /\ v.n \in Int
             /\ v.kind = "Null" => v = NullV
             /\ v.kind = "Int" => v.n \in Int64 /\ v = IntV(v.n)
             /\ v.kind = "Float" => v.n \in Float64 /\ v = FloatV(v.n)
             /\ v.kind = "Text" => v.n \in Bytes /\ v = TextV(v.n)
             /\ v.kind = "Blob" => v.n \in Bytes /\ v = BlobV(v.n)
  <2>1. CASE v \in [kind : {"Int"}, n : Int64]
    BY <1>1, <2>1 DEF IntV
  <2>2. CASE v \in [kind : {"Float"}, n : Float64]
    BY <1>1, <2>2
  <2>3. CASE v \in [kind : {"Text", "Blob"}, n : Bytes]
    BY <1>1, <2>3 DEF TextV, BlobV
  <2>4. CASE v = NullV
    BY <2>4 DEF NullV
  <2>5. QED
    BY <2>1, <2>2, <2>3, <2>4 DEF Value
<1>5. QED
  BY <1>2, <1>3, <1>4

\* What parseLeadingNumber and parseLeadingInt read becomes a value.
LEMMA NumberReadType ==
  ASSUME NEW v \in Value, v.kind \in {"Text", "Blob"}, NEW tryInt \in BOOLEAN
  PROVE  NumericAffinity(v, tryInt) \in Value
<1> DEFINE number == LeadingNumber(v.n)
           int == LeadingInt(v.n)
           i == RealToI64(number.real)
<1>1. v.n \in Bytes /\ int.int \in Int64 /\ number.real \in Float64 /\ i \in Int64
  BY ValueForms, ReadingAssumption, Saturation
<1> HIDE DEF number, int, i
<1>2. WholeOrReal(number, i, tryInt) \in Value
  BY <1>1, ValueForms DEF WholeOrReal
<1>3. NumberRead(v, number, int, tryInt) \in Value
  BY <1>1, <1>2, ValueForms DEF NumberRead, i
<1>4. QED
  BY <1>3 DEF NumericAffinity, number, int

\* A column stores values.
LEMMA StoredType ==
  ASSUME NEW v \in Literal, NEW aff \in Affinity, NEW u \in ApplyAffinity(v, aff)
  PROVE  u \in Value
<1>1. v \in Value
  BY LiteralAssumption
<1>2. CASE aff \in {"INTEGER", "NUMERIC"} /\ v.kind = "Float"
  <2>1. PICK i \in Converted(v.n) : u = IF ExactInt(v.n, i) THEN IntV(i) ELSE v
    BY <1>2 DEF ApplyAffinity
  <2>2. v.n \in Float64
    BY <1>1, <1>2, ValueForms
  <2>3. i \in Int64
    BY <2>1, <2>2, SmallIntegers DEF Converted
  <2>4. QED
    BY <1>1, <2>1, <2>3, ValueForms
<1>3. CASE aff \in {"INTEGER", "NUMERIC"} /\ v.kind = "Text"
  BY <1>1, <1>3, NumberReadType DEF ApplyAffinity
<1>4. CASE aff = "REAL"
  <2> DEFINE w == IF v.kind = "Text" THEN NumericAffinity(v, TRUE) ELSE v
  <2>1. w \in Value
    BY <1>1, NumberReadType
  <2>2. u = AsReal(w)
    BY <1>4 DEF ApplyAffinity
  <2> HIDE DEF w
  <2>3. w.kind = "Int" => ToFloat[w.n] \in Float64
    BY <2>1, ValueForms, ToFloatFacts
  <2>4. QED
    BY <2>1, <2>2, <2>3, ValueForms DEF AsReal
<1>5. CASE aff = "TEXT"
  <2>1. u = AsText(v)
    BY <1>5 DEF ApplyAffinity
  <2>2. QED
    BY <1>1, <2>1, ShownAssumption, ValueForms DEF AsText
<1>6. CASE ~ \/ aff \in {"INTEGER", "NUMERIC"} /\ v.kind \in {"Float", "Text"}
             \/ aff \in {"REAL", "TEXT"}
  <2>1. u = v
    BY <1>6 DEF ApplyAffinity
  <2>2. QED
    BY <1>1, <2>1
<1>7. QED
  BY <1>2, <1>3, <1>4, <1>5, <1>6

-----------------------------------------------------------------------------
(* The inductive invariant: every row is a value, and one of those that the  *)
(* affinity of the column makes of what was supplied for it; there are no   *)
(* more of them than can be counted.                                        *)
StoredInv ==
  /\ affinity \in Affinity \ {"NONE"}
  /\ given \in Seq(Literal) /\ rows \in Seq(Value) /\ Len(given) = Len(rows)
  /\ Len(rows) <= MaxRows
  /\ \A k \in DOMAIN rows : rows[k] \in ApplyAffinity(given[k], affinity)

\* Rows are stored values, with what they were made of.
THEOREM Stored == Spec => []StoredInv
<1>1. Init => StoredInv
  BY LiteralAssumption DEF Init, StoredInv
<1>2. ASSUME StoredInv, [Next]_vars PROVE StoredInv'
  <2>1. CASE UNCHANGED vars
    BY <1>2, <2>1 DEF StoredInv, vars
  <2>2. ASSUME NEW v \in Literal, Insert(v) PROVE StoredInv'
    <3>1. PICK stored \in ApplyAffinity(v, affinity) : rows' = Append(rows, stored)
      BY <2>2 DEF Insert
    <3>2. affinity' = affinity /\ given' = Append(given, v)
      BY <2>2 DEF Insert
    <3>3. stored \in Value
      BY <1>2, StoredType DEF StoredInv
    <3>4. /\ given' \in Seq(Literal) /\ Len(given') = Len(given) + 1
          /\ rows' \in Seq(Value) /\ Len(rows') = Len(rows) + 1
      BY <1>2, <3>1, <3>2, <3>3 DEF StoredInv
    <3>0. Len(rows') <= MaxRows
      BY <1>2, <2>2, <3>4, LiteralAssumption DEF Insert, StoredInv
    <3>5. ASSUME NEW k \in DOMAIN rows'
          PROVE  rows'[k] \in ApplyAffinity(given'[k], affinity')
      <4>1. given \in Seq(Literal) /\ rows \in Seq(Value) /\ Len(given) = Len(rows) /\ k \in 1..(Len(rows) + 1)
        BY <1>2, <3>4, <3>5 DEF StoredInv
      <4>2. CASE k = Len(rows) + 1
        <5>1. rows'[k] = stored /\ given'[k] = v
          BY <3>1, <3>2, <4>1, <4>2
        <5>2. QED
          BY <3>1, <3>2, <5>1
      <4>3. CASE k \in 1..Len(rows)
        <5>1. rows'[k] = rows[k] /\ given'[k] = given[k]
          BY <3>1, <3>2, <4>1, <4>3
        <5>2. rows[k] \in ApplyAffinity(given[k], affinity)
          BY <1>2, <4>1, <4>3 DEF StoredInv
        <5>3. QED
          BY <3>2, <5>1, <5>2
      <4>4. QED
        BY <4>1, <4>2, <4>3
    <3>6. QED
      BY <1>2, <3>0, <3>2, <3>4, <3>5 DEF StoredInv
  <2>3. QED
    BY <1>2, <2>1, <2>2 DEF Next
<1>3. QED
  BY <1>1, <1>2, PTL DEF Spec

(* A number keeps its worth in a column, but for the rounding of a REAL one, *)
(* and what is stored does not depend on the processor: int64(f) is used    *)
(* only where it is defined (applyAffinity, applyNumericAffinity).          *)
THEOREM StoredNumbersKept == Spec => []NumbersKept
<1>1. ASSUME StoredInv, NEW k \in DOMAIN rows, IsNumber(given[k]), IsNumber(rows[k])
      PROVE  /\ Worth(rows[k]) = IF affinity = "REAL" THEN RealValueOf(given[k]) ELSE Worth(given[k])
             /\ Cardinality(ApplyAffinity(given[k], affinity)) = 1
  <2> DEFINE v == given[k]
             u == rows[k]
  <2>1. v \in Literal /\ v \in Value /\ u \in Value /\ u \in ApplyAffinity(v, affinity)
        /\ affinity \in Affinity \ {"NONE"}
    BY <1>1, LiteralAssumption DEF StoredInv
  <2>2. v.kind \in {"Int", "Float"} /\ u.kind \in {"Int", "Float"}
    BY <1>1 DEF IsNumber
  <2> HIDE DEF v, u
  <2>3. ASSUME NEW w, ApplyAffinity(v, affinity) = {w}
        PROVE  u = w /\ Cardinality(ApplyAffinity(v, affinity)) = 1
    BY <2>1, <2>3, FS_Singleton
  <2>4. CASE affinity \in {"INTEGER", "NUMERIC"} /\ v.kind = "Float"
    <3> DEFINE q == Quotient(v.n, One)
    <3>1. v.n \in Float64 /\ v = FloatV(v.n) /\ q \in Int
      BY <2>1, <2>4, ValueForms, TruncationIsReal
    <3>2. ApplyAffinity(v, affinity) = {IF ExactInt(v.n, q) THEN IntV(q) ELSE v}
      <4>1. ApplyAffinity(v, affinity) = {IF ExactInt(v.n, i) THEN IntV(i) ELSE v : i \in Converted(v.n)}
        BY <2>4 DEF ApplyAffinity
      <4>2. CASE q \in Int64
        BY <4>1, <4>2 DEF Converted
      <4>3. CASE q \notin Int64
        <5>1. ~ExactInt(v.n, q)
          BY <3>1, <4>3, Limits DEF ExactInt, Int64
        <5>2. \A i \in Converted(v.n) : ~ExactInt(v.n, i)
          BY <4>3, Limits DEF ExactInt, Converted
        <5>3. Converted(v.n) # {}
          BY DEF Converted
        <5>4. QED
          BY <4>1, <5>1, <5>2, <5>3
      <4>4. QED
        BY <4>2, <4>3
    <3>3. u = (IF ExactInt(v.n, q) THEN IntV(q) ELSE v) /\ Cardinality(ApplyAffinity(v, affinity)) = 1
      BY <2>3, <3>2
    <3>4. Worth(v) = v.n
      BY <2>4 DEF Worth
    <3>5. ExactInt(v.n, q) => Worth(u) = v.n
      BY <3>1, <3>3, ExactIsWorth DEF Worth, IntV
    <3>6. affinity # "REAL"
      BY <2>4
    <3>7. QED
      BY <3>3, <3>4, <3>5, <3>6 DEF v, u
  <2>5. CASE affinity = "REAL"
    <3>1. u = AsReal(v) /\ Cardinality(ApplyAffinity(v, affinity)) = 1
      <4>1. ApplyAffinity(v, affinity) = {AsReal(v)}
        BY <2>2, <2>5 DEF ApplyAffinity
      <4>2. QED
        BY <2>3, <4>1
    <3>2. Worth(u) = RealValueOf(v)
      <4>1. CASE v.kind = "Int"
        <5>1. ToFloat[v.n] \in Float64
          BY <2>1, <4>1, ValueForms, ToFloatFacts
        <5>2. u.kind = "Float" /\ u.n = ToFloat[v.n]
          BY <3>1, <4>1, <5>1, ValueForms DEF AsReal
        <5>3. QED
          BY <4>1, <5>2 DEF Worth, RealValueOf
      <4>2. CASE v.kind = "Float"
        BY <3>1, <4>2 DEF AsReal, Worth, RealValueOf
      <4>3. QED
        BY <2>2, <4>1, <4>2
    <3>3. QED
      BY <2>5, <3>1, <3>2 DEF v, u
  <2>6. CASE affinity = "TEXT"
    BY <2>1, <2>2, <2>6 DEF ApplyAffinity, AsText, IsNumber, TextV
  <2>7. CASE affinity = "BLOB" \/ (affinity \in {"INTEGER", "NUMERIC"} /\ v.kind = "Int")
    <3>1. ApplyAffinity(v, affinity) = {v}
      BY <2>7 DEF ApplyAffinity
    <3>2. u = v /\ Cardinality(ApplyAffinity(v, affinity)) = 1 /\ affinity # "REAL"
      BY <2>3, <2>7, <3>1
    <3>3. QED
      BY <3>2 DEF v, u
  <2>8. QED
    BY <2>1, <2>2, <2>4, <2>5, <2>6, <2>7 DEF Affinity
<1>2. StoredInv => NumbersKept
  BY <1>1 DEF NumbersKept
<1>3. QED
  BY <1>2, Stored, PTL

(* Arithmetic on stored integers is exact, or its result is out of range and *)
(* becomes a real (arith, intMath).                                         *)
THEOREM ArithmeticIsExact == Spec => []IntegersExact
<1>1. ASSUME StoredInv, NEW i \in DOMAIN rows, NEW j \in DOMAIN rows, NEW op \in Operator,
             rows[i].kind = "Int", rows[j].kind = "Int"
      PROVE  LET a == rows[i].n
                 b == rows[j].n
                 r == Arith(op, rows[i], rows[j])
             IN  IF op \in {"/", "%"} /\ b = 0 THEN r = NullV
                 ELSE IF Exact(op, a, b) \in Int64 THEN r = IntV(Exact(op, a, b))
                 ELSE r.kind = "Float"
  <2> DEFINE a == rows[i].n
             b == rows[j].n
  <2>1. a \in Int64 /\ b \in Int64
    BY <1>1, ValueForms DEF StoredInv
  <2>2. Arith(op, rows[i], rows[j]) = IntMath(op, a, b)
    BY <1>1 DEF Arith, NumericTypeOf, IsNull
  <2> HIDE DEF a, b
  <2>3. IF op \in {"/", "%"} /\ b = 0 THEN IntMath(op, a, b) = NullV
        ELSE IF Exact(op, a, b) \in Int64 THEN IntMath(op, a, b) = IntV(Exact(op, a, b))
        ELSE IntMath(op, a, b).kind = "Float"
    BY <2>1, IntMathIsExact, ValueForms
  <2>4. QED
    BY <2>2, <2>3 DEF a, b
<1>2. StoredInv => IntegersExact
  BY <1>1 DEF IntegersExact
<1>3. QED
  BY <1>2, Stored, PTL

-----------------------------------------------------------------------------
\* The comparison of an integer with a real, "exact" as value.go calls it, is exact.
LEMMA IntFloatIsExact ==
  ASSUME NEW i \in Int64, NEW r \in Float64
  PROVE  IntFloatCompare(i, r) = Sign(One * i - r)
<1> DEFINE q == Quotient(r, One)
<1>1. /\ i \in Int /\ r \in Int /\ One \in Int /\ 0 < One /\ One * i \in Int
      /\ MinInt \in Int /\ MaxInt \in Int /\ MinInt <= i /\ i <= MaxInt
  BY RealFacts, OneFacts, Limits DEF Int64
<1>2. /\ q \in Int /\ One * q \in Float64 /\ One * q \in Int
      /\ r >= 0 => r < One * q + One /\ One * q <= r
      /\ r <= 0 => r > One * q - One /\ One * q >= r
  BY <1>1, TruncationIsReal
<1>3. CASE r < One * MinInt
  <2>1. One * MinInt <= One * i /\ One * MinInt \in Int
    BY <1>1
  <2>2. QED
    BY <1>1, <1>3, <2>1 DEF IntFloatCompare, Sign
<1>4. CASE ~ (r < One * MinInt) /\ r >= One * (MaxInt + 1)
  <2>1. One * i < One * (MaxInt + 1) /\ One * (MaxInt + 1) \in Int
    BY <1>1
  <2>2. QED
    BY <1>1, <1>4, <2>1 DEF IntFloatCompare, Sign
<1>5. CASE ~ (r < One * MinInt) /\ ~ (r >= One * (MaxInt + 1)) /\ i # q
  <2>1. IntFloatCompare(i, r) = Sign(i - q)
    BY <1>5 DEF IntFloatCompare
  <2> HIDE DEF q
  <2>2. CASE i < q
    <3>1. One * i <= One * (q - 1) /\ One * (q - 1) = One * q - One
      BY <1>1, <1>2, <2>2
    <3>2. One * i < r
      BY <1>1, <1>2, <3>1
    <3>3. QED
      BY <1>1, <1>2, <2>1, <2>2, <3>2 DEF Sign
  <2>3. CASE i > q
    <3>1. One * i >= One * (q + 1) /\ One * (q + 1) = One * q + One
      BY <1>1, <1>2, <2>3
    <3>2. One * i > r
      BY <1>1, <1>2, <3>1
    <3>3. QED
      BY <1>1, <1>2, <2>1, <2>3, <3>2 DEF Sign
  <2>4. QED
    BY <1>1, <1>2, <1>5, <2>2, <2>3
<1>6. CASE ~ (r < One * MinInt) /\ ~ (r >= One * (MaxInt + 1)) /\ i = q
  <2>1. IntFloatCompare(i, r) = Sign(ToFloat[i] - r)
    BY <1>6 DEF IntFloatCompare
  <2>2. ToFloat[i] = One * i
    BY <1>2, <1>6, ToFloatFacts
  <2>3. QED
    BY <2>1, <2>2
<1>7. QED
  BY <1>3, <1>4, <1>5, <1>6

\* What values are ordered by: numbers first, then text, then blobs; numbers by their worth.
Class(v) == IF IsNumber(v) THEN 0 ELSE IF v.kind = "Blob" THEN 2 ELSE 1
Key(v) == IF IsNumber(v) THEN Worth(v) ELSE v.n

\* compareValues orders by class and key, from which NULL is excepted.
LEMMA ComparedByKey ==
  ASSUME NEW u \in Value, NEW v \in Value, ~IsNull(u), ~IsNull(v)
  PROVE  /\ Class(u) \in 0..2 /\ Class(v) \in 0..2 /\ Key(u) \in Int /\ Key(v) \in Int
         /\ CompareValues(u, v) = IF Class(u) = Class(v) THEN Sign(Key(u) - Key(v))
                                  ELSE Sign(Class(u) - Class(v))
<1>1. /\ u.kind \in {"Int", "Float", "Text", "Blob"} /\ u.n \in Int
      /\ v.kind \in {"Int", "Float", "Text", "Blob"} /\ v.n \in Int
      /\ u.kind = "Int" => u.n \in Int64
      /\ v.kind = "Int" => v.n \in Int64
      /\ u.kind = "Float" => u.n \in Float64
      /\ v.kind = "Float" => v.n \in Float64
  BY ValueForms DEF IsNull
<1>2. One \in Int /\ 0 < One
  BY RealFacts, OneFacts
<1>3. Worth(u) \in Int /\ Worth(v) \in Int
  BY <1>1, <1>2 DEF Worth
<1>4. Class(u) \in 0..2 /\ Class(v) \in 0..2 /\ Key(u) \in Int /\ Key(v) \in Int
  BY <1>1, <1>3 DEF Class, Key
<1>5. CASE u.kind = "Int" /\ v.kind = "Int"
  <2>1. Class(u) = 0 /\ Class(v) = 0 /\ Key(u) = One * u.n /\ Key(v) = One * v.n
    BY <1>5 DEF Class, Key, Worth, IsNumber
  <2>2. Sign(u.n - v.n) = Sign(One * u.n - One * v.n)
    <3>1. One * u.n - One * v.n = One * (u.n - v.n)
      BY <1>1, <1>2
    <3>2. \A x \in Int : (x > 0 <=> One * x > 0) /\ (x < 0 <=> One * x < 0) /\ One * x \in Int
      BY <1>2
    <3>3. QED
      BY <1>1, <3>1, <3>2 DEF Sign
  <2>3. CompareValues(u, v) = Sign(u.n - v.n)
    BY <1>5 DEF CompareValues, IsNumber
  <2>4. QED
    BY <1>4, <2>1, <2>2, <2>3
<1>6. CASE u.kind = "Int" /\ v.kind = "Float"
  <2>1. Class(u) = 0 /\ Class(v) = 0 /\ Key(u) = One * u.n /\ Key(v) = v.n
    BY <1>6 DEF Class, Key, Worth, IsNumber
  <2>2. CompareValues(u, v) = IntFloatCompare(u.n, v.n)
    BY <1>6 DEF CompareValues, IsNumber
  <2>3. QED
    BY <1>1, <1>4, <1>6, <2>1, <2>2, IntFloatIsExact
<1>7. CASE u.kind = "Float" /\ v.kind = "Int"
  <2>1. Class(u) = 0 /\ Class(v) = 0 /\ Key(u) = u.n /\ Key(v) = One * v.n
    BY <1>7 DEF Class, Key, Worth, IsNumber
  <2>2. CompareValues(u, v) = -IntFloatCompare(v.n, u.n)
    BY <1>7 DEF CompareValues, IsNumber
  <2>3. IntFloatCompare(v.n, u.n) = Sign(One * v.n - u.n)
    BY <1>1, <1>7, IntFloatIsExact
  <2>4. QED
    BY <1>4, <2>1, <2>2, <2>3 DEF Sign
<1>8. CASE u.kind = "Float" /\ v.kind = "Float"
  <2>1. Class(u) = 0 /\ Class(v) = 0 /\ Key(u) = u.n /\ Key(v) = v.n
    BY <1>8 DEF Class, Key, Worth, IsNumber
  <2>2. CompareValues(u, v) = Sign(u.n - v.n)
    BY <1>8 DEF CompareValues, IsNumber
  <2>3. QED
    BY <1>4, <2>1, <2>2
<1>9. CASE ~IsNumber(u) /\ ~IsNumber(v)
  <2>1. Key(u) = u.n /\ Key(v) = v.n
    BY <1>9 DEF Key
  <2>2. /\ Class(u) = IF u.kind = "Blob" THEN 2 ELSE 1
        /\ Class(v) = IF v.kind = "Blob" THEN 2 ELSE 1
    BY <1>9 DEF Class
  <2>3. CompareValues(u, v) = IF u.kind = v.kind THEN Sign(u.n - v.n)
                              ELSE IF u.kind = "Text" THEN -1 ELSE 1
    BY <1>1, <1>9 DEF CompareValues, IsNumber
  <2>4. QED
    BY <1>1, <1>4, <1>9, <2>1, <2>2, <2>3 DEF Sign, IsNumber
<1>10. CASE ~ (IsNumber(u) <=> IsNumber(v))
  <2>1. CompareValues(u, v) = IF IsNumber(u) THEN -1 ELSE 1
    BY <1>1, <1>10 DEF CompareValues, IsNumber
  <2>2. /\ IsNumber(u) => Class(u) = 0 /\ Class(v) \in {1, 2}
        /\ IsNumber(v) => Class(v) = 0 /\ Class(u) \in {1, 2}
    BY <1>10 DEF Class
  <2>3. QED
    BY <1>4, <1>10, <2>1, <2>2 DEF Sign
<1>11. QED
  BY <1>1, <1>5, <1>6, <1>7, <1>8, <1>9, <1>10 DEF IsNumber

(* compareValues is a total preorder of the values that are not NULL, and   *)
(* orders numbers by their worth, integers and reals together.              *)
THEOREM ComparisonOrders == Spec => []ComparisonIsOrder
<1>1. ASSUME NEW u \in Value, NEW v \in Value, ~IsNull(u), ~IsNull(v)
      PROVE  /\ CompareValues(u, v) = -CompareValues(v, u)
             /\ IsNumber(u) /\ IsNumber(v) => CompareValues(u, v) = Sign(Worth(u) - Worth(v))
  <2>1. CompareValues(u, v) = -CompareValues(v, u)
    BY <1>1, ComparedByKey DEF Sign
  <2>2. IsNumber(u) /\ IsNumber(v) => CompareValues(u, v) = Sign(Worth(u) - Worth(v))
    BY <1>1, ComparedByKey DEF Class, Key
  <2>3. QED
    BY <2>1, <2>2
<1>2. ASSUME NEW u \in Value, NEW v \in Value, NEW w \in Value,
             ~IsNull(u), ~IsNull(v), ~IsNull(w), CompareValues(u, v) <= 0, CompareValues(v, w) <= 0
      PROVE  CompareValues(u, w) <= 0
  BY <1>2, ComparedByKey DEF Sign
<1>3. ASSUME StoredInv PROVE \A k \in Comparable : rows[k] \in Value /\ ~IsNull(rows[k])
  BY <1>3 DEF StoredInv, Comparable
<1>4. StoredInv => ComparisonIsOrder
  BY <1>1, <1>2, <1>3 DEF ComparisonIsOrder
<1>5. QED
  BY <1>4, Stored, PTL

-----------------------------------------------------------------------------
\* The truth values, and what they are as numbers.
Bool3 == {NullV, IntV(0), IntV(1)}

\* What booleanValueOf makes of them: three different answers.
LEMMA Booleans ==
  /\ BooleanValueOf(IntV(0)) = 0 /\ BooleanValueOf(IntV(1)) = 1 /\ BooleanValueOf(NullV) = 2
  /\ IntV(0) # IntV(1) /\ IntV(0) # NullV /\ IntV(1) # NullV
<1>1. ToFloat[0] = 0 /\ ToFloat[1] # 0
  <2>1. One * 0 \in Float64 /\ One * 0 = 0
    BY RealFacts, OneFacts
  <2>2. QED
    BY <2>1, SmallIntegers, ToFloatFacts
<1>2. QED
  BY <1>1 DEF BooleanValueOf, RealValueOf, IntV, NullV, IsNull

\* AND, OR and NOT of the truth values that two values stand for.
LEMMA Tables ==
  ASSUME NEW x \in 0..2, NEW y \in 0..2
  PROVE  /\ Logic(<<0, 0, 0, 0, 1, 2, 0, 2, 2>>, x, y) =
              IF x = 0 \/ y = 0 THEN IntV(0) ELSE IF x = 1 /\ y = 1 THEN IntV(1) ELSE NullV
         /\ Logic(<<0, 1, 2, 1, 1, 1, 2, 1, 2>>, x, y) =
              IF x = 1 \/ y = 1 THEN IntV(1) ELSE IF x = 0 /\ y = 0 THEN IntV(0) ELSE NullV
BY DEF Logic

(* What AND, OR and NOT of any two values are: the Kleene tables of the     *)
(* truth values the operands stand for.                                     *)
LEMMA Connectives ==
  ASSUME NEW u, NEW v
  PROVE  LET x == BooleanValueOf(u)
             y == BooleanValueOf(v)
         IN  /\ x \in 0..2 /\ (x = 2 <=> IsNull(u))
             /\ AndValues(u, v) =
                  IF x = 0 \/ y = 0 THEN IntV(0) ELSE IF x = 1 /\ y = 1 THEN IntV(1) ELSE NullV
             /\ OrValues(u, v) =
                  IF x = 1 \/ y = 1 THEN IntV(1) ELSE IF x = 0 /\ y = 0 THEN IntV(0) ELSE NullV
             /\ NotValue(u) = IF x = 2 THEN NullV ELSE IF x = 0 THEN IntV(1) ELSE IntV(0)
<1>1. /\ BooleanValueOf(u) \in 0..2 /\ (BooleanValueOf(u) = 2 <=> IsNull(u))
      /\ BooleanValueOf(v) \in 0..2
  BY DEF BooleanValueOf
<1>2. QED
  BY <1>1, Tables DEF AndValues, OrValues, NotValue, BoolV

\* A connective answers false, true or unknown, and NOT of it the opposite.
LEMMA TruthAnswers ==
  ASSUME NEW b \in Bool3
  PROVE  /\ BooleanValueOf(b) = IF b = NullV THEN 2 ELSE IF b = IntV(1) THEN 1 ELSE 0
         /\ NotValue(b) = IF b = NullV THEN NullV ELSE IF b = IntV(0) THEN IntV(1) ELSE IntV(0)
         /\ CondTrue(b) <=> b = IntV(1)
         /\ IsNull(b) <=> b = NullV
<1>1. /\ BooleanValueOf(b) = IF b = NullV THEN 2 ELSE IF b = IntV(1) THEN 1 ELSE 0
      /\ NotValue(b) = IF b = NullV THEN NullV ELSE IF b = IntV(0) THEN IntV(1) ELSE IntV(0)
  BY Booleans, Connectives DEF Bool3
<1>2. /\ CondTrue(b) <=> b = IntV(1)
      /\ IsNull(b) <=> b = NullV
  BY DEF Bool3, CondTrue, IsNull, IntV, NullV
<1>3. QED
  BY <1>1, <1>2

\* De Morgan, with NULLs.
LEMMA DeMorgan ==
  ASSUME NEW u, NEW v
  PROVE  /\ AndValues(u, v) \in Bool3 /\ OrValues(u, v) \in Bool3 /\ NotValue(u) \in Bool3
         /\ OrValues(u, v) = NotValue(AndValues(NotValue(u), NotValue(v)))
         /\ NotValue(AndValues(u, v)) = OrValues(NotValue(u), NotValue(v))
<1>1. AndValues(u, v) \in Bool3 /\ OrValues(u, v) \in Bool3 /\ NotValue(u) \in Bool3 /\ NotValue(v) \in Bool3
  BY Connectives DEF Bool3
<1> DEFINE x == BooleanValueOf(u)
           y == BooleanValueOf(v)
           X == BooleanValueOf(NotValue(u))
           Y == BooleanValueOf(NotValue(v))
<1>2. /\ x \in 0..2 /\ y \in 0..2
      /\ X = IF x = 2 THEN 2 ELSE 1 - x
      /\ Y = IF y = 2 THEN 2 ELSE 1 - y
  <2>1. /\ x \in 0..2 /\ NotValue(u) = IF x = 2 THEN NullV ELSE IF x = 0 THEN IntV(1) ELSE IntV(0)
        /\ y \in 0..2 /\ NotValue(v) = IF y = 2 THEN NullV ELSE IF y = 0 THEN IntV(1) ELSE IntV(0)
    BY Connectives
  <2>2. QED
    BY <2>1, Booleans
<1> HIDE DEF x, y, X, Y
<1>3. /\ AndValues(u, v) = IF x = 0 \/ y = 0 THEN IntV(0) ELSE IF x = 1 /\ y = 1 THEN IntV(1) ELSE NullV
      /\ OrValues(u, v) = IF x = 1 \/ y = 1 THEN IntV(1) ELSE IF x = 0 /\ y = 0 THEN IntV(0) ELSE NullV
  BY Connectives DEF x, y
<1>4. /\ AndValues(NotValue(u), NotValue(v)) =
           IF X = 0 \/ Y = 0 THEN IntV(0) ELSE IF X = 1 /\ Y = 1 THEN IntV(1) ELSE NullV
      /\ OrValues(NotValue(u), NotValue(v)) =
           IF X = 1 \/ Y = 1 THEN IntV(1) ELSE IF X = 0 /\ Y = 0 THEN IntV(0) ELSE NullV
  BY Connectives DEF X, Y
<1>5. NotValue(AndValues(NotValue(u), NotValue(v))) =
        LET b == AndValues(NotValue(u), NotValue(v))
        IN  IF b = NullV THEN NullV ELSE IF b = IntV(0) THEN IntV(1) ELSE IntV(0)
  BY <1>4, TruthAnswers DEF Bool3
<1>6. NotValue(AndValues(u, v)) =
        IF AndValues(u, v) = NullV THEN NullV ELSE IF AndValues(u, v) = IntV(0) THEN IntV(1) ELSE IntV(0)
  BY <1>1, TruthAnswers
<1>7. OrValues(u, v) = NotValue(AndValues(NotValue(u), NotValue(v)))
  BY <1>2, <1>3, <1>4, <1>5, Booleans
<1>8. NotValue(AndValues(u, v)) = OrValues(NotValue(u), NotValue(v))
  BY <1>2, <1>3, <1>4, <1>6, Booleans
<1>9. QED
  BY <1>1, <1>7, <1>8

(* IN is the disjunction of the equalities with its items, NULLs included.  *)
LEMMA InDisjunction == InIsDisjunction
<1>1. ASSUME NEW a, NEW b, NEW c, NEW aff
      PROVE  In(a, <<b, c>>, <<aff, aff>>) =
               OrValues(Compare("=", a, b, aff), Compare("=", a, c, aff))
  <2> DEFINE same(v) == CompareValues(Operand(a, aff), Operand(v, aff)) = 0
             eq(v) == IF IsNull(a) \/ IsNull(v) THEN NullV ELSE IF same(v) THEN IntV(1) ELSE IntV(0)
             found == ~IsNull(a) /\ ((~IsNull(b) /\ same(b)) \/ (~IsNull(c) /\ same(c)))
  <2>1. \A v : Compare("=", a, v, aff) = eq(v)
    BY DEF Compare, Holds, BoolV
  <2>2. In(a, <<b, c>>, <<aff, aff>>) =
          IF found THEN IntV(1) ELSE IF IsNull(a) \/ IsNull(b) \/ IsNull(c) THEN NullV ELSE IntV(0)
    <3>1. /\ DOMAIN <<b, c>> = {1, 2} /\ <<b, c>>[1] = b /\ <<b, c>>[2] = c
          /\ <<aff, aff>>[1] = aff /\ <<aff, aff>>[2] = aff
      OBVIOUS
    <3>2. QED
      BY <3>1 DEF In
  <2> HIDE DEF same
  <2>3. eq(b) \in Bool3 /\ eq(c) \in Bool3
    BY DEF Bool3
  <2>4. OrValues(eq(b), eq(c)) =
          IF eq(b) = IntV(1) \/ eq(c) = IntV(1) THEN IntV(1)
          ELSE IF eq(b) = IntV(0) /\ eq(c) = IntV(0) THEN IntV(0) ELSE NullV
    <3> HIDE DEF eq
    <3>1. QED
      BY <2>3, Connectives, TruthAnswers, Booleans DEF Bool3
  <2>5. QED
    BY <2>1, <2>2, <2>4, Booleans
<1>2. QED
  BY <1>1 DEF InIsDisjunction

(* AND, OR and NOT are those of Kleene, NOT BETWEEN is the negation of      *)
(* BETWEEN, IN the disjunction of the equalities with its items, and WHERE   *)
(* and WHERE NOT leave out the same rows: the unknown.                      *)
THEOREM LogicKleene == Spec => []LogicIsKleene
<1>1. ASSUME NEW u, NEW v
      PROVE  Truth(AndValues(u, v)) = (CHOOSE t \in {Truth(u), Truth(v)} : t <= Truth(u) /\ t <= Truth(v))
  <2> DEFINE x == BooleanValueOf(u)
             y == BooleanValueOf(v)
  <2>1. /\ x \in 0..2 /\ y \in 0..2
        /\ AndValues(u, v) = IF x = 0 \/ y = 0 THEN IntV(0) ELSE IF x = 1 /\ y = 1 THEN IntV(1) ELSE NullV
    BY Connectives
  <2>2. /\ Truth(u) = IF x = 0 THEN -1 ELSE IF x = 1 THEN 1 ELSE 0
        /\ Truth(v) = IF y = 0 THEN -1 ELSE IF y = 1 THEN 1 ELSE 0
    BY DEF Truth
  <2>3. Truth(IntV(0)) = -1 /\ Truth(IntV(1)) = 1 /\ Truth(NullV) = 0
    BY Booleans DEF Truth
  <2> HIDE DEF x, y
  <2>4. /\ Truth(u) \in Int /\ Truth(v) \in Int
        /\ Truth(AndValues(u, v)) = IF Truth(u) <= Truth(v) THEN Truth(u) ELSE Truth(v)
    BY <2>1, <2>2, <2>3
  <2>5. QED
    BY <2>4
<1>2. ASSUME NEW c, NEW d
      PROVE  LET between == AndValues(c, d)
             IN  /\ NotValue(between) = OrValues(NotValue(c), NotValue(d))
                 /\ CondTrue(between) => ~CondTrue(NotValue(between))
                 /\ IsNull(between) <=> ~CondTrue(between) /\ ~CondTrue(NotValue(between))
  <2> DEFINE between == AndValues(c, d)
  <2>1. between \in Bool3 /\ NotValue(between) \in Bool3
    BY DeMorgan
  <2>2. NotValue(between) = OrValues(NotValue(c), NotValue(d))
    BY DeMorgan
  <2> HIDE DEF between
  <2>3. /\ CondTrue(between) => ~CondTrue(NotValue(between))
        /\ IsNull(between) <=> ~CondTrue(between) /\ ~CondTrue(NotValue(between))
    BY <2>1, TruthAnswers, Booleans DEF Bool3
  <2>4. QED
    BY <2>2, <2>3 DEF between
<1>3. ASSUME NEW a, NEW low, NEW high, NEW aff
      PROVE  Between(a, low, high, <<aff, aff>>) =
               AndValues(Compare(">=", a, low, aff), Compare("<=", a, high, aff))
  BY DEF Between
<1>4. LogicIsKleene
  <2>1. ASSUME NEW i \in DOMAIN rows, NEW j \in DOMAIN rows
        PROVE  /\ Truth(AndValues(rows[i], rows[j])) = (CHOOSE t \in {Truth(rows[i]), Truth(rows[j])} :
                                                          t <= Truth(rows[i]) /\ t <= Truth(rows[j]))
               /\ OrValues(rows[i], rows[j]) = NotValue(AndValues(NotValue(rows[i]), NotValue(rows[j])))
    BY <1>1, DeMorgan
  <2>2. ASSUME NEW i \in DOMAIN rows, NEW j \in DOMAIN rows, NEW k \in DOMAIN rows
        PROVE  LET between == Between(rows[i], given[j], given[k], <<WithLiteral, WithLiteral>>)
               IN  /\ NotValue(between) =
                        OrValues(NotValue(Compare(">=", rows[i], given[j], WithLiteral)),
                                 NotValue(Compare("<=", rows[i], given[k], WithLiteral)))
                   /\ CondTrue(between) => ~CondTrue(NotValue(between))
                   /\ IsNull(between) <=> ~CondTrue(between) /\ ~CondTrue(NotValue(between))
    BY <1>2, <1>3
  <2>3. QED
    BY <2>1, <2>2, InDisjunction DEF LogicIsKleene
<1>5. QED
  BY <1>4, PTL

-----------------------------------------------------------------------------
\* DISTINCT, step by step.
Rows == Seq(Value)
DedupStep(out, v) == IF \E k \in DOMAIN out : ValsEqual(out[k], v) THEN out ELSE Append(out, v)
Dedups == [x \in Rows \X Value |-> DedupStep(x[1], x[2])]

\* As FoldLeft computes it.
LEMMA DedupFold ==
  ASSUME NEW s \in Rows
  PROVE  Dedup(s) = Folded(Rows, <<>>, Dedups, s)
<1> DEFINE Recursive(iter) == iter = [t \in SUBSET (DOMAIN s) |->
             IF t = {} THEN <<>> ELSE DedupStep(iter[t \ {Max(t)}], s[Max(t)])]
<1>1. /\ s \in Seq(Value) /\ Len(s) \in Nat /\ DOMAIN s = 1..Len(s)
      /\ <<>> \in Rows /\ Dedups \in [Rows \X Value -> Rows]
  BY DEF Rows, Dedups, DedupStep
<1>2. Dedup(s) = (CHOOSE iter : Recursive(iter))[DOMAIN s]
  BY Zenon DEF Dedup, FoldLeft, MapThenFoldSet, DedupStep
<1>3. PICK iter \in [SUBSET (1..Len(s)) -> Rows] : IsFold(iter, <<>>, Dedups, s)
  BY <1>1, FoldExists
<1>4. \A t \in SUBSET (1..Len(s)) : iter[t] =
        IF t = {} THEN <<>> ELSE DedupStep(iter[t \ {Max(t)}], s[Max(t)])
  BY <1>1, <1>3, FoldMeets DEF IsFold, Dedups
<1>5. Recursive(iter)
  BY <1>1, <1>3, <1>4
<1>6. PICK fold : Recursive(fold) /\ Dedup(s) = fold[1..Len(s)]
  BY <1>1, <1>2, <1>5
<1>7. fold[{}] = <<>>
  BY <1>6
<1>8. ASSUME NEW m \in 1..Len(s), NEW x \in Rows, fold[1..(m - 1)] = x
      PROVE  fold[1..m] = Dedups[<<x, s[m]>>]
  <2>1. fold[1..m] = DedupStep(fold[(1..m) \ {Max(1..m)}], s[Max(1..m)])
    BY <1>1, <1>6, PositionsBefore
  <2>2. fold[1..m] = DedupStep(x, s[m])
    BY <1>1, <1>8, <2>1, PositionsBefore
  <2>3. s[m] \in Value
    BY <1>1
  <2>4. QED
    BY <2>2, <2>3 DEF Dedups
<1>9. StepsBy(fold, Rows, <<>>, Dedups, s)
  BY <1>7, <1>8 DEF StepsBy
<1>10. OnAll(fold, s) = Folded(Rows, <<>>, Dedups, s)
  <2>1. <<>> \in Rows /\ Dedups \in [Rows \X Value -> Rows] /\ s \in Seq(Value)
    BY <1>1
  <2>2. QED
    BY ONLY <2>1, <1>9, FoldComesTo, ZenonT(60)
<1>11. QED
  BY <1>6, <1>10 DEF OnAll

\* Row after row.
LEMMA DedupSteps ==
  /\ Dedup(<<>>) = <<>>
  /\ \A s \in Rows, v \in Value : /\ Dedup(s) \in Rows
                                  /\ Dedup(Append(s, v)) = DedupStep(Dedup(s), v)
<1>1. <<>> \in Rows /\ Dedups \in [Rows \X Value -> Rows] /\ Steps(Rows, Value, <<>>, Dedups)
  BY DEF Rows, Dedups, DedupStep, Steps
<1>2. Dedup(<<>>) = <<>>
  <2>1. <<>> \in Seq(Value)
    OBVIOUS
  <2>2. Folded(Rows, <<>>, Dedups, <<>>) = <<>>
    BY <1>1, FoldedEmpty
  <2>3. QED
    BY <1>1, <2>2, DedupFold
<1>3. ASSUME NEW s \in Rows, NEW v \in Value
      PROVE  Dedup(s) \in Rows /\ Dedup(Append(s, v)) = DedupStep(Dedup(s), v)
  <2>1. s \in Seq(Value) /\ Append(s, v) \in Rows
    BY DEF Rows
  <2>2. Folded(Rows, <<>>, Dedups, s) \in Rows
    BY <1>1, <2>1, FoldedIs
  <2>3. Folded(Rows, <<>>, Dedups, Append(s, v)) = Dedups[<<Folded(Rows, <<>>, Dedups, s), v>>]
    BY <1>1, <2>1, FoldedStep
  <2>4. /\ Dedup(s) = Folded(Rows, <<>>, Dedups, s)
        /\ Dedup(Append(s, v)) = Folded(Rows, <<>>, Dedups, Append(s, v))
    BY <2>1, DedupFold
  <2>5. QED
    BY <2>2, <2>3, <2>4 DEF Dedups
<1>4. QED
  BY <1>2, <1>3

-----------------------------------------------------------------------------
(* NULL, numbers, texts, blobs: the order of ORDER BY, which valsEqual and   *)
(* orderCompare agree on.                                                    *)
Rank(v) == IF IsNull(v) THEN -1 ELSE Class(v)
Leq(u, v) == IF Rank(u) = Rank(v) THEN Key(u) <= Key(v) ELSE Rank(u) <= Rank(v)

\* Ranks and keys are numbers, and NULL is alone with its rank.
LEMMA Keys ==
  ASSUME NEW v \in Value
  PROVE  Rank(v) \in -1..2 /\ Key(v) \in Int /\ (Rank(v) = -1 <=> v = NullV) /\ (IsNull(v) <=> v = NullV)
<1>1. IsNull(v) <=> v = NullV
  BY DEF Value, IsNull, NullV
<1>2. CASE IsNull(v)
  BY <1>1, <1>2 DEF Rank, Key, IsNumber, IsNull, NullV
<1>3. CASE ~IsNull(v)
  BY <1>1, <1>3, ComparedByKey DEF Rank
<1>4. QED
  BY <1>2, <1>3

\* orderCompare without and with DESC.
Asc(u, v) == OrderCompare(u, v, FALSE)
Desc(u, v) == OrderCompare(u, v, TRUE)

\* Both directions of orderCompare, and valsEqual, follow from the order.
LEMMA KeysOrder ==
  ASSUME NEW u \in Value, NEW v \in Value
  PROVE  /\ ValsEqual(u, v) <=> Leq(u, v) /\ Leq(v, u)
         /\ Asc(u, v) <= 0 <=> Leq(u, v)
         /\ Asc(u, v) >= 0 <=> Leq(v, u)
         /\ Desc(u, v) <= 0 <=> Leq(v, u)
         /\ Desc(u, v) >= 0 <=> Leq(u, v)
<1>1. /\ Rank(u) \in -1..2 /\ Key(u) \in Int /\ (IsNull(u) <=> u = NullV) /\ (Rank(u) = -1 <=> u = NullV)
      /\ Rank(v) \in -1..2 /\ Key(v) \in Int /\ (IsNull(v) <=> v = NullV) /\ (Rank(v) = -1 <=> v = NullV)
  BY Keys
<1>2. CASE ~IsNull(u) /\ ~IsNull(v)
  <2>1. /\ Rank(u) = Class(u) /\ Rank(v) = Class(v)
        /\ CompareValues(u, v) = IF Rank(u) = Rank(v) THEN Sign(Key(u) - Key(v))
                                 ELSE Sign(Rank(u) - Rank(v))
    BY <1>2, ComparedByKey DEF Rank
  <2>2. /\ Asc(u, v) = CompareValues(u, v)
        /\ Desc(u, v) = -CompareValues(u, v)
        /\ ValsEqual(u, v) <=> CompareValues(u, v) = 0
    <3>1. CompareValues(u, v) \in Int
      BY <1>1, <2>1 DEF Sign
    <3>2. QED
      BY <1>2, <3>1 DEF Asc, Desc, OrderCompare, ValsEqual
  <2>3. /\ CompareValues(u, v) \in Int
        /\ CompareValues(u, v) <= 0 <=> Leq(u, v)
        /\ CompareValues(u, v) >= 0 <=> Leq(v, u)
    <3>1. CASE Rank(u) = Rank(v)
      <4>1. CompareValues(u, v) = Sign(Key(u) - Key(v))
        BY <2>1, <3>1
      <4>2. QED
        BY <1>1, <3>1, <4>1 DEF Leq, Sign
    <3>2. CASE Rank(u) # Rank(v)
      <4>1. CompareValues(u, v) = Sign(Rank(u) - Rank(v))
        BY <2>1, <3>2
      <4>2. QED
        BY <1>1, <3>2, <4>1 DEF Leq, Sign
    <3>3. QED
      BY <3>1, <3>2
  <2>4. ValsEqual(u, v) <=> Leq(u, v) /\ Leq(v, u)
    BY <2>2, <2>3
  <2>5. /\ Asc(u, v) <= 0 <=> Leq(u, v)
        /\ Asc(u, v) >= 0 <=> Leq(v, u)
    BY <2>2, <2>3
  <2>6. /\ Desc(u, v) <= 0 <=> Leq(v, u)
        /\ Desc(u, v) >= 0 <=> Leq(u, v)
    <3>1. PICK c \in Int : c = CompareValues(u, v)
      BY <2>3
    <3>2. Desc(u, v) = -c
      BY <2>2, <3>1
    <3>3. (Desc(u, v) <= 0 <=> c >= 0) /\ (Desc(u, v) >= 0 <=> c <= 0)
      BY <3>2
    <3>4. QED
      BY <2>3, <3>1, <3>3
  <2>7. QED
    BY <2>4, <2>5, <2>6
<1>3. CASE IsNull(u) \/ IsNull(v)
  <2>1. /\ Leq(u, v) <=> IsNull(u)
        /\ Leq(v, u) <=> IsNull(v)
    BY <1>1, <1>3 DEF Leq
  <2>2. CASE IsNull(u) /\ IsNull(v)
    <3>1. Asc(u, v) = 0 /\ Desc(u, v) = 0
      BY <2>2 DEF Asc, Desc, OrderCompare, IsNull
    <3>2. QED
      BY <2>1, <2>2, <3>1 DEF ValsEqual
  <2>3. CASE IsNull(u) /\ ~IsNull(v)
    <3>1. Asc(u, v) = -1 /\ Desc(u, v) = 1
      BY <2>3 DEF Asc, Desc, OrderCompare, IsNull
    <3>2. QED
      BY <2>1, <2>3, <3>1 DEF ValsEqual
  <2>4. CASE ~IsNull(u) /\ IsNull(v)
    <3>1. Asc(u, v) = 1 /\ Desc(u, v) = -1
      BY <2>4 DEF Asc, Desc, OrderCompare, IsNull
    <3>2. QED
      BY <2>1, <2>4, <3>1 DEF ValsEqual
  <2>5. QED
    BY <1>3, <2>2, <2>3, <2>4
<1>4. QED
  BY <1>2, <1>3

\* It is total and transitive.
LEMMA Preorder ==
  ASSUME NEW u \in Value, NEW v \in Value, NEW w \in Value
  PROVE  /\ Leq(u, u)
         /\ Leq(u, v) \/ Leq(v, u)
         /\ Leq(u, v) /\ Leq(v, w) => Leq(u, w)
BY Keys DEF Leq

(* DISTINCT keeps one of every class of equal values, NULL being one of     *)
(* them, whatever the order of the rows (dedupRows).                        *)
THEOREM DistinctExact == Spec => []DistinctIsExact
<1> DEFINE Exact1(s) == \A k \in DOMAIN s : \E j \in DOMAIN Dedup(s) : ValsEqual(Dedup(s)[j], s[k])
           Exact2(s) == \A j, k \in DOMAIN Dedup(s) : j # k => ~ValsEqual(Dedup(s)[j], Dedup(s)[k])
           S == {s \in Rows : Exact1(s) /\ Exact2(s)}
<1>1. <<>> \in S
  BY DedupSteps DEF Rows
<1>2. ASSUME NEW s \in Rows, NEW v \in Value, s \in S PROVE Append(s, v) \in S
  <2> DEFINE sv == Append(s, v)
             d == Dedup(s)
  <2>1. /\ d \in Seq(Value) /\ Dedup(sv) = DedupStep(d, v) /\ sv \in Rows /\ s \in Seq(Value)
        /\ DOMAIN s = 1..Len(s) /\ DOMAIN sv = 1..(Len(s) + 1) /\ sv[Len(s) + 1] = v
        /\ Len(s) \in Nat /\ \A k \in 1..Len(s) : sv[k] = s[k]
    BY DedupSteps DEF Rows
  <2>2. Exact1(s) /\ Exact2(s)
    BY <1>2
  <2> HIDE DEF sv
  <2>3. CASE \E k \in DOMAIN d : ValsEqual(d[k], v)
    <3>1. Dedup(sv) = d
      BY <2>1, <2>3 DEF DedupStep
    <3>2. Exact1(sv)
      BY <2>1, <2>2, <2>3, <3>1
    <3>3. Exact2(sv)
      BY <2>2, <3>1
    <3>4. QED
      BY <2>1, <3>2, <3>3 DEF sv
  <2>4. CASE ~\E k \in DOMAIN d : ValsEqual(d[k], v)
    <3>1. Dedup(sv) = Append(d, v)
      BY <2>1, <2>4 DEF DedupStep
    <3>2. /\ Len(d) \in Nat /\ DOMAIN d = 1..Len(d) /\ DOMAIN Dedup(sv) = 1..(Len(d) + 1)
          /\ Dedup(sv)[Len(d) + 1] = v /\ \A k \in 1..Len(d) : Dedup(sv)[k] = d[k] /\ d[k] \in Value
      BY <2>1, <3>1
    <3>3. ValsEqual(v, v) /\ \A k \in 1..Len(d) : ~ValsEqual(d[k], v) /\ ~ValsEqual(v, d[k])
      <4>1. ValsEqual(v, v)
        BY KeysOrder, Preorder
      <4>2. ASSUME NEW k \in 1..Len(d) PROVE ~ValsEqual(d[k], v) /\ ~ValsEqual(v, d[k])
        BY <2>4, <3>2, KeysOrder
      <4>3. QED
        BY <4>1, <4>2
    <3>4. Exact1(sv)
      <4>1. SUFFICES ASSUME NEW k \in DOMAIN sv
                     PROVE  \E j \in DOMAIN Dedup(sv) : ValsEqual(Dedup(sv)[j], sv[k])
        OBVIOUS
      <4>2. CASE k = Len(s) + 1
        BY <2>1, <3>2, <3>3, <4>2
      <4>3. CASE k \in DOMAIN s
        BY <2>1, <2>2, <3>2, <4>3
      <4>4. QED
        BY <2>1, <4>2, <4>3
    <3>5. Exact2(sv)
      BY <2>2, <3>2, <3>3
    <3>6. QED
      BY <2>1, <3>4, <3>5 DEF sv
  <2>5. QED
    BY <2>3, <2>4
<1>3. Rows \subseteq S
  <2> HIDE DEF S
  <2>1. QED
    BY <1>1, <1>2, ByAppend DEF Rows
<1>4. StoredInv => DistinctIsExact
  BY <1>3 DEF StoredInv, DistinctIsExact, Rows
<1>5. QED
  BY <1>4, Stored, PTL

-----------------------------------------------------------------------------
\* Numbers make values.
LEMMA NumbersAreValues == /\ \A r \in Float64 : FloatV(r) \in Value
                          /\ \A i \in Int64 : IntV(i) \in Value
                          /\ FloatV(NaN) \in Value
<1>1. \A r \in Float64 : FloatV(r) = [kind |-> "Float", n |-> r]
  BY RealFacts
<1>2. \A r \in Float64 : FloatV(r) \in Value
  BY <1>1 DEF Value
<1>3. QED
  BY <1>2 DEF Value, IntV, FloatV

\* What arithmetic takes a value for is a number, and + of two values is a value.
LEMMA SumStays == ASSUME NEW u \in Value, NEW v \in Value PROVE Arith("+", u, v) \in Value
<1>1. CASE IsNull(u) \/ IsNull(v)
  BY <1>1 DEF Arith, Value
<1>2. CASE ~IsNull(u) /\ ~IsNull(v)
  <2>1. ASSUME NEW w \in Value, ~IsNull(w)
        PROVE  /\ NumericTypeOf(w).kind = "Int" => NumericTypeOf(w).n \in Int64
               /\ RealValueOf(w) \in Float64
    <3>1. CASE w.kind = "Int"
      BY <2>1, <3>1, ValueForms, ToFloatFacts DEF NumericTypeOf, RealValueOf
    <3>2. CASE w.kind = "Float"
      BY <2>1, <3>2, ValueForms DEF NumericTypeOf, RealValueOf
    <3>3. CASE w.kind \in {"Text", "Blob"}
      <4>1. LeadingInt(w.n).int \in Int64 /\ LeadingNumber(w.n).real \in Float64
        BY <2>1, <3>3, ValueForms, ReadingAssumption
      <4>2. /\ NumericTypeOf(w) = NumberTaken(LeadingNumber(w.n), LeadingInt(w.n))
            /\ RealValueOf(w) = LeadingNumber(w.n).real
        BY <3>3 DEF NumericTypeOf, RealValueOf
      <4>3. NumericTypeOf(w).kind = "Int" => NumericTypeOf(w) = IntV(LeadingInt(w.n).int)
        BY <4>2 DEF NumberTaken, FloatV, NullV
      <4>4. QED
        BY <4>1, <4>2, <4>3 DEF IntV
    <3>4. QED
      BY <2>1, <3>1, <3>2, <3>3, ValueForms DEF IsNull
  <2>2. CASE NumericTypeOf(u).kind = "Int" /\ NumericTypeOf(v).kind = "Int"
    <3> DEFINE a == NumericTypeOf(u).n
               b == NumericTypeOf(v).n
    <3>1. Arith("+", u, v) = IntMath("+", a, b)
      BY <1>2, <2>2 DEF Arith
    <3>2. a \in Int64 /\ b \in Int64 /\ "+" \in Operator
      BY <1>2, <2>1, <2>2 DEF Operator
    <3> HIDE DEF a, b
    <3>3. \/ Exact("+", a, b) \in Int64 /\ IntMath("+", a, b) = IntV(Exact("+", a, b))
          \/ \E r \in Float64 : IntMath("+", a, b) = FloatV(r)
      BY <3>2, IntMathIsExact
    <3>4. QED
      BY <3>1, <3>3, NumbersAreValues
  <2>3. CASE ~ (NumericTypeOf(u).kind = "Int" /\ NumericTypeOf(v).kind = "Int")
    <3> DEFINE x == RealValueOf(u)
               y == RealValueOf(v)
    <3>1. Arith("+", u, v) = FloatV(RealSum(x, y))
      BY <1>2, <2>3 DEF Arith, RealMath
    <3>2. RealSum(x, y) \in Float64 \union {NaN}
      BY <1>2, <2>1, RealOperations
    <3>3. QED
      BY <3>1, <3>2, NumbersAreValues
  <2>4. QED
    BY <2>2, <2>3
<1>3. QED
  BY <1>1, <1>2

-----------------------------------------------------------------------------
\* SUM, step by step, of any values.
SumStep(acc, v) == Arith("+", acc, v)
Sums == [x \in Value \X Value |-> SumStep(x[1], x[2])]

\* It stays among the values.
LEMMA SumTypes == IntV(0) \in Value /\ Sums \in [Value \X Value -> Value]
<1>1. IntV(0) \in Value
  BY SmallIntegers, NumbersAreValues
<1>2. \A u, v \in Value : SumStep(u, v) \in Value
  BY SumStays DEF SumStep
<1>3. QED
  BY <1>1, <1>2 DEF Sums

\* As FoldLeft computes it.
LEMMA SumFold ==
  ASSUME NEW s \in Seq(Value), s # <<>>
  PROVE  Agg("SUM", s) = Folded(Value, IntV(0), Sums, s)
<1> DEFINE Recursive(iter) == iter = [t \in SUBSET (DOMAIN s) |->
             IF t = {} THEN IntV(0) ELSE SumStep(iter[t \ {Max(t)}], s[Max(t)])]
<1>1. /\ Len(s) \in Nat /\ DOMAIN s = 1..Len(s)
      /\ IntV(0) \in Value /\ Sums \in [Value \X Value -> Value]
  BY SumTypes
<1>2. Agg("SUM", s) = (CHOOSE iter : Recursive(iter))[DOMAIN s]
  BY Zenon DEF Agg, SumStep, FoldLeft, MapThenFoldSet
<1>3. PICK iter \in [SUBSET (1..Len(s)) -> Value] : IsFold(iter, IntV(0), Sums, s)
  BY <1>1, FoldExists
<1>4. \A t \in SUBSET (1..Len(s)) : iter[t] =
        IF t = {} THEN IntV(0) ELSE SumStep(iter[t \ {Max(t)}], s[Max(t)])
  BY <1>1, <1>3, FoldMeets DEF IsFold, Sums
<1>5. Recursive(iter)
  BY <1>1, <1>3, <1>4
<1>6. PICK fold : Recursive(fold) /\ Agg("SUM", s) = fold[1..Len(s)]
  BY <1>1, <1>2, <1>5
<1>7. fold[{}] = IntV(0)
  BY <1>6
<1>8. ASSUME NEW m \in 1..Len(s), NEW x \in Value, fold[1..(m - 1)] = x
      PROVE  fold[1..m] = Sums[<<x, s[m]>>]
  <2>1. fold[1..m] = SumStep(fold[(1..m) \ {Max(1..m)}], s[Max(1..m)])
    BY <1>1, <1>6, PositionsBefore
  <2>2. fold[1..m] = SumStep(x, s[m])
    BY <1>1, <1>8, <2>1, PositionsBefore
  <2>3. s[m] \in Value
    BY <1>1
  <2>4. QED
    BY <2>2, <2>3 DEF Sums
<1>9. StepsBy(fold, Value, IntV(0), Sums, s)
  BY <1>7, <1>8 DEF StepsBy
<1>10. OnAll(fold, s) = Folded(Value, IntV(0), Sums, s)
  <2>1. IntV(0) \in Value /\ Sums \in [Value \X Value -> Value] /\ s \in Seq(Value)
    BY <1>1
  <2>2. QED
    BY ONLY <2>1, <1>9, FoldComesTo, ZenonT(60)
<1>11. QED
  BY <1>6, <1>10 DEF OnAll

\* The arguments of an aggregate that ignores NULL, without DISTINCT.
Args(s) == AggArgs(s, FALSE)
ArgStep(out, v) == IF IsNull(v) THEN out ELSE Append(out, v)
ArgSteps == [x \in Rows \X Value |-> ArgStep(x[1], x[2])]

\* As FoldLeft computes it.
LEMMA ArgsFold ==
  ASSUME NEW s \in Seq(Value)
  PROVE  Args(s) = Folded(Rows, <<>>, ArgSteps, s)
<1> DEFINE Recursive(iter) == iter = [t \in SUBSET (DOMAIN s) |->
             IF t = {} THEN <<>> ELSE ArgStep(iter[t \ {Max(t)}], s[Max(t)])]
<1>1. /\ Len(s) \in Nat /\ DOMAIN s = 1..Len(s)
      /\ <<>> \in Rows /\ ArgSteps \in [Rows \X Value -> Rows]
  BY DEF Rows, ArgSteps, ArgStep
<1>2. Args(s) = (CHOOSE iter : Recursive(iter))[DOMAIN s]
  BY Zenon DEF Args, AggArgs, ArgStep, FoldLeft, MapThenFoldSet
<1>3. PICK iter \in [SUBSET (1..Len(s)) -> Rows] : IsFold(iter, <<>>, ArgSteps, s)
  BY <1>1, FoldExists
<1>4. \A t \in SUBSET (1..Len(s)) : iter[t] =
        IF t = {} THEN <<>> ELSE ArgStep(iter[t \ {Max(t)}], s[Max(t)])
  BY <1>1, <1>3, FoldMeets DEF IsFold, ArgSteps
<1>5. Recursive(iter)
  BY <1>1, <1>3, <1>4
<1>6. PICK fold : Recursive(fold) /\ Args(s) = fold[1..Len(s)]
  BY <1>1, <1>2, <1>5
<1>7. fold[{}] = <<>>
  BY <1>6
<1>8. ASSUME NEW m \in 1..Len(s), NEW x \in Rows, fold[1..(m - 1)] = x
      PROVE  fold[1..m] = ArgSteps[<<x, s[m]>>]
  <2>1. fold[1..m] = ArgStep(fold[(1..m) \ {Max(1..m)}], s[Max(1..m)])
    BY <1>1, <1>6, PositionsBefore
  <2>2. fold[1..m] = ArgStep(x, s[m])
    BY <1>1, <1>8, <2>1, PositionsBefore
  <2>3. s[m] \in Value
    BY <1>1
  <2>4. QED
    BY <2>2, <2>3 DEF ArgSteps
<1>9. StepsBy(fold, Rows, <<>>, ArgSteps, s)
  BY <1>7, <1>8 DEF StepsBy
<1>10. OnAll(fold, s) = Folded(Rows, <<>>, ArgSteps, s)
  <2>1. <<>> \in Rows /\ ArgSteps \in [Rows \X Value -> Rows] /\ s \in Seq(Value)
    BY <1>1
  <2>2. QED
    BY ONLY <2>1, <1>9, FoldComesTo, ZenonT(60)
<1>11. QED
  BY <1>6, <1>10 DEF OnAll

\* Row after row.
LEMMA ArgsSteps ==
  /\ Args(<<>>) = <<>>
  /\ \A s \in Seq(Value), v \in Value :
       Args(s) \in Rows /\ Args(Append(s, v)) = ArgStep(Args(s), v)
<1>1. /\ <<>> \in Seq(Value) /\ <<>> \in Rows
      /\ ArgSteps \in [Rows \X Value -> Rows]
      /\ Steps(Rows, Value, <<>>, ArgSteps)
  BY DEF Rows, ArgSteps, ArgStep, Steps
<1>2. Args(<<>>) = <<>>
  <2>1. Folded(Rows, <<>>, ArgSteps, <<>>) = <<>>
    BY <1>1, FoldedEmpty
  <2>2. QED
    BY <1>1, <2>1, ArgsFold
<1>3. ASSUME NEW s \in Seq(Value), NEW v \in Value
      PROVE  Args(s) \in Rows /\ Args(Append(s, v)) = ArgStep(Args(s), v)
  <2>1. Append(s, v) \in Seq(Value)
    OBVIOUS
  <2>2. Folded(Rows, <<>>, ArgSteps, s) \in Rows
    BY <1>1, <2>1, FoldedIs
  <2>3. Folded(Rows, <<>>, ArgSteps, Append(s, v)) = ArgSteps[<<Folded(Rows, <<>>, ArgSteps, s), v>>]
    BY <1>1, <2>1, FoldedStep
  <2>4. /\ Args(s) = Folded(Rows, <<>>, ArgSteps, s)
        /\ Args(Append(s, v)) = Folded(Rows, <<>>, ArgSteps, Append(s, v))
    BY <2>1, ArgsFold
  <2>5. QED
    BY <2>2, <2>3, <2>4 DEF ArgSteps
<1>4. QED
  BY <1>2, <1>3

(* What is stored can be summed up: the sum of a column is a value that the   *)
(* next operation can be done with, an infinity or NULL at worst.            *)
THEOREM QueryTyped == Spec => []QueryTypeOK
<1>1. ASSUME NEW s \in Seq(Value) PROVE Agg("SUM", s) \in Value
  <2>1. CASE s = <<>>
    BY <2>1 DEF Agg, Value
  <2>2. CASE s # <<>>
    <3>1. IntV(0) \in Value /\ Sums \in [Value \X Value -> Value]
      BY SumTypes
    <3>2. Folded(Value, IntV(0), Sums, s) \in Value
      BY <3>1, FoldedIs
    <3>3. QED
      BY <2>2, <3>2, SumFold
  <2>3. QED
    BY <2>1, <2>2
<1>2. StoredInv => QueryTypeOK
  <2>1. SUFFICES ASSUME StoredInv PROVE QueryTypeOK
    OBVIOUS
  <2>2. rows \in Seq(Value) /\ Len(rows) = Len(given)
    BY <2>1 DEF StoredInv
  <2>3. Args(rows) \in Seq(Value)
    <3>1. Append(rows, NullV) \in Seq(Value) /\ NullV \in Value
      BY <2>2 DEF Value
    <3>2. QED
      BY <2>2, <3>1, ArgsSteps DEF Rows
  <2>4. Agg("SUM", Args(rows)) \in Value
    BY <1>1, <2>3
  <2>5. Args(rows) = AggArgs(rows, FALSE)
    BY Zenon DEF Args
  <2>6. QED
    BY <2>2, <2>4, <2>5 DEF QueryTypeOK
<1>3. QED
  BY <1>2, Stored, PTL

-----------------------------------------------------------------------------
\* What a value inserted behind the first k others does to a sequence.
LEMMA InsertedIn ==
  ASSUME NEW E, NEW s \in Seq(E), NEW v \in E, NEW k \in 0..Len(s)
  PROVE  /\ InsertAt(s, k + 1, v) \in Seq(E)
         /\ Len(InsertAt(s, k + 1, v)) = Len(s) + 1
         /\ \A j \in 1..(Len(s) + 1) : InsertAt(s, k + 1, v)[j] =
              IF j <= k THEN s[j] ELSE IF j = k + 1 THEN v ELSE s[j - 1]
         /\ InsertAt(s, k + 1, v) = Append(SubSeq(s, 1, k), v) \o SubSeq(s, k + 1, Len(s))
         /\ s = SubSeq(s, 1, k) \o SubSeq(s, k + 1, Len(s))
<1> DEFINE p == SubSeq(s, 1, k)
           q == SubSeq(s, k + 1, Len(s))
<1>1. /\ s \in Seq(E) /\ Len(s) \in Nat /\ k \in Nat /\ k <= Len(s)
      /\ p \in Seq(E) /\ Len(p) = k /\ \A j \in 1..k : p[j] = s[j]
      /\ q \in Seq(E) /\ Len(q) = Len(s) - k /\ \A j \in 1..(Len(s) - k) : q[j] = s[j + k]
  OBVIOUS
<1>2. InsertAt(s, k + 1, v) = (p \o <<v>>) \o q
  <2>1. (k + 1) - 1 = k
    BY <1>1
  <2>2. QED
    BY <2>1 DEF InsertAt
<1> HIDE DEF p, q
<1>3. p \o <<v>> = Append(p, v)
  BY <1>1
<1>4. /\ Append(p, v) \in Seq(E) /\ Len(Append(p, v)) = k + 1
      /\ Append(p, v)[k + 1] = v /\ \A j \in 1..k : Append(p, v)[j] = s[j]
  BY <1>1
<1> DEFINE pv == Append(p, v)
<1>5. /\ pv \o q \in Seq(E) /\ Len(pv \o q) = Len(s) + 1
      /\ \A j \in 1..(k + 1) : (pv \o q)[j] = pv[j]
      /\ \A j \in (k + 2)..(Len(s) + 1) : (pv \o q)[j] = s[j - 1]
  <2>1. pv \o q \in Seq(E) /\ Len(pv \o q) = Len(s) + 1
    BY <1>1, <1>4
  <2>2. \A j \in 1..(k + 1) : (pv \o q)[j] = pv[j]
    BY <1>1, <1>4
  <2>3. ASSUME NEW j \in (k + 2)..(Len(s) + 1) PROVE (pv \o q)[j] = s[j - 1]
    <3>1. (pv \o q)[j] = q[j - (k + 1)] /\ j - (k + 1) \in 1..(Len(s) - k)
      BY <1>1, <1>4
    <3>2. QED
      BY <1>1, <3>1
  <2>4. QED
    BY <2>1, <2>2, <2>3
<1>6. s = p \o q
  <2>1. p \o q \in Seq(E) /\ Len(p \o q) = Len(s)
    BY <1>1
  <2>2. ASSUME NEW j \in 1..Len(s) PROVE (p \o q)[j] = s[j]
    <3>1. CASE j <= k
      BY <1>1, <3>1
    <3>2. CASE j > k
      <4>1. (p \o q)[j] = q[j - k] /\ j - k \in 1..(Len(s) - k)
        BY <1>1, <3>2
      <4>2. QED
        BY <1>1, <4>1
    <3>3. QED
      BY <1>1, <3>1, <3>2
  <2>3. QED
    BY <1>1, <2>1, <2>2, SeqEqual
<1>7. InsertAt(s, k + 1, v) = pv \o q
  BY <1>2, <1>3
<1>8. ASSUME NEW j \in 1..(Len(s) + 1)
      PROVE  InsertAt(s, k + 1, v)[j] = IF j <= k THEN s[j] ELSE IF j = k + 1 THEN v ELSE s[j - 1]
  <2>1. j \in 1..(k + 1) \/ j \in (k + 2)..(Len(s) + 1)
    BY <1>1
  <2>2. \A i \in 1..k : pv[i] = s[i]
    BY <1>4
  <2>3. pv[k + 1] = v
    BY <1>4
  <2> HIDE DEF pv
  <2>4. CASE j \in 1..(k + 1)
    <3>1. InsertAt(s, k + 1, v)[j] = pv[j]
      BY <1>5, <1>7, <2>4
    <3>2. CASE j <= k
      <4>1. j \in 1..k
        BY <1>1, <2>4, <3>2
      <4>2. QED
        BY <2>2, <3>1, <3>2, <4>1
    <3>3. CASE ~(j <= k)
      <4>1. j = k + 1
        BY <1>1, <2>4, <3>3
      <4>2. QED
        BY <2>3, <3>1, <3>3, <4>1
    <3>4. QED
      BY <3>2, <3>3
  <2>5. CASE j \in (k + 2)..(Len(s) + 1)
    <3>1. InsertAt(s, k + 1, v)[j] = s[j - 1]
      BY <1>5, <1>7, <2>5
    <3>2. ~(j <= k) /\ j # k + 1
      BY <1>1, <2>5
    <3>3. QED
      BY <3>1, <3>2
  <2>6. QED
    BY <2>1, <2>4, <2>5
<1>9. InsertAt(s, k + 1, v) \in Seq(E) /\ Len(InsertAt(s, k + 1, v)) = Len(s) + 1
  BY <1>5, <1>7
<1>10. QED
  BY <1>6, <1>7, <1>8, <1>9 DEF p, q

\* The same of rows of values.
LEMMA Inserted ==
  ASSUME NEW s \in Rows, NEW v \in Value, NEW k \in 0..Len(s)
  PROVE  /\ InsertAt(s, k + 1, v) \in Rows
         /\ Len(InsertAt(s, k + 1, v)) = Len(s) + 1
         /\ \A j \in 1..(Len(s) + 1) : InsertAt(s, k + 1, v)[j] =
              IF j <= k THEN s[j] ELSE IF j = k + 1 THEN v ELSE s[j - 1]
         /\ InsertAt(s, k + 1, v) = Append(SubSeq(s, 1, k), v) \o SubSeq(s, k + 1, Len(s))
         /\ s = SubSeq(s, 1, k) \o SubSeq(s, k + 1, Len(s))
BY InsertedIn, Zenon DEF Rows

(* A set of positions that has with each also those before it is as large   *)
(* as its largest.                                                          *)
LEMMA Downward ==
  ASSUME NEW n \in Nat, NEW T \in SUBSET (1..n), \A j \in T, i \in 1..n : i <= j => i \in T
  PROVE  Cardinality(T) \in 0..n /\ T = 1..Cardinality(T)
<1>1. \E k \in 0..n : T = 1..k
  <2>1. CASE T = {}
    <3>1. T = 1..0
      BY <2>1
    <3>2. QED
      BY <3>1
  <2>2. CASE T # {}
    <3>1. PICK m \in T : \A i \in T : i <= m
      BY <2>2, LargestIn
    <3>2. T = 1..m
      <4>1. \A i \in T : i \in 1..n /\ i <= m
        BY <3>1
      <4>2. \A i \in 1..m : i \in 1..n /\ i <= m
        BY <4>1
      <4>3. \A i \in 1..m : i \in T
        BY <3>1, <4>2
      <4>4. \A i \in T : i \in 1..m
        BY <4>1
      <4>5. QED
        BY <4>3, <4>4
    <3>3. QED
      BY <3>1, <3>2
  <2>3. QED
    BY <2>1, <2>2
<1>2. \A k \in 0..n : Cardinality(1..k) = k
  BY FS_Interval
<1>3. QED
  BY <1>1, <1>2

-----------------------------------------------------------------------------
\* ORDER BY, step by step: every value goes behind those it does not precede.
AscPlace(sorted, v) == Cardinality({j \in DOMAIN sorted : Asc(v, sorted[j]) >= 0})
AscStep(sorted, v) == InsertAt(sorted, AscPlace(sorted, v) + 1, v)
Ascents == [x \in Rows \X Value |-> AscStep(x[1], x[2])]
AscBy(s) == OrderBy(s, FALSE)

\* With DESC.
DescPlace(sorted, v) == Cardinality({j \in DOMAIN sorted : Desc(v, sorted[j]) >= 0})
DescStep(sorted, v) == InsertAt(sorted, DescPlace(sorted, v) + 1, v)
Descents == [x \in Rows \X Value |-> DescStep(x[1], x[2])]
DescBy(s) == OrderBy(s, TRUE)

\* Both insert the value into the rows so far.
LEMMA OrderTypes ==
  /\ <<>> \in Rows /\ Ascents \in [Rows \X Value -> Rows] /\ Descents \in [Rows \X Value -> Rows]
  /\ Steps(Rows, Value, <<>>, Ascents) /\ Steps(Rows, Value, <<>>, Descents)
<1>1. ASSUME NEW s \in Rows, NEW T \in SUBSET DOMAIN s
      PROVE  Cardinality(T) \in 0..Len(s)
  <2>1. Len(s) \in Nat /\ DOMAIN s = 1..Len(s) /\ 1 \in Int /\ Len(s) \in Int
    BY DEF Rows
  <2>2. IsFiniteSet(1..Len(s)) /\ Cardinality(1..Len(s)) = Len(s)
    BY <2>1, FS_Interval
  <2>3. IsFiniteSet(T) /\ Cardinality(T) <= Len(s)
    BY <2>1, <2>2, FS_Subset
  <2>4. Cardinality(T) \in Nat
    BY <2>3, FS_CardinalityType
  <2>5. QED
    BY <2>1, <2>3, <2>4
<1>2. ASSUME NEW s \in Rows, NEW v \in Value
      PROVE  AscStep(s, v) \in Rows /\ DescStep(s, v) \in Rows
  <2>1. AscPlace(s, v) \in 0..Len(s) /\ DescPlace(s, v) \in 0..Len(s)
    BY <1>1 DEF AscPlace, DescPlace
  <2>2. QED
    BY <2>1, Inserted DEF AscStep, DescStep
<1>3. <<>> \in Rows
  BY DEF Rows
<1>4. QED
  BY <1>2, <1>3 DEF Ascents, Descents, Steps

\* As FoldLeft computes it.
LEMMA AscFold ==
  ASSUME NEW s \in Seq(Value)
  PROVE  AscBy(s) = Folded(Rows, <<>>, Ascents, s)
<1> DEFINE Recursive(iter) == iter = [t \in SUBSET (DOMAIN s) |->
             IF t = {} THEN <<>> ELSE AscStep(iter[t \ {Max(t)}], s[Max(t)])]
<1>1. /\ Len(s) \in Nat /\ DOMAIN s = 1..Len(s)
      /\ <<>> \in Rows /\ Ascents \in [Rows \X Value -> Rows]
  BY OrderTypes
<1>2. AscBy(s) = (CHOOSE iter : Recursive(iter))[DOMAIN s]
  BY Zenon DEF AscBy, OrderBy, AscStep, AscPlace, Asc, FoldLeft, MapThenFoldSet
<1>3. PICK iter \in [SUBSET (1..Len(s)) -> Rows] : IsFold(iter, <<>>, Ascents, s)
  BY <1>1, FoldExists
<1>4. \A t \in SUBSET (1..Len(s)) : iter[t] =
        IF t = {} THEN <<>> ELSE AscStep(iter[t \ {Max(t)}], s[Max(t)])
  BY <1>1, <1>3, FoldMeets DEF IsFold, Ascents
<1>5. Recursive(iter)
  BY <1>1, <1>3, <1>4
<1>6. PICK fold : Recursive(fold) /\ AscBy(s) = fold[1..Len(s)]
  BY <1>1, <1>2, <1>5
<1>7. fold[{}] = <<>>
  BY <1>6
<1>8. ASSUME NEW m \in 1..Len(s), NEW x \in Rows, fold[1..(m - 1)] = x
      PROVE  fold[1..m] = Ascents[<<x, s[m]>>]
  <2>1. fold[1..m] = AscStep(fold[(1..m) \ {Max(1..m)}], s[Max(1..m)])
    BY <1>1, <1>6, PositionsBefore
  <2>2. fold[1..m] = AscStep(x, s[m])
    BY <1>1, <1>8, <2>1, PositionsBefore
  <2>3. s[m] \in Value
    BY <1>1
  <2>4. QED
    BY <2>2, <2>3 DEF Ascents
<1>9. StepsBy(fold, Rows, <<>>, Ascents, s)
  BY <1>7, <1>8 DEF StepsBy
<1>10. OnAll(fold, s) = Folded(Rows, <<>>, Ascents, s)
  <2> HIDE DEF Recursive
  <2>1. QED
    BY <1>1, <1>9, FoldComesTo
<1>11. QED
  BY <1>6, <1>10 DEF OnAll

\* Row after row.
LEMMA AscSteps ==
  /\ AscBy(<<>>) = <<>>
  /\ \A s \in Seq(Value), v \in Value :
       AscBy(s) \in Rows /\ AscBy(Append(s, v)) = AscStep(AscBy(s), v)
<1>1. /\ <<>> \in Seq(Value) /\ <<>> \in Rows
      /\ Ascents \in [Rows \X Value -> Rows]
      /\ Steps(Rows, Value, <<>>, Ascents)
  BY OrderTypes
<1>2. AscBy(<<>>) = <<>>
  <2>1. Folded(Rows, <<>>, Ascents, <<>>) = <<>>
    BY <1>1, FoldedEmpty
  <2>2. QED
    BY <1>1, <2>1, AscFold
<1>3. ASSUME NEW s \in Seq(Value), NEW v \in Value
      PROVE  AscBy(s) \in Rows /\ AscBy(Append(s, v)) = AscStep(AscBy(s), v)
  <2>1. Append(s, v) \in Seq(Value)
    OBVIOUS
  <2>2. Folded(Rows, <<>>, Ascents, s) \in Rows
    BY <1>1, <2>1, FoldedIs
  <2>3. Folded(Rows, <<>>, Ascents, Append(s, v)) = Ascents[<<Folded(Rows, <<>>, Ascents, s), v>>]
    BY <1>1, <2>1, FoldedStep
  <2>4. /\ AscBy(s) = Folded(Rows, <<>>, Ascents, s)
        /\ AscBy(Append(s, v)) = Folded(Rows, <<>>, Ascents, Append(s, v))
    BY <2>1, AscFold
  <2>5. QED
    BY <2>2, <2>3, <2>4 DEF Ascents
<1>4. QED
  BY <1>2, <1>3

\* The same with DESC.
LEMMA DescFold ==
  ASSUME NEW s \in Seq(Value)
  PROVE  DescBy(s) = Folded(Rows, <<>>, Descents, s)
<1> DEFINE Recursive(iter) == iter = [t \in SUBSET (DOMAIN s) |->
             IF t = {} THEN <<>> ELSE DescStep(iter[t \ {Max(t)}], s[Max(t)])]
<1>1. /\ Len(s) \in Nat /\ DOMAIN s = 1..Len(s)
      /\ <<>> \in Rows /\ Descents \in [Rows \X Value -> Rows]
  BY OrderTypes
<1>2. DescBy(s) = (CHOOSE iter : Recursive(iter))[DOMAIN s]
  BY Zenon DEF DescBy, OrderBy, DescStep, DescPlace, Desc, FoldLeft, MapThenFoldSet
<1>3. PICK iter \in [SUBSET (1..Len(s)) -> Rows] : IsFold(iter, <<>>, Descents, s)
  BY <1>1, FoldExists
<1>4. \A t \in SUBSET (1..Len(s)) : iter[t] =
        IF t = {} THEN <<>> ELSE DescStep(iter[t \ {Max(t)}], s[Max(t)])
  BY <1>1, <1>3, FoldMeets DEF IsFold, Descents
<1>5. Recursive(iter)
  BY <1>1, <1>3, <1>4
<1>6. PICK fold : Recursive(fold) /\ DescBy(s) = fold[1..Len(s)]
  BY <1>1, <1>2, <1>5
<1>7. fold[{}] = <<>>
  BY <1>6
<1>8. ASSUME NEW m \in 1..Len(s), NEW x \in Rows, fold[1..(m - 1)] = x
      PROVE  fold[1..m] = Descents[<<x, s[m]>>]
  <2>1. fold[1..m] = DescStep(fold[(1..m) \ {Max(1..m)}], s[Max(1..m)])
    BY <1>1, <1>6, PositionsBefore
  <2>2. fold[1..m] = DescStep(x, s[m])
    BY <1>1, <1>8, <2>1, PositionsBefore
  <2>3. s[m] \in Value
    BY <1>1
  <2>4. QED
    BY <2>2, <2>3 DEF Descents
<1>9. StepsBy(fold, Rows, <<>>, Descents, s)
  BY <1>7, <1>8 DEF StepsBy
<1>10. OnAll(fold, s) = Folded(Rows, <<>>, Descents, s)
  <2> HIDE DEF Recursive
  <2>1. QED
    BY <1>1, <1>9, FoldComesTo
<1>11. QED
  BY <1>6, <1>10 DEF OnAll

\* Row after row.
LEMMA DescSteps ==
  /\ DescBy(<<>>) = <<>>
  /\ \A s \in Seq(Value), v \in Value :
       DescBy(s) \in Rows /\ DescBy(Append(s, v)) = DescStep(DescBy(s), v)
<1>1. /\ <<>> \in Seq(Value) /\ <<>> \in Rows
      /\ Descents \in [Rows \X Value -> Rows]
      /\ Steps(Rows, Value, <<>>, Descents)
  BY OrderTypes
<1>2. DescBy(<<>>) = <<>>
  <2>1. Folded(Rows, <<>>, Descents, <<>>) = <<>>
    BY <1>1, FoldedEmpty
  <2>2. QED
    BY <1>1, <2>1, DescFold
<1>3. ASSUME NEW s \in Seq(Value), NEW v \in Value
      PROVE  DescBy(s) \in Rows /\ DescBy(Append(s, v)) = DescStep(DescBy(s), v)
  <2>1. Append(s, v) \in Seq(Value)
    OBVIOUS
  <2>2. Folded(Rows, <<>>, Descents, s) \in Rows
    BY <1>1, <2>1, FoldedIs
  <2>3. Folded(Rows, <<>>, Descents, Append(s, v)) = Descents[<<Folded(Rows, <<>>, Descents, s), v>>]
    BY <1>1, <2>1, FoldedStep
  <2>4. /\ DescBy(s) = Folded(Rows, <<>>, Descents, s)
        /\ DescBy(Append(s, v)) = Folded(Rows, <<>>, Descents, Append(s, v))
    BY <2>1, DescFold
  <2>5. QED
    BY <2>2, <2>3, <2>4 DEF Descents
<1>4. QED
  BY <1>2, <1>3

\* The values equal to w, step by step.
EqualStep(w, out, u) == IF ValsEqual(u, w) THEN Append(out, u) ELSE out
EqualSteps(w) == [x \in Rows \X Value |-> EqualStep(w, x[1], x[2])]

\* As FoldLeft computes it.
LEMMA EqualsFold ==
  ASSUME NEW w, NEW s \in Seq(Value)
  PROVE  EqualsOf(s, w) = Folded(Rows, <<>>, EqualSteps(w), s)
<1> DEFINE Recursive(iter) == iter = [t \in SUBSET (DOMAIN s) |->
             IF t = {} THEN <<>> ELSE EqualStep(w, iter[t \ {Max(t)}], s[Max(t)])]
<1>1. /\ Len(s) \in Nat /\ DOMAIN s = 1..Len(s)
      /\ <<>> \in Rows /\ EqualSteps(w) \in [Rows \X Value -> Rows]
  BY DEF Rows, EqualSteps, EqualStep
<1>2. EqualsOf(s, w) = (CHOOSE iter : Recursive(iter))[DOMAIN s]
  BY Zenon DEF EqualsOf, EqualStep, FoldLeft, MapThenFoldSet
<1>3. PICK iter \in [SUBSET (1..Len(s)) -> Rows] : IsFold(iter, <<>>, EqualSteps(w), s)
  BY <1>1, FoldExists
<1>4. \A t \in SUBSET (1..Len(s)) : iter[t] =
        IF t = {} THEN <<>> ELSE EqualStep(w, iter[t \ {Max(t)}], s[Max(t)])
  BY <1>1, <1>3, FoldMeets DEF IsFold, EqualSteps
<1>5. Recursive(iter)
  BY <1>1, <1>3, <1>4
<1>6. PICK fold : Recursive(fold) /\ EqualsOf(s, w) = fold[1..Len(s)]
  BY <1>1, <1>2, <1>5
<1>7. fold[{}] = <<>>
  BY <1>6
<1>8. ASSUME NEW m \in 1..Len(s), NEW x \in Rows, fold[1..(m - 1)] = x
      PROVE  fold[1..m] = EqualSteps(w)[<<x, s[m]>>]
  <2>1. fold[1..m] = EqualStep(w, fold[(1..m) \ {Max(1..m)}], s[Max(1..m)])
    BY <1>1, <1>6, PositionsBefore
  <2>2. fold[1..m] = EqualStep(w, x, s[m])
    BY <1>1, <1>8, <2>1, PositionsBefore
  <2>3. s[m] \in Value
    BY <1>1
  <2>4. QED
    BY <2>2, <2>3 DEF EqualSteps
<1>9. StepsBy(fold, Rows, <<>>, EqualSteps(w), s)
  BY <1>7, <1>8 DEF StepsBy
<1>10. OnAll(fold, s) = Folded(Rows, <<>>, EqualSteps(w), s)
  <2> HIDE DEF Recursive
  <2>1. QED
    BY <1>1, <1>9, FoldComesTo
<1>11. QED
  BY <1>6, <1>10 DEF OnAll

\* Row after row.
LEMMA EqualsSteps ==
  ASSUME NEW w
  PROVE  /\ EqualsOf(<<>>, w) = <<>>
         /\ \A s \in Seq(Value), v \in Value :
              EqualsOf(s, w) \in Rows /\ EqualsOf(Append(s, v), w) = EqualStep(w, EqualsOf(s, w), v)
<1>1. /\ <<>> \in Seq(Value) /\ <<>> \in Rows
      /\ EqualSteps(w) \in [Rows \X Value -> Rows]
      /\ Steps(Rows, Value, <<>>, EqualSteps(w))
  BY DEF Rows, EqualSteps, EqualStep, Steps
<1>2. EqualsOf(<<>>, w) = <<>>
  <2>1. Folded(Rows, <<>>, EqualSteps(w), <<>>) = <<>>
    BY <1>1, FoldedEmpty
  <2>2. QED
    BY <1>1, <2>1, EqualsFold
<1>3. ASSUME NEW s \in Seq(Value), NEW v \in Value
      PROVE  EqualsOf(s, w) \in Rows /\ EqualsOf(Append(s, v), w) = EqualStep(w, EqualsOf(s, w), v)
  <2>1. Append(s, v) \in Seq(Value)
    OBVIOUS
  <2>2. Folded(Rows, <<>>, EqualSteps(w), s) \in Rows
    BY <1>1, <2>1, FoldedIs
  <2>3. Folded(Rows, <<>>, EqualSteps(w), Append(s, v)) =
          EqualSteps(w)[<<Folded(Rows, <<>>, EqualSteps(w), s), v>>]
    BY <1>1, <2>1, FoldedStep
  <2>4. /\ EqualsOf(s, w) = Folded(Rows, <<>>, EqualSteps(w), s)
        /\ EqualsOf(Append(s, v), w) = Folded(Rows, <<>>, EqualSteps(w), Append(s, v))
    BY <2>1, EqualsFold
  <2>5. QED
    BY <2>2, <2>3, <2>4 DEF EqualSteps
<1>4. QED
  BY <1>2, <1>3

(* The order, upwards and downwards, as relations, so that what holds of     *)
(* both is proved once.                                                     *)
Upward == {p \in Value \X Value : Leq(p[1], p[2])}
Downwards == {p \in Value \X Value : Leq(p[2], p[1])}
TotalPreorder(R, E) == \A u, v, w \in E : /\ <<u, u>> \in R
                                          /\ <<u, v>> \in R \/ <<v, u>> \in R
                                          /\ <<u, v>> \in R /\ <<v, w>> \in R => <<u, w>> \in R
InOrder(R, s) == \A j, k \in 1..Len(s) : j < k => <<s[j], s[k]>> \in R
Place(R, s, v) == Cardinality({j \in 1..Len(s) : <<s[j], v>> \in R})

\* The relations are those of orderCompare.
LEMMA Directions ==
  /\ TotalPreorder(Upward, Value) /\ TotalPreorder(Downwards, Value)
  /\ \A u, v \in Value : /\ <<u, v>> \in Upward <=> Leq(u, v)
                         /\ <<u, v>> \in Downwards <=> Leq(v, u)
  /\ \A s \in Rows, v \in Value : /\ AscPlace(s, v) = Place(Upward, s, v)
                                  /\ DescPlace(s, v) = Place(Downwards, s, v)
<1>1. \A u, v \in Value : /\ <<u, v>> \in Upward <=> Leq(u, v)
                          /\ <<u, v>> \in Downwards <=> Leq(v, u)
  BY DEF Upward, Downwards
<1>2. TotalPreorder(Upward, Value) /\ TotalPreorder(Downwards, Value)
  BY <1>1, Preorder DEF TotalPreorder
<1>3. ASSUME NEW s \in Rows, NEW v \in Value
      PROVE  AscPlace(s, v) = Place(Upward, s, v) /\ DescPlace(s, v) = Place(Downwards, s, v)
  <2>1. DOMAIN s = 1..Len(s) /\ \A j \in 1..Len(s) : s[j] \in Value
    BY DEF Rows
  <2>2. \A j \in 1..Len(s) : /\ Asc(v, s[j]) >= 0 <=> <<s[j], v>> \in Upward
                             /\ Desc(v, s[j]) >= 0 <=> <<s[j], v>> \in Downwards
    BY <1>1, <2>1, KeysOrder
  <2>3. /\ {j \in DOMAIN s : Asc(v, s[j]) >= 0} = {j \in 1..Len(s) : <<s[j], v>> \in Upward}
        /\ {j \in DOMAIN s : Desc(v, s[j]) >= 0} = {j \in 1..Len(s) : <<s[j], v>> \in Downwards}
    BY <2>1, <2>2
  <2>4. QED
    BY <2>3 DEF AscPlace, DescPlace, Place
<1>4. QED
  BY <1>1, <1>2, <1>3

\* In sorted rows a value goes behind all of those that may stand before it.
LEMMA PlacesIn ==
  ASSUME NEW E, NEW R, TotalPreorder(R, E), NEW s \in Seq(E), InOrder(R, s), NEW v \in E
  PROVE  /\ Place(R, s, v) \in 0..Len(s)
         /\ \A j \in 1..Len(s) : j <= Place(R, s, v) <=> <<s[j], v>> \in R
<1> DEFINE T == {j \in 1..Len(s) : <<s[j], v>> \in R}
<1>1. Len(s) \in Nat /\ \A j \in 1..Len(s) : s[j] \in E
  OBVIOUS
<1>2. \A j \in T, i \in 1..Len(s) : i <= j => i \in T
  <2>1. SUFFICES ASSUME NEW j \in T, NEW i \in 1..Len(s), i <= j PROVE <<s[i], v>> \in R
    OBVIOUS
  <2>2. j \in 1..Len(s) /\ <<s[j], v>> \in R /\ s[i] \in E /\ s[j] \in E
    BY <1>1, <2>1
  <2>3. <<s[i], s[j]>> \in R
    <3>1. i = j \/ i < j
      BY <1>1, <2>1, <2>2
    <3>2. QED
      BY <2>1, <2>2, <3>1 DEF TotalPreorder, InOrder
  <2>4. QED
    BY <2>2, <2>3 DEF TotalPreorder
<1>3. T \in SUBSET (1..Len(s))
  OBVIOUS
<1>4. Cardinality(T) \in 0..Len(s) /\ T = 1..Cardinality(T)
  <2> HIDE DEF T
  <2>1. QED
    BY <1>1, <1>2, <1>3, Downward
<1>5. ASSUME NEW j \in 1..Len(s) PROVE j <= Cardinality(T) <=> <<s[j], v>> \in R
  <2>1. j \in T <=> <<s[j], v>> \in R
    OBVIOUS
  <2>2. j \in 1..Cardinality(T) <=> j <= Cardinality(T)
    BY <1>1, <1>4
  <2>3. QED
    BY <1>4, <2>1, <2>2
<1>6. QED
  BY <1>4, <1>5 DEF Place

\* The same of rows of values.
LEMMA Places ==
  ASSUME NEW R, TotalPreorder(R, Value), NEW s \in Rows, InOrder(R, s), NEW v \in Value
  PROVE  /\ Place(R, s, v) \in 0..Len(s)
         /\ \A j \in 1..Len(s) : j <= Place(R, s, v) <=> <<s[j], v>> \in R
BY PlacesIn, Zenon DEF Rows

\* Where it goes, the rows stay sorted.
LEMMA InOrderStepIn ==
  ASSUME NEW E, NEW R, TotalPreorder(R, E), NEW s \in Seq(E), InOrder(R, s), NEW v \in E
  PROVE  /\ InOrder(R, InsertAt(s, Place(R, s, v) + 1, v))
         /\ Len(InsertAt(s, Place(R, s, v) + 1, v)) = Len(s) + 1
<1> DEFINE k == Place(R, s, v)
           t == InsertAt(s, k + 1, v)
<1>1. /\ Len(s) \in Nat /\ k \in 0..Len(s)
      /\ \A j \in 1..Len(s) : s[j] \in E /\ (j <= k <=> <<s[j], v>> \in R)
  BY PlacesIn
<1>2. /\ Len(t) = Len(s) + 1
      /\ \A j \in 1..(Len(s) + 1) : t[j] = IF j <= k THEN s[j] ELSE IF j = k + 1 THEN v ELSE s[j - 1]
  BY <1>1, InsertedIn
<1>3. ASSUME NEW j \in 1..Len(s), j > k PROVE <<v, s[j]>> \in R
  <2> HIDE DEF k
  <2>1. s[j] \in E
    BY <1>1
  <2>2. Len(s) \in Nat /\ k \in 0..Len(s)
    BY <1>1
  <2>3. ~(j <= k)
    BY <1>3, <2>2
  <2>4. <<s[j], v>> \notin R
    BY <1>1, <2>3
  <2>5. QED
    BY <2>1, <2>4 DEF TotalPreorder
<1> HIDE DEF k, t
<1>4. ASSUME NEW i \in 1..(Len(s) + 1), NEW j \in 1..(Len(s) + 1), i < j
      PROVE  <<t[i], t[j]>> \in R
  <2>1. CASE j <= k
    BY <1>1, <1>2, <1>4, <2>1 DEF InOrder
  <2>2. CASE j = k + 1
    BY <1>1, <1>2, <1>4, <2>2
  <2>3. CASE j > k + 1
    <3>1. j - 1 \in 1..Len(s) /\ j - 1 > k /\ t[j] = s[j - 1]
      BY <1>1, <1>2, <2>3
    <3>2. CASE i <= k
      <4>1. i \in 1..Len(s) /\ i < j - 1 /\ t[i] = s[i]
        BY <1>1, <1>2, <2>3, <3>2
      <4>2. QED
        BY <3>1, <4>1 DEF InOrder
    <3>3. CASE i = k + 1
      <4>1. t[i] = v
        BY <1>1, <1>2, <3>3
      <4>2. QED
        BY <1>3, <3>1, <4>1
    <3>4. CASE i > k + 1
      <4>1. i - 1 \in 1..Len(s) /\ i - 1 < j - 1 /\ t[i] = s[i - 1]
        BY <1>1, <1>2, <1>4, <3>4
      <4>2. QED
        BY <3>1, <4>1 DEF InOrder
    <3>5. QED
      BY <1>1, <3>2, <3>3, <3>4
  <2>4. QED
    BY <1>1, <2>1, <2>2, <2>3
<1>5. QED
  BY <1>2, <1>4 DEF InOrder, t, k

\* The same of rows of values.
LEMMA InOrderStep ==
  ASSUME NEW R, TotalPreorder(R, Value), NEW s \in Rows, InOrder(R, s), NEW v \in Value
  PROVE  /\ InOrder(R, InsertAt(s, Place(R, s, v) + 1, v))
         /\ Len(InsertAt(s, Place(R, s, v) + 1, v)) = Len(s) + 1
BY InOrderStepIn, Zenon DEF Rows

\* The rows upwards are the rows downwards from the other end, up to equality.
Mirrored(a, d) == \A j \in 1..Len(a) : Leq(a[j], d[Len(d) + 1 - j]) /\ Leq(d[Len(d) + 1 - j], a[j])

(* They still are when a value is added to both: behind those equal to it,  *)
(* upwards and downwards.                                                   *)
LEMMA MirrorStep ==
  ASSUME NEW a \in Rows, NEW d \in Rows, Len(a) = Len(d), InOrder(Upward, a), InOrder(Downwards, d),
         Mirrored(a, d), NEW v \in Value
  PROVE  Mirrored(AscStep(a, v), DescStep(d, v))
<1> DEFINE n == Len(a)
           k == Place(Upward, a, v)
           l == Place(Downwards, d, v)
           up == AscStep(a, v)
           down == DescStep(d, v)
           Same(u, w) == Leq(u, w) /\ Leq(w, u)
<1>1. /\ n \in Nat /\ Len(d) = n /\ k \in 0..n /\ l \in 0..n
      /\ \A j \in 1..n : a[j] \in Value /\ d[j] \in Value
      /\ \A j \in 1..n : j <= k <=> Leq(a[j], v)
      /\ \A j \in 1..n : j <= l <=> Leq(v, d[j])
  <2>1. n \in Nat /\ \A j \in 1..n : a[j] \in Value /\ d[j] \in Value
    BY DEF Rows
  <2>2. k \in 0..n /\ \A j \in 1..n : j <= k <=> <<a[j], v>> \in Upward
    BY Places, Directions
  <2>3. l \in 0..n /\ \A j \in 1..n : j <= l <=> <<d[j], v>> \in Downwards
    BY Places, Directions
  <2>4. QED
    BY <2>1, <2>2, <2>3, Directions
<1>2. /\ Len(up) = n + 1 /\ Len(down) = n + 1
      /\ \A j \in 1..(n + 1) : up[j] = IF j <= k THEN a[j] ELSE IF j = k + 1 THEN v ELSE a[j - 1]
      /\ \A j \in 1..(n + 1) : down[j] = IF j <= l THEN d[j] ELSE IF j = l + 1 THEN v ELSE d[j - 1]
  <2>1. up = InsertAt(a, k + 1, v) /\ down = InsertAt(d, l + 1, v)
    BY Directions DEF AscStep, DescStep
  <2>2. k \in 0..Len(a) /\ l \in 0..Len(d)
    BY <1>1
  <2>3. /\ Len(InsertAt(a, k + 1, v)) = Len(a) + 1
        /\ \A j \in 1..(Len(a) + 1) :
             InsertAt(a, k + 1, v)[j] = IF j <= k THEN a[j] ELSE IF j = k + 1 THEN v ELSE a[j - 1]
    BY <2>2, Inserted, ZenonT(40)
  <2>4. /\ Len(InsertAt(d, l + 1, v)) = Len(d) + 1
        /\ \A j \in 1..(Len(d) + 1) :
             InsertAt(d, l + 1, v)[j] = IF j <= l THEN d[j] ELSE IF j = l + 1 THEN v ELSE d[j - 1]
    BY <2>2, Inserted, ZenonT(40)
  <2> HIDE DEF up, down, k, l
  <2>5. QED
    BY <1>1, <2>1, <2>3, <2>4
<1>3. \A j \in 1..n : n + 1 - j \in 1..n /\ Same(a[j], d[n + 1 - j])
  BY <1>1 DEF Mirrored
<1> HIDE DEF n, k, l, up, down
\* The greater ones are the last upwards.
<1>4. \A j \in 1..n : n + 1 - j <= l <=> Leq(v, a[j])
  <2>1. SUFFICES ASSUME NEW j \in 1..n PROVE Leq(v, d[n + 1 - j]) <=> Leq(v, a[j])
    BY <1>1, <1>3
  <2>2. n + 1 - j \in 1..n /\ a[j] \in Value /\ d[n + 1 - j] \in Value
    BY <1>1, <1>3
  <2>3. Leq(a[j], d[n + 1 - j]) /\ Leq(d[n + 1 - j], a[j])
    BY <1>3
  <2>4. \A u, w \in Value : Leq(u, w) /\ Leq(w, u) => (Leq(v, w) <=> Leq(v, u))
    BY Preorder
  <2>5. QED
    BY <2>2, <2>3, <2>4
<1>5. ASSUME NEW j \in 1..(n + 1) PROVE Same(up[j], down[n + 2 - j])
  <2> DEFINE p == n + 2 - j
  <2>1. p \in 1..(n + 1)
    BY <1>1
  <2>2. \A i \in 1..n : a[i] \in Value /\ Same(a[i], a[i]) /\ (i <= k /\ n + 1 - i <= l => Same(a[i], v))
    BY <1>1, <1>4, Preorder
  <2>3. Same(v, v)
    BY Preorder
  <2>4. CASE j <= k
    <3>1. up[j] = a[j] /\ j \in 1..n
      BY <1>1, <1>2, <2>4
    <3>2. CASE p <= l
      <4>1. down[p] = d[p] /\ j - 1 \in 1..n /\ p = n + 1 - (j - 1)
        BY <1>1, <1>2, <2>1, <2>4, <3>2
      <4>2. Same(a[j - 1], d[p]) /\ d[p] \in Value
        BY <1>1, <1>3, <2>1, <3>2, <4>1
      <4>3. Same(a[j], v) /\ Same(a[j - 1], v)
        BY <1>1, <2>2, <2>4, <3>1, <3>2, <4>1
      <4>4. QED
        BY <2>2, <3>1, <4>1, <4>2, <4>3, Preorder
    <3>3. CASE p = l + 1
      <4>1. down[p] = v
        BY <1>1, <1>2, <2>1, <3>3
      <4>2. Same(a[j], v)
        BY <1>1, <2>2, <2>4, <3>1, <3>3
      <4>3. QED
        BY <3>1, <4>1, <4>2
    <3>4. CASE p > l + 1
      <4>1. down[p] = d[p - 1] /\ p - 1 = n + 1 - j
        BY <1>1, <1>2, <2>1, <3>4
      <4>2. QED
        BY <1>3, <3>1, <4>1
    <3>5. QED
      BY <1>1, <2>1, <3>2, <3>3, <3>4
  <2>5. CASE j = k + 1
    <3>1. up[j] = v
      BY <1>1, <1>2, <2>5
    <3>2. CASE p <= l
      <4>1. down[p] = d[p] /\ k \in 1..n /\ p = n + 1 - k
        BY <1>1, <1>2, <2>1, <2>5, <3>2
      <4>2. Same(a[k], d[p]) /\ d[p] \in Value /\ Same(a[k], v)
        BY <1>1, <1>3, <2>1, <2>2, <3>2, <4>1
      <4>3. QED
        BY <2>2, <3>1, <4>1, <4>2, Preorder
    <3>3. CASE p = l + 1
      BY <1>1, <1>2, <2>1, <2>3, <3>1, <3>3
    <3>4. CASE p > l + 1
      <4>1. j \in 1..n
        BY <1>1, <2>1, <2>5, <3>4
      <4>2. ~Leq(a[j], v) /\ ~Leq(v, a[j])
        BY <1>1, <1>4, <2>5, <3>4, <4>1
      <4>3. QED
        BY <1>1, <4>1, <4>2, Preorder
    <3>5. QED
      BY <1>1, <2>1, <3>2, <3>3, <3>4
  <2>6. CASE j > k + 1
    <3>1. up[j] = a[j - 1] /\ j - 1 \in 1..n /\ p = n + 1 - (j - 1)
      BY <1>1, <1>2, <2>6
    <3>2. Leq(v, a[j - 1])
      BY <1>1, <2>6, <3>1, Preorder
    <3>3. p <= l
      BY <1>4, <3>1, <3>2
    <3>4. down[p] = d[p]
      BY <1>1, <1>2, <2>1, <3>3
    <3>5. QED
      BY <1>3, <3>1, <3>4
  <2>7. QED
    BY <1>1, <2>4, <2>5, <2>6
<1>6. QED
  BY <1>1, <1>2, <1>5 DEF Mirrored, n, up, down

-----------------------------------------------------------------------------
\* Appending to what follows is appending to the whole.
LEMMA AppendBehind ==
  ASSUME NEW E, NEW a \in Seq(E), NEW b \in Seq(E), NEW u \in E
  PROVE  /\ a \o Append(b, u) = Append(a \o b, u)
         /\ a \o <<>> = a /\ a \o b \in Seq(E) /\ Append(b, u) \in Seq(E)
<1>1. <<u>> \in Seq(E) /\ a \o b \in Seq(E) /\ Append(b, u) \in Seq(E)
  BY ConcatProperties
<1>2. Append(b, u) = b \o <<u>> /\ Append(a \o b, u) = (a \o b) \o <<u>>
  BY <1>1, AppendIsConcat
<1>3. QED
  BY <1>1, <1>2, ConcatAssociative, ConcatEmptySeq

\* The equal ones of two sequences, one behind the other.
LEMMA EqualsBehind ==
  ASSUME NEW w, NEW a \in Rows, NEW b \in Rows
  PROVE  EqualsOf(a \o b, w) = EqualsOf(a, w) \o EqualsOf(b, w)
<1> DEFINE S == {c \in Seq(Value) : EqualsOf(a \o c, w) = EqualsOf(a, w) \o EqualsOf(c, w)}
<1>1. a \in Seq(Value) /\ b \in Seq(Value) /\ NullV \in Value
  BY DEF Rows, Value
<1>2. \A c \in Seq(Value) : EqualsOf(c, w) \in Seq(Value)
  <2>1. SUFFICES ASSUME NEW c \in Seq(Value) PROVE EqualsOf(c, w) \in Seq(Value)
    OBVIOUS
  <2>2. EqualsOf(c, w) \in Rows
    BY <1>1, EqualsSteps
  <2>3. QED
    BY <2>2 DEF Rows
<1>3. <<>> \in S
  <2>1. a \o <<>> = a /\ EqualsOf(a, w) \o <<>> = EqualsOf(a, w)
    BY <1>1, <1>2, ConcatEmptySeq
  <2>2. EqualsOf(<<>>, w) = <<>>
    BY EqualsSteps
  <2>3. EqualsOf(a \o <<>>, w) = EqualsOf(a, w) /\ EqualsOf(a, w) \o EqualsOf(<<>>, w) = EqualsOf(a, w)
    BY <2>1, <2>2
  <2>4. <<>> \in Seq(Value)
    OBVIOUS
  <2>5. QED
    BY <2>3, <2>4
<1>4. ASSUME NEW c \in Seq(Value), NEW u \in Value, c \in S PROVE Append(c, u) \in S
  <2>1. /\ a \o Append(c, u) = Append(a \o c, u) /\ a \o c \in Seq(Value) /\ Append(c, u) \in Seq(Value)
        /\ EqualsOf(a, w) \o Append(EqualsOf(c, w), u) = Append(EqualsOf(a, w) \o EqualsOf(c, w), u)
    BY <1>1, <1>2, AppendBehind
  <2>2. /\ EqualsOf(Append(a \o c, u), w) = EqualStep(w, EqualsOf(a \o c, w), u)
        /\ EqualsOf(Append(c, u), w) = EqualStep(w, EqualsOf(c, w), u)
    BY <2>1, EqualsSteps
  <2>3. EqualsOf(a \o c, w) = EqualsOf(a, w) \o EqualsOf(c, w)
    BY <1>4
  <2>4. EqualStep(w, EqualsOf(a, w) \o EqualsOf(c, w), u) = EqualsOf(a, w) \o EqualStep(w, EqualsOf(c, w), u)
    BY <2>1 DEF EqualStep
  <2>5. QED
    BY <2>1, <2>2, <2>3, <2>4
<1>5. Seq(Value) \subseteq S
  <2> HIDE DEF S
  <2>1. QED
    BY <1>3, <1>4, ByAppend
<1>6. QED
  BY <1>1, <1>5

\* None are equal if none is.
LEMMA EqualsNone ==
  ASSUME NEW w, NEW b \in Rows, \A j \in 1..Len(b) : ~ValsEqual(b[j], w)
  PROVE  EqualsOf(b, w) = <<>>
<1> DEFINE None(c) == \A j \in 1..Len(c) : ~ValsEqual(c[j], w)
           S == {c \in Seq(Value) : None(c) => EqualsOf(c, w) = <<>>}
<1>1. <<>> \in S
  BY EqualsSteps
<1>2. ASSUME NEW c \in Seq(Value), NEW u \in Value, c \in S PROVE Append(c, u) \in S
  <2>1. Append(c, u) \in Seq(Value)
    OBVIOUS
  <2>2. SUFFICES ASSUME None(Append(c, u)) PROVE EqualsOf(Append(c, u), w) = <<>>
    BY <2>1
  <2>3. /\ Len(c) \in Nat /\ Len(Append(c, u)) = Len(c) + 1 /\ Append(c, u)[Len(c) + 1] = u
        /\ \A j \in 1..Len(c) : Append(c, u)[j] = c[j]
    OBVIOUS
  <2>4. ~ValsEqual(u, w)
    BY <2>2, <2>3
  <2>5. None(c)
    BY <2>2, <2>3
  <2>6. EqualsOf(c, w) = <<>>
    BY <1>2, <2>5
  <2>7. EqualsOf(Append(c, u), w) = EqualStep(w, EqualsOf(c, w), u)
    BY EqualsSteps
  <2>8. QED
    BY <2>4, <2>6, <2>7 DEF EqualStep
<1>3. Seq(Value) \subseteq S
  <2> HIDE DEF S
  <2>1. QED
    BY <1>1, <1>2, ByAppend
<1>4. QED
  BY <1>3 DEF Rows

\* Stability: a value goes behind the last one equal to it.
LEMMA StableStep ==
  ASSUME NEW a \in Rows, InOrder(Upward, a), NEW v \in Value, NEW w \in Value
  PROVE  EqualsOf(AscStep(a, v), w) = EqualStep(w, EqualsOf(a, w), v)
<1> DEFINE k == Place(Upward, a, v)
           p == SubSeq(a, 1, k)
           q == SubSeq(a, k + 1, Len(a))
<1>1. /\ Len(a) \in Nat /\ k \in 0..Len(a) /\ \A j \in 1..Len(a) : a[j] \in Value
      /\ \A j \in 1..Len(a) : j <= k <=> Leq(a[j], v)
  <2>1. k \in 0..Len(a) /\ \A j \in 1..Len(a) : j <= k <=> <<a[j], v>> \in Upward
    BY Places, Directions
  <2>2. Len(a) \in Nat /\ \A j \in 1..Len(a) : a[j] \in Value
    BY DEF Rows
  <2>3. QED
    BY <2>1, <2>2, Directions
<1>2. AscStep(a, v) = InsertAt(a, k + 1, v)
  BY Directions DEF AscStep
<1>3. InsertAt(a, k + 1, v) = Append(p, v) \o q /\ a = p \o q
  BY <1>1, Inserted
<1>4. /\ p \in Seq(Value) /\ q \in Seq(Value) /\ Append(p, v) \in Seq(Value)
      /\ \A j \in 1..Len(q) : j + k \in 1..Len(a) /\ j + k > k /\ q[j] = a[j + k]
  <2>1. a \in Seq(Value)
    BY DEF Rows
  <2> HIDE DEF k
  <2>2. QED
    BY <1>1, <2>1
<1> HIDE DEF k, p, q
<1>5. /\ EqualsOf(AscStep(a, v), w) = EqualStep(w, EqualsOf(p, w), v) \o EqualsOf(q, w)
      /\ EqualsOf(a, w) = EqualsOf(p, w) \o EqualsOf(q, w)
      /\ EqualsOf(p, w) \in Seq(Value) /\ EqualsOf(q, w) \in Seq(Value)
  <2>1. EqualsOf(Append(p, v), w) = EqualStep(w, EqualsOf(p, w), v)
    BY <1>4, EqualsSteps
  <2>2. /\ EqualsOf(Append(p, v) \o q, w) = EqualsOf(Append(p, v), w) \o EqualsOf(q, w)
        /\ EqualsOf(p \o q, w) = EqualsOf(p, w) \o EqualsOf(q, w)
    BY <1>4, EqualsBehind DEF Rows
  <2>3. EqualsOf(p, w) \in Rows /\ EqualsOf(q, w) \in Rows
    BY <1>4, EqualsSteps
  <2>4. QED
    BY <1>2, <1>3, <2>1, <2>2, <2>3 DEF Rows
<1>6. CASE ~ValsEqual(v, w)
  BY <1>5, <1>6 DEF EqualStep
<1>7. CASE ValsEqual(v, w)
  <2>1. \A j \in 1..Len(q) : ~ValsEqual(q[j], w)
    <3>1. SUFFICES ASSUME NEW j \in 1..Len(q), ValsEqual(q[j], w) PROVE FALSE
      OBVIOUS
    <3>2. j + k \in 1..Len(a) /\ j + k > k /\ q[j] = a[j + k]
      BY <1>4, <3>1
    <3>3. q[j] \in Value /\ ~(j + k <= k)
      BY <1>1, <3>2
    <3>4. ~Leq(q[j], v)
      BY <1>1, <3>2, <3>3
    <3>5. Leq(q[j], w) /\ Leq(w, v)
      BY <1>7, <3>1, <3>3, KeysOrder
    <3>6. QED
      BY <3>3, <3>4, <3>5, Preorder
  <2>2. EqualsOf(q, w) = <<>>
    BY <1>4, <2>1, EqualsNone DEF Rows
  <2>3. Append(EqualsOf(p, w), v) \in Seq(Value)
    BY <1>5
  <2>4. QED
    BY <1>5, <1>7, <2>2, <2>3, ConcatEmptySeq DEF EqualStep
<1>8. QED
  BY <1>6, <1>7

-----------------------------------------------------------------------------
\* What is in a sequence after an Append.
LEMMA RangeAppended ==
  ASSUME NEW E, NEW s \in Seq(E), NEW v \in E
  PROVE  Range(Append(s, v)) = Range(s) \union {v}
<1> DEFINE t == Append(s, v)
<1>1. /\ Len(s) \in Nat /\ DOMAIN s = 1..Len(s) /\ DOMAIN t = 1..(Len(s) + 1)
      /\ t[Len(s) + 1] = v /\ \A j \in 1..Len(s) : t[j] = s[j]
  OBVIOUS
<1> HIDE DEF t
<1>2. \A j \in DOMAIN t : j \in DOMAIN s \/ j = Len(s) + 1
  BY <1>1
<1>3. \A j \in DOMAIN s : j \in DOMAIN t
  BY <1>1
<1>4. Range(t) \subseteq Range(s) \union {v}
  BY <1>1, <1>2 DEF Range
<1>5. Range(s) \subseteq Range(t)
  BY <1>1, <1>3 DEF Range
<1>6. v \in Range(t)
  BY <1>1 DEF Range
<1>7. QED
  BY <1>4, <1>5, <1>6 DEF t

\* What ORDER BY makes of rows.
Answered(s) ==
  /\ Len(AscBy(s)) = Len(s) /\ Len(DescBy(s)) = Len(s) /\ AscBy(s) \in Rows /\ DescBy(s) \in Rows
  /\ InOrder(Upward, AscBy(s)) /\ InOrder(Downwards, DescBy(s)) /\ Mirrored(AscBy(s), DescBy(s))
  /\ \A w \in Value : EqualsOf(AscBy(s), w) = EqualsOf(s, w)
  /\ Range(AscBy(s)) = Range(s)

\* What it does with one row more.
LEMMA AnsweredStep ==
  ASSUME NEW s \in Rows, NEW v \in Value, Answered(s)
  PROVE  Answered(Append(s, v))
<1> DEFINE a == AscBy(s)
           d == DescBy(s)
           sv == Append(s, v)
<1>1. /\ a \in Rows /\ d \in Rows /\ Len(a) = Len(s) /\ Len(d) = Len(s) /\ Len(s) \in Nat
      /\ InOrder(Upward, a) /\ InOrder(Downwards, d) /\ Mirrored(a, d) /\ Range(a) = Range(s)
      /\ sv \in Seq(Value) /\ Len(sv) = Len(s) + 1
  BY DEF Answered, Rows
<1>2. AscBy(sv) = AscStep(a, v) /\ DescBy(sv) = DescStep(d, v)
  BY AscSteps, DescSteps DEF Rows
<1>3. /\ AscStep(a, v) = InsertAt(a, Place(Upward, a, v) + 1, v)
      /\ DescStep(d, v) = InsertAt(d, Place(Downwards, d, v) + 1, v)
  BY <1>1, Directions DEF AscStep, DescStep
<1>4. /\ InOrder(Upward, AscStep(a, v)) /\ Len(AscStep(a, v)) = Len(s) + 1
      /\ InOrder(Downwards, DescStep(d, v)) /\ Len(DescStep(d, v)) = Len(s) + 1
  BY <1>1, <1>3, InOrderStep, Directions
<1>5. Mirrored(AscStep(a, v), DescStep(d, v))
  BY <1>1, MirrorStep
<1>6. ASSUME NEW w \in Value PROVE EqualsOf(AscStep(a, v), w) = EqualsOf(sv, w)
  <2>1. EqualsOf(a, w) = EqualsOf(s, w)
    BY DEF Answered
  <2>2. EqualsOf(AscStep(a, v), w) = EqualStep(w, EqualsOf(a, w), v)
    BY <1>1, StableStep
  <2>3. EqualsOf(sv, w) = EqualStep(w, EqualsOf(s, w), v)
    BY EqualsSteps DEF Rows
  <2>4. QED
    BY <2>1, <2>2, <2>3
<1>7. AscStep(a, v) \in Rows /\ DescStep(d, v) \in Rows /\ Range(AscStep(a, v)) = Range(a) \union {v}
  <2> DEFINE k == Place(Upward, a, v)
             t == AscStep(a, v)
  <2>1. k \in 0..Len(a) /\ Place(Downwards, d, v) \in 0..Len(d)
    BY <1>1, Places, Directions
  <2>2. AscStep(a, v) \in Rows /\ DescStep(d, v) \in Rows
    <3>1. InsertAt(a, k + 1, v) \in Rows /\ InsertAt(d, Place(Downwards, d, v) + 1, v) \in Rows
      BY <1>1, <2>1, Inserted
    <3>2. QED
      BY <1>3, <3>1
  <2>3. \A j \in 1..(Len(a) + 1) : t[j] = IF j <= k THEN a[j] ELSE IF j = k + 1 THEN v ELSE a[j - 1]
    <3>1. \A j \in 1..(Len(a) + 1) :
            InsertAt(a, k + 1, v)[j] = IF j <= k THEN a[j] ELSE IF j = k + 1 THEN v ELSE a[j - 1]
      BY <1>1, <2>1, Inserted, ZenonT(40)
    <3>2. t = InsertAt(a, k + 1, v)
      BY <1>3
    <3> HIDE DEF t, a, k
    <3>3. QED
      BY <3>1, <3>2
  <2>4. DOMAIN t = 1..(Len(a) + 1) /\ DOMAIN a = 1..Len(a) /\ Len(a) \in Nat
    BY <1>1, <1>4, <2>2 DEF Rows
  <2> HIDE DEF a, t, k
  <2>5. \A j \in DOMAIN t : t[j] \in Range(a) \union {v}
    <3>1. SUFFICES ASSUME NEW j \in 1..(Len(a) + 1) PROVE t[j] \in Range(a) \union {v}
      BY <2>4
    <3>2. CASE j <= k
      BY <2>1, <2>3, <2>4, <3>2 DEF Range
    <3>3. CASE j = k + 1
      BY <2>1, <2>3, <2>4, <3>3
    <3>4. CASE j > k + 1
      <4>1. t[j] = a[j - 1] /\ j - 1 \in 1..Len(a)
        BY <2>1, <2>3, <2>4, <3>4
      <4>2. QED
        BY <2>4, <4>1 DEF Range
    <3>5. QED
      BY <2>1, <2>4, <3>2, <3>3, <3>4
  <2>6. \A x \in Range(a) : x \in Range(t)
    <3>1. SUFFICES ASSUME NEW j \in 1..Len(a) PROVE a[j] \in Range(t)
      BY <2>4 DEF Range
    <3>2. CASE j <= k
      <4>1. t[j] = a[j] /\ j \in DOMAIN t
        BY <2>1, <2>3, <2>4, <3>2
      <4>2. QED
        BY <4>1 DEF Range
    <3>3. CASE j > k
      <4>1. t[j + 1] = a[(j + 1) - 1] /\ (j + 1) - 1 = j /\ j + 1 \in DOMAIN t
        BY <2>1, <2>3, <2>4, <3>3
      <4>2. QED
        BY <4>1 DEF Range
    <3>4. QED
      BY <2>1, <2>4, <3>2, <3>3
  <2>7. v \in Range(t)
    <3>1. t[k + 1] = v /\ k + 1 \in DOMAIN t
      BY <2>1, <2>3, <2>4
    <3>2. QED
      BY <3>1 DEF Range
  <2>8. Range(t) = Range(a) \union {v}
    BY <2>5, <2>6, <2>7 DEF Range
  <2>9. QED
    BY <2>2, <2>8 DEF t, a
<1>8. Range(sv) = Range(s) \union {v}
  BY RangeAppended DEF Rows
<1>9. QED
  BY <1>1, <1>2, <1>4, <1>5, <1>6, <1>7, <1>8 DEF Answered

-----------------------------------------------------------------------------
\* What MIN and MAX look at: the values that are not NULL.
Present == {v \in Value : ~IsNull(v)}

\* They are found in the order of the rows.
LEMMA ArgsFacts ==
  ASSUME NEW s \in Rows
  PROVE  /\ Args(s) \in Seq(Present)
         /\ Range(Args(s)) = {v \in Range(s) : ~IsNull(v)}
         /\ InOrder(Upward, s) => InOrder(Upward, Args(s))
<1> DEFINE Fine(c) == /\ Args(c) \in Seq(Present)
                      /\ Range(Args(c)) = {v \in Range(c) : ~IsNull(v)}
                      /\ InOrder(Upward, c) => InOrder(Upward, Args(c))
           S == {c \in Seq(Value) : Fine(c)}
<1>1. <<>> \in S
  <2>1. Args(<<>>) = <<>> /\ <<>> \in Seq(Value) /\ <<>> \in Seq(Present)
    BY ArgsSteps
  <2>2. Range(<<>>) = {}
    BY DEF Range
  <2>3. Fine(<<>>)
    BY <2>1, <2>2
  <2> HIDE DEF Fine
  <2>4. QED
    BY <2>1, <2>3
<1>2. ASSUME NEW c \in Seq(Value), NEW u \in Value, c \in S PROVE Append(c, u) \in S
  <2> DEFINE cu == Append(c, u)
             b == Args(c)
  <2>1. /\ b \in Seq(Present) /\ Range(b) = {v \in Range(c) : ~IsNull(v)}
        /\ InOrder(Upward, c) => InOrder(Upward, b)
    BY <1>2
  <2>2. Args(cu) = ArgStep(b, u) /\ Range(cu) = Range(c) \union {u} /\ cu \in Seq(Value)
    BY ArgsSteps, RangeAppended
  <2>3. /\ Len(c) \in Nat /\ Len(cu) = Len(c) + 1 /\ cu[Len(c) + 1] = u /\ DOMAIN c = 1..Len(c)
        /\ \A j \in 1..Len(c) : cu[j] = c[j]
    OBVIOUS
  <2> HIDE DEF cu
  <2>4. ASSUME InOrder(Upward, cu)
        PROVE  InOrder(Upward, c) /\ \A x \in Range(c) : <<x, u>> \in Upward
    <3>1. InOrder(Upward, c)
      BY <2>3, <2>4 DEF InOrder
    <3>2. \A j \in 1..Len(c) : <<c[j], u>> \in Upward
      <4>1. SUFFICES ASSUME NEW j \in 1..Len(c) PROVE <<c[j], u>> \in Upward
        OBVIOUS
      <4>2. j \in 1..Len(cu) /\ Len(c) + 1 \in 1..Len(cu) /\ j < Len(c) + 1
        BY <2>3
      <4>3. <<cu[j], cu[Len(c) + 1]>> \in Upward
        BY <2>4, <4>2 DEF InOrder
      <4>4. QED
        BY <2>3, <4>3
    <3>3. QED
      BY <2>3, <3>1, <3>2 DEF Range
  <2>5. CASE IsNull(u)
    <3>1. Args(cu) = b
      BY <2>2, <2>5 DEF ArgStep
    <3>2. {v \in Range(cu) : ~IsNull(v)} = {v \in Range(c) : ~IsNull(v)}
      BY <2>2, <2>5
    <3>3. Fine(cu)
      BY <2>1, <2>4, <3>1, <3>2
    <3> HIDE DEF Fine
    <3>4. QED
      BY <2>2, <3>3 DEF cu
  <2>6. CASE ~IsNull(u)
    <3> DEFINE bu == Append(b, u)
    <3>1. Args(cu) = bu /\ u \in Present
      BY <2>2, <2>6 DEF ArgStep, Present
    <3>2. bu \in Seq(Present) /\ Range(bu) = Range(b) \union {u}
      BY <2>1, <3>1, RangeAppended
    <3>3. Range(bu) = {v \in Range(cu) : ~IsNull(v)}
      BY <2>1, <2>2, <2>6, <3>2
    <3>4. ASSUME InOrder(Upward, cu) PROVE InOrder(Upward, bu)
      <4>1. InOrder(Upward, b) /\ \A x \in Range(b) : <<x, u>> \in Upward
        BY <2>1, <2>4, <3>4
      <4>2. /\ Len(b) \in Nat /\ Len(bu) = Len(b) + 1 /\ bu[Len(b) + 1] = u /\ DOMAIN b = 1..Len(b)
            /\ \A j \in 1..Len(b) : bu[j] = b[j]
        BY <2>1
      <4>3. \A j \in 1..Len(b) : <<b[j], u>> \in Upward
        BY <4>1, <4>2 DEF Range
      <4> HIDE DEF bu
      <4>4. SUFFICES ASSUME NEW i \in 1..Len(bu), NEW j \in 1..Len(bu), i < j
                     PROVE  <<bu[i], bu[j]>> \in Upward
        BY DEF InOrder
      <4>5. i \in 1..Len(b) /\ bu[i] = b[i]
        BY <4>2, <4>4
      <4>6. CASE j = Len(b) + 1
        BY <4>2, <4>3, <4>5, <4>6
      <4>7. CASE j \in 1..Len(b)
        BY <4>1, <4>2, <4>4, <4>5, <4>7 DEF InOrder
      <4>8. QED
        BY <4>2, <4>6, <4>7
    <3>5. Fine(cu)
      BY <3>1, <3>2, <3>3, <3>4
    <3> HIDE DEF Fine
    <3>6. QED
      BY <2>2, <3>5 DEF cu
  <2>7. QED
    BY <2>5, <2>6
<1>3. Seq(Value) \subseteq S
  <2> HIDE DEF S
  <2>1. QED
    BY <1>1, <1>2, ByAppend
<1>4. QED
  BY <1>3 DEF Rows

(* What MIN and MAX compare: u stays the best so far, against v; the rest of *)
(* a sequence is gone through from its first value.                         *)
Beats(sign, u, v) == IF sign = -1 THEN Leq(u, v) ELSE Leq(v, u)
BestStep(sign, best, v) == IF sign * CompareValues(v, best) > 0 THEN v ELSE best
Bests(sign) == [x \in Present \X Present |-> BestStep(sign, x[1], x[2])]
BestFrom(b, t, sign) == FoldLeft(LAMBDA best, v : IF sign * CompareValues(v, best) > 0 THEN v ELSE best, b, t)

\* As FoldLeft computes it.
LEMMA BestFold ==
  ASSUME NEW b \in Present, NEW sign \in {-1, 1}, NEW s \in Seq(Present)
  PROVE  BestFrom(b, s, sign) = Folded(Present, b, Bests(sign), s)
<1> DEFINE Recursive(iter) == iter = [t \in SUBSET (DOMAIN s) |->
             IF t = {} THEN b ELSE BestStep(sign, iter[t \ {Max(t)}], s[Max(t)])]
<1>1. /\ Len(s) \in Nat /\ DOMAIN s = 1..Len(s)
      /\ b \in Present /\ Bests(sign) \in [Present \X Present -> Present]
  BY DEF Bests, BestStep
<1>2. BestFrom(b, s, sign) = (CHOOSE iter : Recursive(iter))[DOMAIN s]
  BY Zenon DEF BestFrom, BestStep, FoldLeft, MapThenFoldSet
<1>3. PICK iter \in [SUBSET (1..Len(s)) -> Present] : IsFold(iter, b, Bests(sign), s)
  BY <1>1, FoldExists
<1>4. \A t \in SUBSET (1..Len(s)) : iter[t] =
        IF t = {} THEN b ELSE BestStep(sign, iter[t \ {Max(t)}], s[Max(t)])
  BY <1>1, <1>3, FoldMeets DEF IsFold, Bests
<1>5. Recursive(iter)
  BY <1>1, <1>3, <1>4
<1>6. PICK fold : Recursive(fold) /\ BestFrom(b, s, sign) = fold[1..Len(s)]
  BY <1>1, <1>2, <1>5
<1>7. fold[{}] = b
  BY <1>6
<1>8. ASSUME NEW m \in 1..Len(s), NEW x \in Present, fold[1..(m - 1)] = x
      PROVE  fold[1..m] = Bests(sign)[<<x, s[m]>>]
  <2>1. fold[1..m] = BestStep(sign, fold[(1..m) \ {Max(1..m)}], s[Max(1..m)])
    BY <1>1, <1>6, PositionsBefore
  <2>2. fold[1..m] = BestStep(sign, x, s[m])
    BY <1>1, <1>8, <2>1, PositionsBefore
  <2>3. s[m] \in Present
    BY <1>1
  <2>4. QED
    BY <2>2, <2>3 DEF Bests
<1>9. StepsBy(fold, Present, b, Bests(sign), s)
  BY <1>7, <1>8 DEF StepsBy
<1>10. OnAll(fold, s) = Folded(Present, b, Bests(sign), s)
  <2> HIDE DEF Recursive
  <2>1. QED
    BY <1>1, <1>9, FoldComesTo
<1>11. QED
  BY <1>6, <1>10 DEF OnAll

\* Value after value.
LEMMA BestSteps ==
  ASSUME NEW b \in Present, NEW sign \in {-1, 1}
  PROVE  /\ BestFrom(b, <<>>, sign) = b
         /\ \A s \in Seq(Present), v \in Present :
              /\ BestFrom(b, s, sign) \in Present
              /\ BestFrom(b, Append(s, v), sign) = BestStep(sign, BestFrom(b, s, sign), v)
<1>1. /\ <<>> \in Seq(Present) /\ b \in Present
      /\ Bests(sign) \in [Present \X Present -> Present]
      /\ Steps(Present, Present, b, Bests(sign))
  BY DEF Bests, BestStep, Steps
<1>2. BestFrom(b, <<>>, sign) = b
  <2>1. Folded(Present, b, Bests(sign), <<>>) = b
    BY <1>1, FoldedEmpty
  <2>2. QED
    BY <1>1, <2>1, BestFold
<1>3. ASSUME NEW s \in Seq(Present), NEW v \in Present
      PROVE  /\ BestFrom(b, s, sign) \in Present
             /\ BestFrom(b, Append(s, v), sign) = BestStep(sign, BestFrom(b, s, sign), v)
  <2>1. Append(s, v) \in Seq(Present)
    OBVIOUS
  <2>2. Folded(Present, b, Bests(sign), s) \in Present
    BY <1>1, <2>1, FoldedIs
  <2>3. Folded(Present, b, Bests(sign), Append(s, v)) = Bests(sign)[<<Folded(Present, b, Bests(sign), s), v>>]
    BY <1>1, <2>1, FoldedStep
  <2>4. /\ BestFrom(b, s, sign) = Folded(Present, b, Bests(sign), s)
        /\ BestFrom(b, Append(s, v), sign) = Folded(Present, b, Bests(sign), Append(s, v))
    BY <2>1, BestFold
  <2>5. QED
    BY <2>2, <2>3, <2>4 DEF Bests
<1>4. QED
  BY <1>2, <1>3

\* A step keeps the better one.
LEMMA BestStepBeats ==
  ASSUME NEW sign \in {-1, 1}, NEW u \in Present, NEW v \in Present
  PROVE  BestStep(sign, u, v) = IF Beats(sign, u, v) THEN u ELSE v
<1>1. u \in Value /\ v \in Value /\ ~IsNull(u) /\ ~IsNull(v)
  BY DEF Present
<1>2. CompareValues(v, u) \in Int
  BY <1>1, ComparedByKey DEF Sign
<1>3. CompareValues(v, u) = Asc(v, u)
  BY <1>1, <1>2 DEF Asc, OrderCompare
<1>4. (CompareValues(v, u) <= 0 <=> Leq(v, u)) /\ (CompareValues(v, u) >= 0 <=> Leq(u, v))
  BY <1>1, <1>3, KeysOrder
<1>5. CASE sign = -1
  <2>1. sign * CompareValues(v, u) > 0 <=> ~(CompareValues(v, u) >= 0)
    BY <1>2, <1>5
  <2>2. QED
    BY <1>4, <1>5, <2>1 DEF BestStep, Beats
<1>6. CASE sign = 1
  <2>1. sign * CompareValues(v, u) > 0 <=> ~(CompareValues(v, u) <= 0)
    BY <1>2, <1>6
  <2>2. QED
    BY <1>4, <1>6, <2>1 DEF BestStep, Beats
<1>7. QED
  BY <1>5, <1>6

\* So the answer is one of the values, and beats them all.
LEMMA BestBeats ==
  ASSUME NEW b \in Present, NEW t \in Seq(Present), NEW sign \in {-1, 1}
  PROVE  /\ BestFrom(b, t, sign) \in Range(t) \union {b}
         /\ \A u \in Range(t) \union {b} : Beats(sign, BestFrom(b, t, sign), u)
<1> DEFINE Fine(c) == /\ BestFrom(b, c, sign) \in Range(c) \union {b}
                      /\ \A u \in Range(c) \union {b} : Beats(sign, BestFrom(b, c, sign), u)
           S == {c \in Seq(Present) : Fine(c)}
<1>1. \A u, v, w \in Present : /\ Beats(sign, u, u)
                               /\ Beats(sign, u, v) \/ Beats(sign, v, u)
                               /\ Beats(sign, u, v) /\ Beats(sign, v, w) => Beats(sign, u, w)
  BY Preorder DEF Beats, Present
<1>2. <<>> \in S
  <2>1. BestFrom(b, <<>>, sign) = b /\ <<>> \in Seq(Present)
    BY BestSteps
  <2>2. Range(<<>>) = {}
    BY DEF Range
  <2>3. QED
    BY <1>1, <2>1, <2>2
<1>3. ASSUME NEW c \in Seq(Present), NEW v \in Present, c \in S PROVE Append(c, v) \in S
  <2> DEFINE m == BestFrom(b, c, sign)
             r == BestFrom(b, Append(c, v), sign)
  <2>1. m \in Present /\ r = BestStep(sign, m, v)
    BY BestSteps
  <2>2. r = IF Beats(sign, m, v) THEN m ELSE v
    BY <2>1, BestStepBeats
  <2>3. m \in Range(c) \union {b} /\ \A u \in Range(c) \union {b} : Beats(sign, m, u)
    BY <1>3
  <2>4. Range(Append(c, v)) = Range(c) \union {v} /\ Append(c, v) \in Seq(Present)
    BY RangeAppended
  <2>5. \A u \in Range(c) : u \in Present
    BY DEF Range
  <2> HIDE DEF m, r
  <2>6. r \in Range(Append(c, v)) \union {b}
    BY <2>2, <2>3, <2>4
  <2>7. Beats(sign, r, v) /\ Beats(sign, r, m) /\ r \in Present
    BY <1>1, <2>1, <2>2
  <2>8. \A u \in Range(Append(c, v)) \union {b} : Beats(sign, r, u)
    BY <1>1, <2>1, <2>3, <2>4, <2>5, <2>7
  <2>9. QED
    BY <2>4, <2>6, <2>8 DEF r
<1>4. Seq(Present) \subseteq S
  <2> HIDE DEF S
  <2>1. QED
    BY <1>2, <1>3, ByAppend
<1>5. QED
  BY <1>4

\* The answer to MIN and MAX.
LEMMA BestIs ==
  ASSUME NEW s \in Seq(Present), s # <<>>, NEW sign \in {-1, 1}
  PROVE  /\ Best(s, sign) \in Range(s)
         /\ \A u \in Range(s) : Beats(sign, Best(s, sign), u)
<1>1. Head(s) \in Present /\ Tail(s) \in Seq(Present) /\ Len(s) \in Nat /\ Len(s) >= 1
  OBVIOUS
<1>2. Best(s, sign) = BestFrom(Head(s), Tail(s), sign)
  BY Zenon DEF Best, BestFrom
<1>3. Range(s) = Range(Tail(s)) \union {Head(s)}
  <2> DEFINE t == Tail(s)
  <2>1. /\ DOMAIN s = 1..Len(s) /\ DOMAIN t = 1..(Len(s) - 1) /\ s[1] = Head(s)
        /\ \A j \in 1..(Len(s) - 1) : t[j] = s[j + 1]
    BY <1>1
  <2> HIDE DEF t
  <2>2. \A j \in DOMAIN s : s[j] \in Range(t) \union {Head(s)}
    <3>1. SUFFICES ASSUME NEW j \in DOMAIN s PROVE s[j] \in Range(t) \union {Head(s)}
      OBVIOUS
    <3>2. CASE j = 1
      BY <2>1, <3>2
    <3>3. CASE j # 1
      <4>1. j - 1 \in DOMAIN t /\ t[j - 1] = s[(j - 1) + 1] /\ (j - 1) + 1 = j
        BY <1>1, <2>1, <3>3
      <4>2. QED
        BY <4>1 DEF Range
    <3>4. QED
      BY <3>2, <3>3
  <2>3. \A j \in DOMAIN t : j + 1 \in DOMAIN s /\ t[j] = s[j + 1]
    BY <1>1, <2>1
  <2>4. 1 \in DOMAIN s
    BY <1>1, <2>1
  <2>5. QED
    BY <2>1, <2>2, <2>3, <2>4 DEF Range, t
<1>4. /\ BestFrom(Head(s), Tail(s), sign) \in Range(Tail(s)) \union {Head(s)}
      /\ \A u \in Range(Tail(s)) \union {Head(s)} : Beats(sign, BestFrom(Head(s), Tail(s), sign), u)
  BY <1>1, BestBeats
<1>5. QED
  BY <1>2, <1>3, <1>4

-----------------------------------------------------------------------------
\* Whatever the rows are, it makes of them what it should.
LEMMA AlwaysAnswered == ASSUME NEW s \in Rows PROVE Answered(s)
<1> DEFINE S == {c \in Seq(Value) : Answered(c)}
<1>1. <<>> \in S
  <2>1. AscBy(<<>>) = <<>> /\ DescBy(<<>>) = <<>> /\ <<>> \in Rows /\ <<>> \in Seq(Value) /\ Len(<<>>) = 0
    BY AscSteps, DescSteps DEF Rows
  <2>2. InOrder(Upward, <<>>) /\ InOrder(Downwards, <<>>) /\ Mirrored(<<>>, <<>>)
    BY <2>1 DEF InOrder, Mirrored
  <2>3. QED
    BY <2>1, <2>2 DEF Answered
<1>2. ASSUME NEW c \in Seq(Value), NEW v \in Value, c \in S PROVE Append(c, v) \in S
  BY <1>2, AnsweredStep DEF Rows
<1>3. Seq(Value) \subseteq S
  <2> HIDE DEF S
  <2>1. QED
    BY <1>1, <1>2, ByAppend
<1>4. QED
  BY <1>3 DEF Rows

\* OrderIsOrder in those terms.
OrderOf(s) ==
  /\ \A v \in Range(s) : EqualsOf(AscBy(s), v) = EqualsOf(s, v)
  /\ \A j, k \in DOMAIN AscBy(s) : j < k => /\ Asc(AscBy(s)[j], AscBy(s)[k]) <= 0
                                            /\ Asc(DescBy(s)[j], DescBy(s)[k]) >= 0
  /\ \A j \in DOMAIN AscBy(s) : ValsEqual(AscBy(s)[j], DescBy(s)[Len(DescBy(s)) + 1 - j])
  /\ Args(AscBy(s)) # <<>> => /\ ValsEqual(Agg("MIN", Args(s)), Head(Args(AscBy(s))))
                              /\ ValsEqual(Agg("MAX", Args(s)), Last(Args(AscBy(s))))

(* ORDER BY yields the stored rows in order, stably, DESC the other way       *)
(* round, and MIN and MAX are the ends of it (sortOutRows, evalAgg).        *)
THEOREM OrderExact == Spec => []OrderIsOrder
<1>1. ASSUME NEW s \in Rows PROVE OrderOf(s)
  <2> DEFINE a == AscBy(s)
             d == DescBy(s)
             n == Len(s)
  <2>1. /\ n \in Nat /\ Len(a) = n /\ Len(d) = n /\ a \in Rows /\ d \in Rows
        /\ InOrder(Upward, a) /\ InOrder(Downwards, d) /\ Mirrored(a, d) /\ Range(a) = Range(s)
        /\ \A w \in Value : EqualsOf(a, w) = EqualsOf(s, w)
    BY AlwaysAnswered DEF Answered, Rows
  <2>2. /\ DOMAIN a = 1..n /\ \A j \in 1..n : a[j] \in Value /\ d[j] \in Value
        /\ Range(s) \subseteq Value
    BY <2>1 DEF Rows, Range
  <2> HIDE DEF a, d, n
  <2>3. \A v \in Range(s) : EqualsOf(a, v) = EqualsOf(s, v)
    BY <2>1, <2>2
  <2>4. \A j, k \in DOMAIN a : j < k => Asc(a[j], a[k]) <= 0 /\ Asc(d[j], d[k]) >= 0
    <3>1. SUFFICES ASSUME NEW j \in 1..n, NEW k \in 1..n, j < k
                   PROVE  Asc(a[j], a[k]) <= 0 /\ Asc(d[j], d[k]) >= 0
      BY <2>2
    <3>2. <<a[j], a[k]>> \in Upward /\ <<d[j], d[k]>> \in Downwards
      BY <2>1, <3>1 DEF InOrder
    <3>3. Leq(a[j], a[k]) /\ Leq(d[k], d[j])
      BY <2>2, <3>2, Directions
    <3>4. QED
      BY <2>2, <3>3, KeysOrder
  <2>5. \A j \in DOMAIN a : ValsEqual(a[j], d[Len(d) + 1 - j])
    <3>1. SUFFICES ASSUME NEW j \in 1..n PROVE ValsEqual(a[j], d[n + 1 - j])
      BY <2>1, <2>2
    <3>2. Leq(a[j], d[n + 1 - j]) /\ Leq(d[n + 1 - j], a[j])
      BY <2>1, <3>1 DEF Mirrored
    <3>3. n + 1 - j \in 1..n
      BY <2>1
    <3>4. QED
      BY <2>2, <3>2, <3>3, KeysOrder
  <2>6. ASSUME Args(a) # <<>>
        PROVE  /\ ValsEqual(Agg("MIN", Args(s)), Head(Args(a)))
               /\ ValsEqual(Agg("MAX", Args(s)), Last(Args(a)))
    <3> DEFINE sorted == Args(a)
               vals == Args(s)
    <3>1. /\ sorted \in Seq(Present) /\ InOrder(Upward, sorted) /\ vals \in Seq(Present)
          /\ Range(vals) = Range(sorted)
      BY <2>1, ArgsFacts
    <3>2. /\ Len(sorted) \in Nat /\ 1 <= Len(sorted) /\ DOMAIN sorted = 1..Len(sorted)
          /\ Head(sorted) = sorted[1] /\ Last(sorted) = sorted[Len(sorted)]
      BY <2>6, <3>1 DEF Last
    <3> HIDE DEF sorted, vals
    <3>3. sorted[1] \in Range(sorted) /\ sorted[Len(sorted)] \in Range(sorted)
      BY <3>2 DEF Range
    <3>4. vals # <<>>
      <4>1. Range(<<>>) = {}
        BY DEF Range
      <4>2. QED
        BY <3>1, <3>3, <4>1
    <3>5. \A v \in Range(sorted) : /\ v \in Value
                                   /\ Leq(sorted[1], v) /\ Leq(v, sorted[Len(sorted)])
      <4>1. SUFFICES ASSUME NEW j \in 1..Len(sorted)
                     PROVE  /\ sorted[j] \in Value
                            /\ Leq(sorted[1], sorted[j]) /\ Leq(sorted[j], sorted[Len(sorted)])
        BY <3>2 DEF Range
      <4>2. \A i \in 1..Len(sorted) : sorted[i] \in Value
        BY <3>1 DEF Present
      <4>3. 1 \in 1..Len(sorted) /\ Len(sorted) \in 1..Len(sorted)
        BY <3>2
      <4>4. \A i, k \in 1..Len(sorted) : i < k => Leq(sorted[i], sorted[k])
        BY <3>1, <4>2, Directions DEF InOrder
      <4>5. j = 1 \/ 1 < j
        BY <3>2
      <4>6. j = Len(sorted) \/ j < Len(sorted)
        <5>1. j \in Int /\ j <= Len(sorted) /\ Len(sorted) \in Int
          BY <3>2
        <5>2. QED
          BY <5>1
      <4>7. QED
        BY <4>2, <4>3, <4>4, <4>5, <4>6, Preorder
    <3>6. Agg("MIN", vals) = Best(vals, -1) /\ Agg("MAX", vals) = Best(vals, 1)
      BY <3>4 DEF Agg
    <3>7. /\ Best(vals, -1) \in Range(sorted) /\ Leq(Best(vals, -1), sorted[1])
          /\ Best(vals, 1) \in Range(sorted) /\ Leq(sorted[Len(sorted)], Best(vals, 1))
      <4>1. /\ Best(vals, -1) \in Range(vals) /\ \A u \in Range(vals) : Beats(-1, Best(vals, -1), u)
            /\ Best(vals, 1) \in Range(vals) /\ \A u \in Range(vals) : Beats(1, Best(vals, 1), u)
        BY <3>1, <3>4, BestIs
      <4>2. Beats(-1, Best(vals, -1), sorted[1]) /\ Beats(1, Best(vals, 1), sorted[Len(sorted)])
        BY <3>1, <3>3, <4>1
      <4>3. QED
        BY <3>1, <4>1, <4>2 DEF Beats
    <3>8. ValsEqual(Best(vals, -1), sorted[1]) /\ ValsEqual(Best(vals, 1), sorted[Len(sorted)])
      BY <3>3, <3>5, <3>7, KeysOrder
    <3>9. QED
      BY <3>2, <3>6, <3>8 DEF sorted, vals
  <2>7. QED
    BY <2>3, <2>4, <2>5, <2>6 DEF OrderOf, a, d
<1>2. OrderOf(rows) => OrderIsOrder
  BY Zenon DEF OrderOf, OrderIsOrder, AscBy, DescBy, Asc, Args
<1>3. StoredInv => OrderIsOrder
  BY <1>1, <1>2 DEF StoredInv, Rows
<1>4. QED
  BY <1>3, Stored, PTL
=============================================================================

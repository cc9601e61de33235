---------------------------- MODULE NumbersProofs ----------------------------
(***************************************************************************)
(* Proofs about module Numbers, for every width of the integers, precision  *)
(* and range of the reals; 64, 53 and 1023 are those of the program.  Which  *)
(* power of two is which is not known to the arithmetic of the provers.  It *)
(* follows from the number of subsets of a finite set.                      *)
(*                                                                         *)
(* At the end, what the proofs about the other modules share: inductions,   *)
(* the largest of a set and folds over sequences, value by value.           *)
(***************************************************************************)
EXTENDS Numbers, SequencesExt, SequenceTheorems, FiniteSetTheorems, WellFoundedInduction, TLAPS

\* Induction on the natural numbers, as a fact about sets.
LEMMA LeastElement ==
  ASSUME NEW S \in SUBSET Nat, S # {}
  PROVE  \E x \in S : \A y \in S : x <= y
<1>1. IsWellFoundedOn(OpToRel(<, Nat), Nat)
  BY NatLessThanWellFounded
<1>2. PICK x \in S : \A y \in S : ~ (<<y, x>> \in OpToRel(<, Nat))
  BY <1>1, WFMin
<1>3. \A y \in S : ~ (y < x)
  BY <1>2 DEF OpToRel
<1>4. QED
  BY <1>3

\* 2^n counts the subsets of 1..n.
LEMMA PowerCounts ==
  ASSUME NEW n \in Nat
  PROVE  IsFiniteSet(SUBSET (1..n)) /\ Cardinality(SUBSET (1..n)) = 2^n
<1>1. IsFiniteSet(1..n) /\ Cardinality(1..n) = n
  BY FS_Interval
<1>2. QED
  BY <1>1, FS_SUBSET

\* Powers of two are positive...
LEMMA PowerPositive == ASSUME NEW n \in Nat PROVE 2^n \in Nat \ {0}
<1>1. 2^n \in Nat /\ (2^n = 0 <=> SUBSET (1..n) = {})
  BY PowerCounts, FS_CardinalityType, FS_EmptySet
<1>2. {} \in SUBSET (1..n)
  OBVIOUS
<1>3. QED
  BY <1>1, <1>2

\* ... double from one to the next: a subset of 1..(n+1) has n+1 in it or not ...
LEMMA PowerStep == ASSUME NEW n \in Nat PROVE 2^(n + 1) = 2 * 2^n
<1> DEFINE S == SUBSET (1..n)
           T == {s \union {n + 1} : s \in S}
           f == [s \in S |-> s \union {n + 1}]
<1>1. SUBSET (1..(n + 1)) = S \union T
  <2>1. ASSUME NEW t \in SUBSET (1..(n + 1)), n + 1 \in t PROVE t \in T
    <3>1. t \ {n + 1} \in S /\ t = (t \ {n + 1}) \union {n + 1}
      BY <2>1
    <3>2. QED
      BY <3>1
  <2>2. ASSUME NEW t \in SUBSET (1..(n + 1)), n + 1 \notin t PROVE t \in S
    BY <2>2
  <2>3. ASSUME NEW t \in S \union T PROVE t \in SUBSET (1..(n + 1))
    OBVIOUS
  <2>4. QED
    BY <2>1, <2>2, <2>3
<1>2. S \intersect T = {}
  OBVIOUS
<1>3. f \in Bijection(S, T)
  <2>1. f \in [S -> T]
    OBVIOUS
  <2>2. \A s, t \in S : f[s] = f[t] => s = t
    OBVIOUS
  <2>3. QED
    BY <2>1, <2>2 DEF Bijection, Injection, Surjection, IsInjective
<1>4. IsFiniteSet(S) /\ Cardinality(S) = 2^n
  BY PowerCounts
<1>5. IsFiniteSet(T) /\ Cardinality(T) = 2^n
  BY <1>3, <1>4, FS_Bijection DEF ExistsBijection
<1>6. Cardinality(S \union T) = 2^n + 2^n
  <2>1. Cardinality(S \intersect T) = 0
    BY <1>2, FS_EmptySet
  <2>2. 2^n \in Nat
    BY PowerPositive
  <2>3. QED
    <3> HIDE DEF S, T
    <3>1. Cardinality(S \union T) = Cardinality(S) + Cardinality(T) - Cardinality(S \intersect T)
      BY <1>4, <1>5, FS_Union
    <3>2. QED
      BY <1>4, <1>5, <2>1, <2>2, <3>1
<1>7. Cardinality(S \union T) = 2^(n + 1)
  <2>1. n + 1 \in Nat
    OBVIOUS
  <2>2. Cardinality(SUBSET (1..(n + 1))) = 2^(n + 1)
    BY <2>1, PowerCounts
  <2>3. QED
    BY <1>1, <2>2
<1>8. QED
  BY <1>6, <1>7, PowerPositive

\* ... grow ...
LEMMA PowerGrows == ASSUME NEW m \in Nat, NEW n \in Nat, m <= n PROVE 2^m <= 2^n
<1> DEFINE S == SUBSET (1..m)
           T == SUBSET (1..n)
<1>1. S \in SUBSET T
  OBVIOUS
<1>2. IsFiniteSet(T) /\ Cardinality(T) = 2^n /\ Cardinality(S) = 2^m
  BY PowerCounts
<1>3. QED
  <2> HIDE DEF S, T
  <2>1. QED
    BY <1>1, <1>2, FS_Subset

\* ... and multiply by adding their exponents.
LEMMA PowerSum == ASSUME NEW m \in Nat, NEW n \in Nat PROVE 2^(m + n) = 2^m * 2^n
<1> DEFINE S == {k \in Nat : 2^(m + k) # 2^m * 2^k}
<1>1. SUFFICES ASSUME S # {} PROVE FALSE
  OBVIOUS
<1>2. PICK k \in S : \A j \in S : k <= j
  BY <1>1, LeastElement
<1>3. k # 0
  <2>1. 2^(m + 0) = 2^m /\ 2^0 = 1 /\ 2^m \in Nat
    BY PowerPositive
  <2>2. 2^(m + 0) = 2^m * 2^0
    BY <2>1
  <2>3. QED
    BY <2>2
<1>4. k - 1 \in Nat /\ k - 1 \notin S
  BY <1>2, <1>3
<1>5. 2^(m + (k - 1)) = 2^m * 2^(k - 1)
  BY <1>4
<1>6. 2^k = 2 * 2^(k - 1)
  <2>1. 2^((k - 1) + 1) = 2 * 2^(k - 1)
    BY <1>4, PowerStep
  <2>2. QED
    BY <2>1
<1>7. 2^(m + k) = 2 * 2^(m + (k - 1))
  <2>1. 2^((m + (k - 1)) + 1) = 2 * 2^(m + (k - 1))
    BY <1>4, PowerStep
  <2>2. (m + (k - 1)) + 1 = m + k
    OBVIOUS
  <2>3. QED
    BY <2>1, <2>2
<1>8. 2^m \in Nat /\ 2^(k - 1) \in Nat
  BY <1>4, PowerPositive
<1>9. 2^(m + k) = 2^m * 2^k
  BY <1>5, <1>6, <1>7, <1>8
<1>10. QED
  BY <1>9

-----------------------------------------------------------------------------
\* The limits of an integer.
LEMMA Limits == /\ MinInt \in Int /\ MaxInt \in Int /\ 2^Bits \in Nat
                /\ MinInt = -(MaxInt + 1) /\ 2^Bits = 2 * (MaxInt + 1)
                /\ MaxInt >= 1
<1>1. Bits - 1 \in Nat /\ Bits - 2 \in Nat
  BY WidthAssumption
<1>2. 2^((Bits - 1) + 1) = 2 * 2^(Bits - 1) /\ 2^((Bits - 2) + 1) = 2 * 2^(Bits - 2)
  BY <1>1, PowerStep
<1>3. (Bits - 1) + 1 = Bits /\ (Bits - 2) + 1 = Bits - 1
  BY WidthAssumption
<1>4. 2^(Bits - 1) \in Nat \ {0} /\ 2^(Bits - 2) \in Nat \ {0}
  BY <1>1, PowerPositive
<1>5. 2^Bits = 2 * 2^(Bits - 1) /\ 2^(Bits - 1) = 2 * 2^(Bits - 2)
  BY <1>2, <1>3
<1>6. QED
  BY <1>4, <1>5 DEF MinInt, MaxInt

\* Wrapping changes a result by a multiple of 2^Bits, and only if it is out of range.
LEMMA WrapFacts ==
  ASSUME NEW x \in Int
  PROVE  /\ Wrap(x) \in Int64
         /\ \E k \in Int : Wrap(x) = x - 2^Bits * k
         /\ x \in Int64 => Wrap(x) = x
<1> DEFINE w == 2^Bits
<1>1. w \in Nat /\ w > 0 /\ MinInt \in Int /\ MaxInt = MinInt + w - 1
  BY Limits
<1> HIDE DEF w
<1> DEFINE y == x - MinInt
<1>2. y \in Int /\ y = w * (y \div w) + (y % w) /\ y % w \in 0..(w - 1) /\ y \div w \in Int
  BY <1>1
<1>3. Wrap(x) = (y % w) + MinInt
  BY DEF Wrap, w
<1>4. Wrap(x) = x - w * (y \div w)
  BY <1>1, <1>2, <1>3
<1>5. Wrap(x) \in Int64
  BY <1>1, <1>2, <1>3 DEF Int64
<1>6. ASSUME x \in Int64 PROVE Wrap(x) = x
  <2>1. y \in 0..(w - 1)
    BY <1>1, <1>6 DEF Int64
  <2>2. y % w = y
    BY <1>1, <2>1
  <2>3. QED
    BY <1>1, <1>3, <2>2
<1>7. QED
  BY <1>2, <1>4, <1>5, <1>6 DEF w

\* Division truncates toward zero: the rest is smaller than the divisor and has
\* the sign of the dividend.
LEMMA QuotientFacts ==
  ASSUME NEW a \in Int, NEW b \in Int, b # 0
  PROVE  /\ Quotient(a, b) \in Int /\ Remainder(a, b) \in Int
         /\ a = b * Quotient(a, b) + Remainder(a, b)
         /\ Abs(Remainder(a, b)) < Abs(b)
         /\ a >= 0 => Remainder(a, b) >= 0
         /\ a <= 0 => Remainder(a, b) <= 0
<1> DEFINE A == Abs(a)
           B == Abs(b)
           q == A \div B
           r == A % B
<1>1. A \in Nat /\ B \in Nat \ {0}
  BY DEF Abs
<1> HIDE DEF A, B
<1>2. A = B * q + r /\ q \in Int /\ r \in 0..(B - 1)
  BY <1>1
<1> HIDE DEF q, r
<1>3. Quotient(a, b) = Sign(a) * Sign(b) * q
  BY DEF Quotient, A, B, q
<1>4. b * (Sign(a) * Sign(b) * q) = Sign(a) * (B * q)
  <2>1. CASE a >= 0 /\ b >= 0
    BY <2>1, <1>2 DEF Sign, B, Abs
  <2>2. CASE a >= 0 /\ b < 0
    BY <2>2, <1>2 DEF Sign, B, Abs
  <2>3. CASE a < 0 /\ b >= 0
    BY <2>3, <1>2 DEF Sign, B, Abs
  <2>4. CASE a < 0 /\ b < 0
    BY <2>4, <1>2 DEF Sign, B, Abs
  <2>5. QED
    BY <2>1, <2>2, <2>3, <2>4
<1>5. Quotient(a, b) \in Int
  BY <1>2, <1>3 DEF Sign
<1>6. Remainder(a, b) = Sign(a) * r
  <2>1. Remainder(a, b) = a - Sign(a) * (B * q)
    BY <1>3, <1>4 DEF Remainder
  <2>2. a = Sign(a) * A
    BY DEF Sign, A, Abs
  <2>3. QED
    BY <1>1, <1>2, <2>1, <2>2 DEF Sign
<1>7. b * Quotient(a, b) \in Int
  BY <1>5
<1>8. a = b * Quotient(a, b) + Remainder(a, b)
  BY <1>7 DEF Remainder
<1>9. /\ Abs(Sign(a) * r) < B /\ Sign(a) * r \in Int
      /\ a >= 0 => Sign(a) * r >= 0
      /\ a <= 0 => Sign(a) * r <= 0
  BY <1>1, <1>2 DEF Sign, Abs
<1>10. QED
  BY <1>5, <1>6, <1>8, <1>9 DEF B

-----------------------------------------------------------------------------
\* The sizes of the finite reals, and 1 among them.
Size == {m * 2^e : m \in 0..(2^Mantissa - 1), e \in 0..MaxExp}

\* Infinity is larger than every finite real, and a multiple of all units.
LEMMA InfinityFacts ==
  /\ Infinity \in Nat \ {0}
  /\ \A e \in 0..MaxExp : 2^(Mantissa + e) <= Infinity /\ 2^(Mantissa + e) = 2^Mantissa * 2^e
  /\ \A a \in Size : a \in Nat /\ a < Infinity
<1>1. Mantissa \in Nat /\ MaxExp \in Nat
  BY WidthAssumption
<1>2. Infinity \in Nat \ {0}
  BY <1>1, PowerPositive DEF Infinity
<1>3. ASSUME NEW e \in 0..MaxExp
      PROVE  2^(Mantissa + e) <= Infinity /\ 2^(Mantissa + e) = 2^Mantissa * 2^e
  <2>1. Mantissa + e \in Nat /\ Mantissa + MaxExp \in Nat /\ Mantissa + e <= Mantissa + MaxExp
    BY <1>1
  <2>2. 2^(Mantissa + e) <= 2^(Mantissa + MaxExp)
    BY <2>1, PowerGrows
  <2>3. 2^(Mantissa + e) = 2^Mantissa * 2^e
    BY <1>1, PowerSum
  <2>4. QED
    BY <2>2, <2>3 DEF Infinity
<1>4. ASSUME NEW m \in 0..(2^Mantissa - 1), NEW e \in 0..MaxExp
      PROVE  m * 2^e \in Nat /\ m * 2^e < Infinity
  <2>1. 2^Mantissa \in Nat /\ 2^e \in Nat \ {0}
    BY <1>1, PowerPositive
  <2>2. m \in Nat /\ m < 2^Mantissa
    BY <2>1
  <2>3. m * 2^e \in Nat /\ m * 2^e < 2^Mantissa * 2^e
    BY <2>1, <2>2
  <2>4. 2^Mantissa * 2^e <= Infinity /\ 2^Mantissa * 2^e \in Nat
    BY <1>3, <2>1
  <2>5. QED
    BY <1>2, <2>3, <2>4
<1>5. QED
  BY <1>2, <1>3, <1>4 DEF Size

\* One is a power of two.
LEMMA OneFacts == /\ \E k \in 0..MaxExp : One = 2^k
                  /\ One \in Nat \ {0}
BY WidthAssumption, PowerPositive

\* The last place of a number is the smallest exponent that leaves it less than
\* Mantissa bits; there is one.
LEMMA LastPlaceFacts ==
  ASSUME NEW a \in Nat, NEW y \in Nat \ {0}
  PROVE  LET e == LastPlace(a, y)
         IN  /\ e \in 0..MaxExp
             /\ e = MaxExp \/ a < y * 2^(Mantissa + e)
             /\ e = 0 \/ a >= y * 2^(Mantissa + e - 1)
<1> DEFINE S == {e \in 0..MaxExp : e = MaxExp \/ a < y * 2^(Mantissa + e)}
           Q(e) == /\ e = MaxExp \/ a < y * 2^(Mantissa + e)
                   /\ e = 0 \/ a >= y * 2^(Mantissa + e - 1)
<1>1. MaxExp \in Nat /\ Mantissa \in Nat
  BY WidthAssumption
<1>2. S \in SUBSET Nat /\ S # {}
  BY <1>1
<1>3. PICK e \in S : \A j \in S : e <= j
  BY <1>2, LeastElement
<1>4. e = 0 \/ a >= y * 2^(Mantissa + e - 1)
  <2>1. SUFFICES ASSUME e # 0 PROVE a >= y * 2^(Mantissa + e - 1)
    OBVIOUS
  <2>2. e - 1 \in 0..MaxExp /\ e - 1 \notin S
    BY <1>1, <1>3, <2>1
  <2>3. ~ (a < y * 2^(Mantissa + (e - 1)))
    BY <2>2
  <2>4. Mantissa + (e - 1) = Mantissa + e - 1 /\ Mantissa + (e - 1) \in Nat
    BY <1>1, <1>3, <2>1
  <2>5. 2^(Mantissa + (e - 1)) \in Nat
    BY <2>4, PowerPositive
  <2>6. QED
    BY <2>3, <2>4, <2>5
<1>5. e \in 0..MaxExp /\ Q(e)
  BY <1>3, <1>4
<1> HIDE DEF S
<1>6. LastPlace(a, y) = CHOOSE x \in 0..MaxExp : Q(x)
  BY DEF LastPlace
<1>7. LastPlace(a, y) \in 0..MaxExp /\ Q(LastPlace(a, y))
  <2> HIDE DEF Q
  <2>1. QED
    BY <1>5, <1>6
<1>8. QED
  BY <1>7

\* A real is a size with a sign.
LEMMA Reals == \A r : r \in Float64 <=> r \in Int /\ Abs(r) \in Size \union {Infinity}
<1>1. ASSUME NEW r \in Float64 PROVE r \in Int /\ Abs(r) \in Size \union {Infinity}
  <2>1. CASE r \in {-Infinity, Infinity}
    BY <2>1, InfinityFacts DEF Abs
  <2>2. CASE r \in {s * m * 2^e : s \in {-1, 1}, m \in 0..(2^Mantissa - 1), e \in 0..MaxExp}
    <3>1. PICK s \in {-1, 1}, m \in 0..(2^Mantissa - 1), e \in 0..MaxExp : r = s * m * 2^e
      BY <2>2
    <3>2. m * 2^e \in Size /\ m * 2^e \in Nat
      BY InfinityFacts DEF Size
    <3>3. m \in Int /\ 2^e \in Int
      BY PowerPositive
    <3>4. r = m * 2^e \/ r = -(m * 2^e)
      BY <3>1, <3>3
    <3>5. QED
      BY <3>2, <3>4 DEF Abs
  <2>3. QED
    BY <2>1, <2>2 DEF Float64
<1>2. ASSUME NEW r \in Int, Abs(r) \in Size \union {Infinity} PROVE r \in Float64
  <2>1. CASE Abs(r) = Infinity
    BY <2>1, InfinityFacts DEF Abs, Float64
  <2>2. CASE Abs(r) \in Size
    <3>1. PICK m \in 0..(2^Mantissa - 1), e \in 0..MaxExp : Abs(r) = m * 2^e
      BY <2>2 DEF Size
    <3>2. m \in Int /\ 2^e \in Int
      BY PowerPositive
    <3>3. r = 1 * m * 2^e \/ r = (-1) * m * 2^e
      BY <3>1, <3>2 DEF Abs
    <3>4. QED
      BY <3>3 DEF Float64
  <2>3. QED
    BY <1>2, <2>1, <2>2
<1>3. QED
  BY <1>1, <1>2

\* Counting in units: what is left over is less than a unit, and rounds to none
\* or one.
LEMMA UnitsFacts ==
  ASSUME NEW a \in Nat, NEW u \in Nat \ {0}
  PROVE  /\ InUnits(a, u) \in Nat
         /\ \A n \in Nat : a = n * u => InUnits(a, u) = n
         /\ \A n \in Nat : a < u * n => InUnits(a, u) <= n
         /\ a >= u => InUnits(a, u) >= 1
<1> DEFINE q == a \div u
           r == a % u
<1>1. q \in Nat /\ r \in 0..(u - 1) /\ a = u * q + r
  OBVIOUS
<1>2. InUnits(a, u) \in {q, q + 1} /\ (r = 0 => InUnits(a, u) = q)
  BY <1>1 DEF InUnits, RoundsUp
<1> HIDE DEF q, r
<1>3. ASSUME NEW n \in Nat, a = n * u PROVE InUnits(a, u) = n
  <2>1. q = n /\ r = 0
    BY <1>1, <1>3
  <2>2. QED
    BY <1>2, <2>1
<1>4. ASSUME NEW n \in Nat, a < u * n PROVE InUnits(a, u) <= n
  <2>1. q < n
    <3>1. SUFFICES ASSUME n <= q PROVE FALSE
      BY <1>1
    <3>2. u * n <= u * q
      BY <1>1, <3>1
    <3>3. QED
      BY <1>1, <1>4, <3>2
  <2>2. QED
    BY <1>1, <1>2, <2>1
<1>5. ASSUME a >= u PROVE q >= 1
  <2>1. q # 0
    BY <1>1, <1>5
  <2>2. QED
    BY <1>1, <2>1
<1>6. QED
  BY <1>1, <1>2, <1>3, <1>4, <1>5

\* No other multiple of a unit is nearer than the one counted, and one that is as
\* near leaves the even one.
LEMMA UnitsAreNearest ==
  ASSUME NEW a \in Nat, NEW u \in Nat \ {0}, NEW n \in Nat
  PROVE  /\ Abs(u * InUnits(a, u) - a) <= Abs(u * n - a)
         /\ n # InUnits(a, u) /\ Abs(u * InUnits(a, u) - a) = Abs(u * n - a)
              => InUnits(a, u) % 2 = 0
<1> DEFINE q == a \div u
           r == a % u
           i == InUnits(a, u)
<1>1. q \in Nat /\ r \in 0..(u - 1) /\ a = u * q + r
  OBVIOUS
<1>2. /\ 2 * r > u => i = q + 1
      /\ 2 * r < u => i = q
      /\ 2 * r = u => i \in {q, q + 1} /\ i % 2 = 0
  BY <1>1 DEF InUnits, RoundsUp
<1> HIDE DEF q, r, i
<1>3. u * (q + 1) = u * q + u /\ u * q \in Nat /\ u * n \in Nat
  BY <1>1
<1>4. Abs(u * q - a) = r /\ Abs(u * (q + 1) - a) = u - r
  BY <1>1, <1>3 DEF Abs
<1>5. (i = q => Abs(u * i - a) = r) /\ (i = q + 1 => Abs(u * i - a) = u - r)
  BY <1>4
<1> DEFINE near == Abs(u * i - a)
           far == Abs(u * n - a)
           OK == near <= far /\ (n # i /\ near = far => i % 2 = 0)
<1>6. CASE n <= q
  <2>1. u * n <= u * q
    BY <1>1, <1>6
  <2>2. n # q => u * n <= u * q - u
    <3>1. SUFFICES ASSUME n # q PROVE u * n <= u * (q - 1)
      BY <1>1
    <3>2. QED
      BY <1>1, <1>6, <3>1
  <2>3. Abs(u * n - a) = a - u * n
    BY <1>1, <1>3, <2>1 DEF Abs
  <2>4. n # q => Abs(u * n - a) >= u + r
    BY <1>1, <1>3, <2>2, <2>3
  <2>5. n = q => Abs(u * n - a) = r
    BY <1>4
  <2>6. far \in Nat
    BY <1>3, <2>1, <2>3, <1>1
  <2> HIDE DEF near, far
  <2>7. OK
    BY <1>1, <1>2, <1>5, <2>4, <2>5, <2>6 DEF near, far
  <2>8. QED
    BY <2>7 DEF near, far, i
<1>7. CASE n > q
  <2>1. u * n >= u * (q + 1)
    BY <1>1, <1>7
  <2>2. n # q + 1 => u * n >= u * (q + 1) + u
    <3>1. SUFFICES ASSUME n # q + 1 PROVE u * n >= u * (q + 2)
      BY <1>1
    <3>2. QED
      BY <1>1, <1>7, <3>1
  <2>3. Abs(u * n - a) = u * n - a
    BY <1>1, <1>3, <2>1 DEF Abs
  <2>4. n # q + 1 => Abs(u * n - a) >= 2 * u - r
    BY <1>1, <1>3, <2>2, <2>3
  <2>5. n = q + 1 => Abs(u * n - a) = u - r
    BY <1>4
  <2>6. far \in Nat
    BY <1>1, <1>3, <2>1, <2>3
  <2> HIDE DEF near, far
  <2>7. OK
    BY <1>1, <1>2, <1>5, <1>7, <2>4, <2>5, <2>6 DEF near, far
  <2>8. QED
    BY <2>7 DEF near, far, i
<1>8. QED
  BY <1>1, <1>6, <1>7

\* Rounding yields the size of a real: the next larger one when the mantissa
\* overflows, Infinity when the exponent does.  It keeps what is a size already,
\* and makes nothing of one or more zero.
LEMMA MagnitudeFacts ==
  ASSUME NEW a \in Nat, NEW y \in Nat \ {0}
  PROVE  LET m == Magnitude(a, y, LastPlace(a, y))
         IN  /\ m \in Size \union {Infinity} /\ m \in Nat
             /\ a >= y => m # 0
             /\ a = 0 => m = 0
             /\ y = 1 /\ a \in Size \union {Infinity} => m = a
<1> DEFINE e == LastPlace(a, y)
           m == Magnitude(a, y, e)
           q == InUnits(a, y * 2^e)
           P == 2^Mantissa
<1>1. /\ e \in 0..MaxExp
      /\ e = MaxExp \/ a < y * 2^(Mantissa + e)
      /\ e = 0 \/ a >= y * 2^(Mantissa + e - 1)
  BY LastPlaceFacts
<1>2. Mantissa \in Nat /\ Mantissa - 1 \in Nat /\ MaxExp \in Nat
  BY WidthAssumption
<1>3. P \in Nat \ {0} /\ 2^e \in Nat \ {0} /\ Infinity \in Nat \ {0} /\ e \in Nat
  BY <1>1, <1>2, PowerPositive, InfinityFacts
<1>4. y * 2^e \in Nat \ {0}
  BY <1>3
<1> HIDE DEF e
<1>5. CASE a >= y * Infinity
  <2>1. m = Infinity
    BY <1>5 DEF Magnitude
  <2>2. y = 1 /\ a \in Size \union {Infinity} => a = Infinity
    BY <1>5, InfinityFacts
  <2>3. a # 0
    BY <1>3, <1>5
  <2>4. QED
    BY <1>3, <2>1, <2>2, <2>3 DEF e
<1>6. CASE ~ (a >= y * Infinity)
  <2>1. m = 2^e * q
    BY <1>6 DEF Magnitude
  <2>2. q \in Nat
    BY <1>4, UnitsFacts
  <2>3. a < (y * 2^e) * P
    <3>1. a < y * 2^(Mantissa + e)
      <4>1. CASE e = MaxExp
        <5>1. 2^(Mantissa + e) = Infinity
          BY <4>1 DEF Infinity
        <5>2. y * Infinity \in Nat
          BY <1>3
        <5>3. QED
          BY <1>6, <5>1, <5>2
      <4>2. QED
        BY <1>1, <4>1
    <3>2. 2^(Mantissa + e) = P * 2^e
      BY <1>1, InfinityFacts
    <3>3. y * (P * 2^e) = (y * 2^e) * P
      BY <1>3
    <3>4. QED
      BY <3>1, <3>2, <3>3
  <2>4. q <= P
    BY <1>3, <1>4, <2>3, UnitsFacts
  <2>5. m \in Size \union {Infinity}
    <3>1. CASE q < P
      <4>1. q \in 0..(2^Mantissa - 1) /\ m = q * 2^e
        BY <1>3, <2>1, <2>2, <3>1
      <4>2. QED
        BY <1>1, <4>1 DEF Size
    <3>2. CASE q = P /\ e = MaxExp
      <4>1. Infinity = P * 2^e
        BY <1>2, <3>2, PowerSum DEF Infinity
      <4>2. QED
        BY <1>3, <2>1, <3>2, <4>1
    <3>3. CASE q = P /\ e # MaxExp
      <4>1. e + 1 \in 0..MaxExp /\ 2^(e + 1) = 2 * 2^e
        BY <1>1, <1>2, <3>3, PowerStep
      <4>2. P = 2 * 2^(Mantissa - 1) /\ 2^(Mantissa - 1) \in Nat \ {0}
        <5>1. 2^((Mantissa - 1) + 1) = 2 * 2^(Mantissa - 1) /\ (Mantissa - 1) + 1 = Mantissa
          BY <1>2, PowerStep
        <5>2. QED
          BY <1>2, <5>1, PowerPositive
      <4>3. 2^(Mantissa - 1) \in 0..(2^Mantissa - 1)
        BY <1>3, <4>2
      <4>4. m = 2^(Mantissa - 1) * 2^(e + 1)
        BY <1>3, <2>1, <3>3, <4>1, <4>2
      <4>5. QED
        BY <4>1, <4>3, <4>4 DEF Size
    <3>4. QED
      BY <1>3, <2>2, <2>4, <3>1, <3>2, <3>3
  <2>6. ASSUME a >= y PROVE m # 0
    <3>1. a >= y * 2^e
      <4>1. CASE e = 0
        <5>1. 2^e = 1
          BY <4>1
        <5>2. QED
          BY <2>6, <5>1
      <4>2. CASE e # 0
        <5>1. Mantissa + e - 1 \in Nat /\ e <= Mantissa + e - 1
          BY <1>2, <1>3
        <5>2. 2^e <= 2^(Mantissa + e - 1) /\ 2^(Mantissa + e - 1) \in Nat
          BY <1>3, <5>1, PowerGrows, PowerPositive
        <5>3. y * 2^e <= y * 2^(Mantissa + e - 1) /\ y * 2^(Mantissa + e - 1) \in Nat
          BY <1>3, <5>2
        <5>4. QED
          BY <1>1, <1>4, <4>2, <5>3
      <4>3. QED
        BY <4>1, <4>2
    <3>2. q >= 1
      BY <1>4, <3>1, UnitsFacts
    <3>3. QED
      BY <1>3, <2>1, <2>2, <3>2
  <2>7. ASSUME a = 0 PROVE m = 0
    <3>1. q = 0
      BY <1>4, <2>7, UnitsFacts
    <3>2. QED
      BY <1>3, <2>1, <3>1
  <2>8. ASSUME y = 1, a \in Size \union {Infinity} PROVE m = a
    <3>1. a # Infinity
      BY <1>3, <1>6, <2>8
    <3>2. PICK n \in 0..(2^Mantissa - 1), j \in 0..MaxExp : a = n * 2^j
      BY <2>8, <3>1 DEF Size
    <3>3. n \in Nat /\ n < P /\ j \in Nat /\ 2^j \in Nat \ {0}
      BY <1>3, <3>2, PowerPositive
    <3>4. e <= j
      <4>1. SUFFICES ASSUME j < e PROVE FALSE
        BY <1>3, <3>3
      <4>2. a >= 2^(Mantissa + e - 1)
        <5>1. Mantissa + e - 1 \in Nat
          BY <1>2, <1>3, <3>3, <4>1
        <5>2. 2^(Mantissa + e - 1) \in Nat
          BY <5>1, PowerPositive
        <5>3. QED
          BY <1>1, <2>8, <3>3, <4>1, <5>2
      <4>3. 2^(Mantissa + j) <= 2^(Mantissa + e - 1)
        <5>1. Mantissa + j \in Nat /\ Mantissa + e - 1 \in Nat /\ Mantissa + j <= Mantissa + e - 1
          BY <1>2, <1>3, <3>3, <4>1
        <5>2. QED
          BY <5>1, PowerGrows
      <4>4. 2^(Mantissa + j) = P * 2^j
        BY <1>2, <3>3, PowerSum
      <4>5. n * 2^j < P * 2^j
        BY <1>3, <3>3
      <4>6. 2^(Mantissa + e - 1) \in Int /\ P * 2^j \in Int
        BY <1>2, <1>3, <3>3, <4>1, PowerPositive
      <4>7. QED
        BY <3>2, <4>2, <4>3, <4>4, <4>5, <4>6
    <3>5. j - e \in Nat /\ 2^j = 2^e * 2^(j - e) /\ 2^(j - e) \in Nat
      <4>1. j - e \in Nat /\ e + (j - e) = j
        BY <1>3, <3>3, <3>4
      <4>2. QED
        BY <1>3, <4>1, PowerSum, PowerPositive
    <3>6. a = (n * 2^(j - e)) * (y * 2^e) /\ n * 2^(j - e) \in Nat
      <4>1. n * (2^e * 2^(j - e)) = (n * 2^(j - e)) * 2^e
        BY <1>3, <3>3, <3>5
      <4>2. y * 2^e = 2^e
        BY <1>3, <2>8
      <4>3. QED
        BY <3>2, <3>3, <3>5, <4>1, <4>2
    <3>7. q = n * 2^(j - e)
      BY <1>4, <3>6, UnitsFacts
    <3>8. QED
      BY <1>3, <2>1, <2>8, <3>3, <3>6, <3>7
  <2>9. m \in Nat
    BY <1>3, <2>1, <2>2
  <2>10. QED
    BY <2>5, <2>6, <2>7, <2>8, <2>9 DEF e
<1>7. QED
  BY <1>5, <1>6

\* A real that is no multiple of the last place is further away than the smallest
\* number with this last place.
LEMMA NearestSize ==
  ASSUME NEW a \in Nat, NEW y \in Nat \ {0}, a <= y * Infinity,
         NEW s \in Size \union {Infinity}
  PROVE  LET e == LastPlace(a, y)
             m == Magnitude(a, y, e)
         IN  /\ Abs(y * m - a) <= Abs(y * s - a)
             /\ s # m /\ Abs(y * m - a) = Abs(y * s - a) => \E n \in Nat : m = 2 * n * 2^e
<1> DEFINE e == LastPlace(a, y)
           m == Magnitude(a, y, e)
           U == y * 2^e
           q == InUnits(a, U)
           Far(t) == /\ Abs(y * m - a) <= Abs(y * t - a)
                     /\ t # m /\ Abs(y * m - a) = Abs(y * t - a) => \E n \in Nat : m = 2 * n * 2^e
<1>1. /\ e \in 0..MaxExp /\ (e = 0 \/ a >= y * 2^(Mantissa + e - 1))
      /\ e = MaxExp \/ a < y * 2^(Mantissa + e)
  BY LastPlaceFacts
<1>2. Mantissa \in Nat /\ Mantissa > 1 /\ MaxExp \in Nat /\ e \in Nat
  BY <1>1, WidthAssumption
<1>3. 2^e \in Nat \ {0} /\ U \in Nat \ {0} /\ Infinity \in Nat \ {0}
  BY <1>2, PowerPositive, InfinityFacts
<1>4. s \in Nat /\ m \in Nat
  BY InfinityFacts, MagnitudeFacts
<1>5. CASE a = y * Infinity
  <2>1. m = Infinity
    BY <1>3, <1>5 DEF Magnitude
  <2>2. y * m - a = 0 /\ y * s \in Nat /\ y * Infinity \in Nat
    BY <1>3, <1>4, <1>5, <2>1
  <2>3. s # m => y * s # y * Infinity
    BY <1>3, <1>4, <2>1
  <2>4. QED
    BY <1>5, <2>2, <2>3 DEF Abs
<1>6. CASE a < y * Infinity
  <2>1. m = 2^e * q /\ q \in Nat
    BY <1>3, <1>6, UnitsFacts DEF Magnitude
  <2>2. y * m = U * q
    BY <1>3, <2>1
  <2>3. ASSUME NEW n \in Nat PROVE Far(n * 2^e)
    <3>1. y * (n * 2^e) = U * n
      BY <1>3
    <3>2. n * 2^e # m => n # q
      BY <1>3, <2>1
    <3>3. ASSUME q % 2 = 0 PROVE \E k \in Nat : m = 2 * k * 2^e
      <4>1. PICK k \in Nat : q = 2 * k
        <5>1. q = 2 * (q \div 2) /\ q \div 2 \in Nat
          BY <2>1, <3>3
        <5>2. QED
          BY <5>1
      <4>2. m = 2 * k * 2^e
        BY <1>3, <2>1, <4>1
      <4>3. QED
        BY <4>2
    <3>4. /\ Abs(U * q - a) <= Abs(U * n - a)
          /\ n # q /\ Abs(U * q - a) = Abs(U * n - a) => q % 2 = 0
      BY <1>3, UnitsAreNearest
    <3> HIDE DEF m, U, q, e
    <3>5. QED
      BY <2>2, <3>1, <3>2, <3>3, <3>4
  <2>4. CASE s = Infinity
    <3>1. (Mantissa + MaxExp) - e \in Nat /\ ((Mantissa + MaxExp) - e) + e = Mantissa + MaxExp
      BY <1>1, <1>2
    <3>2. Infinity = 2^((Mantissa + MaxExp) - e) * 2^e /\ 2^((Mantissa + MaxExp) - e) \in Nat
      BY <1>2, <3>1, PowerSum, PowerPositive DEF Infinity
    <3>3. QED
      BY <2>3, <2>4, <3>2
  <2>5. CASE s \in Size
    <3>1. PICK n \in 0..(2^Mantissa - 1), j \in 0..MaxExp : s = n * 2^j
      BY <2>5 DEF Size
    <3>2. n \in Nat /\ n < 2^Mantissa /\ 2^Mantissa \in Nat /\ j \in Nat /\ 2^j \in Nat \ {0}
      BY <1>2, <3>1, PowerPositive
    <3>3. CASE e <= j
      <4>1. j - e \in Nat /\ (j - e) + e = j
        BY <1>2, <3>2, <3>3
      <4>2. 2^j = 2^(j - e) * 2^e /\ 2^(j - e) \in Nat
        BY <1>2, <4>1, PowerSum, PowerPositive
      <4>3. s = (n * 2^(j - e)) * 2^e /\ n * 2^(j - e) \in Nat
        BY <1>3, <3>1, <3>2, <4>2
      <4>4. QED
        BY <2>3, <4>3
    <3>4. CASE j < e
      <4> DEFINE b == 2^(Mantissa - 1)
                 B == b * 2^e
      <4>1. b \in Nat /\ 2^(Mantissa + e - 1) = B
        <5>1. Mantissa - 1 \in Nat /\ (Mantissa - 1) + e = Mantissa + e - 1
          BY <1>2
        <5>2. QED
          BY <1>2, <5>1, PowerSum, PowerPositive
      <4>2. a >= y * B
        BY <1>1, <1>2, <3>2, <3>4, <4>1
      <4>3. s < B
        <5>1. 2^(Mantissa + j) = 2^Mantissa * 2^j
          BY <1>2, <3>2, PowerSum
        <5>2. n * 2^j < 2^Mantissa * 2^j
          BY <3>2
        <5>3. 2^(Mantissa + j) <= 2^(Mantissa + e - 1)
          <6>1. Mantissa + j \in Nat /\ Mantissa + e - 1 \in Nat /\ Mantissa + j <= Mantissa + e - 1
            BY <1>2, <3>2, <3>4
          <6>2. QED
            BY <6>1, PowerGrows
        <5>4. 2^Mantissa * 2^j \in Int /\ B \in Int /\ n * 2^j \in Int
          BY <1>3, <3>2, <4>1
        <5>5. QED
          BY <3>1, <4>1, <5>1, <5>2, <5>3, <5>4
      <4>4. Far(B)
        BY <2>3, <4>1
      <4>5. B \in Nat /\ y * s < y * B /\ y * s \in Nat /\ y * B \in Nat /\ y * m \in Nat
        <5>1. B \in Nat
          BY <1>3, <4>1
        <5>2. QED
          BY <1>4, <4>3, <5>1
      <4>6. Far(s)
        <5> HIDE DEF b, B, m, U, q, e
        <5>1. QED
          BY <4>2, <4>4, <4>5 DEF Abs
      <4>7. QED
        BY ONLY <4>6, Zenon
    <3>5. QED
      BY <1>2, <3>2, <3>3, <3>4
  <2>6. Far(s)
    BY <2>4, <2>5
  <2>7. QED
    BY ONLY <2>6, Zenon
<1>7. a = y * Infinity \/ a < y * Infinity
  BY <1>3
<1>8. QED
  BY <1>5, <1>6, <1>7

(* Rounding: every quotient becomes a real, reals stay what they are, signs *)
(* are kept, and nothing of one or more becomes zero.                       *)
THEOREM Rounding ==
  ASSUME NEW x \in Int, NEW y \in Nat \ {0}
  PROVE  /\ Nearest(x, y) \in Float64 /\ Nearest(x, y) \in Int
         /\ x >= 0 => Nearest(x, y) >= 0
         /\ x <= 0 => Nearest(x, y) <= 0
         /\ Abs(x) >= y => Nearest(x, y) # 0
         /\ y = 1 /\ x \in Float64 => Nearest(x, y) = x
<1> DEFINE a == Abs(x)
           m == Magnitude(a, y, LastPlace(a, y))
<1>1. a \in Nat /\ (x = a \/ x = -a) /\ (x = 0 <=> a = 0) /\ x = Sign(x) * a
  BY DEF Abs, Sign
<1>2. /\ m \in Size \union {Infinity} /\ m \in Nat
      /\ a >= y => m # 0
      /\ a = 0 => m = 0
      /\ y = 1 /\ a \in Size \union {Infinity} => m = a
  BY <1>1, MagnitudeFacts
<1>3. Nearest(x, y) = Sign(x) * m
  BY DEF Nearest
<1>4. x \in Float64 => a \in Size \union {Infinity}
  BY Reals
<1> HIDE DEF a, m
<1>5. Nearest(x, y) \in Int /\ Abs(Nearest(x, y)) = m
  BY <1>1, <1>2, <1>3 DEF Sign, Abs
<1>6. Nearest(x, y) \in Float64
  BY <1>2, <1>5, Reals
<1>7. ASSUME a >= y PROVE Nearest(x, y) # 0
  BY <1>2, <1>5, <1>7 DEF Abs
<1>8. ASSUME y = 1, x \in Float64 PROVE Nearest(x, y) = x
  BY <1>1, <1>2, <1>3, <1>4, <1>8
<1>9. (x >= 0 => Nearest(x, y) >= 0) /\ (x <= 0 => Nearest(x, y) <= 0)
  BY <1>1, <1>2, <1>3 DEF Sign
<1>10. QED
  BY <1>5, <1>6, <1>7, <1>8, <1>9 DEF a

(* It is the nearest real, and of two that are as near the one whose last    *)
(* place is even; beyond the largest real it is an infinity.                *)
THEOREM HalfToEven ==
  ASSUME NEW x \in Int, NEW y \in Nat \ {0}, NEW r \in Float64
  PROVE  LET f == Nearest(x, y)
         IN  /\ Abs(x) >= y * Infinity => Abs(f) = Infinity
             /\ Abs(x) <= y * Infinity => Abs(y * f - x) <= Abs(y * r - x)
             /\ Abs(x) <= y * Infinity /\ r # f /\ Abs(y * f - x) = Abs(y * r - x)
                  => \E n \in Int : f = 2 * n * 2^LastPlace(Abs(x), y)
<1> DEFINE a == Abs(x)
           e == LastPlace(a, y)
           m == Magnitude(a, y, e)
           s == Abs(r)
           f == Nearest(x, y)
<1>1. a \in Nat /\ (x >= 0 => x = a /\ Sign(x) = IF a = 0 THEN 0 ELSE 1) /\ (x < 0 => x = -a /\ Sign(x) = -1)
  BY DEF Abs, Sign
<1>2. r \in Int /\ s \in Size \union {Infinity} /\ s \in Nat /\ (r = s \/ r = -s)
  BY Reals DEF Abs
<1>3. m \in Nat /\ (a = 0 => m = 0) /\ Infinity \in Nat
  BY <1>1, MagnitudeFacts, InfinityFacts
<1>4. f = Sign(x) * m
  BY DEF Nearest
<1>5. a >= y * Infinity => m = Infinity
  BY DEF Magnitude
<1>6. a <= y * Infinity =>
        /\ Abs(y * m - a) <= Abs(y * s - a)
        /\ s # m /\ Abs(y * m - a) = Abs(y * s - a) => \E n \in Nat : m = 2 * n * 2^e
  BY <1>1, <1>2, NearestSize
<1>7. 2^e \in Nat
  BY <1>1, LastPlaceFacts, PowerPositive
<1> HIDE DEF a, e, m, s, f
<1>8. (x >= 0 => f = m) /\ (x < 0 => f = -m)
  BY <1>1, <1>3, <1>4
<1>9. a >= y * Infinity => Abs(f) = Infinity
  BY <1>3, <1>5, <1>8 DEF Abs
<1>10. y * m \in Nat /\ y * s \in Nat /\ y * (-m) = -(y * m) /\ y * (-s) = -(y * s)
  BY <1>2, <1>3
<1>11. Abs(y * f - x) = Abs(y * m - a)
  BY <1>1, <1>8, <1>10 DEF Abs
<1>12. Abs(y * s - a) <= Abs(y * r - x)
  BY <1>1, <1>2, <1>10 DEF Abs
<1>13. ASSUME r # f, s = m, Abs(y * m - a) = Abs(y * r - x) PROVE m = 0
  \* The real of the same size on the other side of zero is as near only if both are zero.
  <2>1. CASE a = 0
    BY <1>3, <2>1
  <2>2. CASE a # 0
    <3>1. (x >= 0 /\ r = -m) \/ (x < 0 /\ r = m)
      BY <1>2, <1>8, <1>13
    <3>2. y * r - x = -(y * m + a) \/ y * r - x = y * m + a
      BY <1>1, <1>10, <3>1
    <3>3. Abs(y * m - a) = y * m + a
      BY <1>1, <1>10, <1>13, <3>2 DEF Abs
    <3>4. y * m = 0
      BY <1>1, <1>10, <2>2, <3>3 DEF Abs
    <3>5. QED
      BY <1>3, <3>4
  <2>3. QED
    BY <2>1, <2>2
<1>14. ASSUME a <= y * Infinity, r # f, Abs(y * f - x) = Abs(y * r - x)
       PROVE  \E n \in Int : f = 2 * n * 2^e
  <2>1. PICK n \in Nat : m = 2 * n * 2^e
    <3>1. CASE s = m
      <4>1. m = 2 * 0 * 2^e
        BY <1>7, <1>11, <1>13, <1>14, <3>1
      <4>2. QED
        BY <4>1
    <3>2. CASE s # m
      <4>1. Abs(y * m - a) = Abs(y * s - a)
        BY <1>1, <1>6, <1>10, <1>11, <1>12, <1>14, <3>2 DEF Abs
      <4>2. QED
        BY <1>6, <1>14, <3>2, <4>1
    <3>3. QED
      BY <3>1, <3>2
  <2>2. CASE x >= 0
    BY <1>8, <2>1, <2>2
  <2>3. CASE x < 0
    <3>1. f = 2 * (-n) * 2^e /\ -n \in Int
      BY <1>7, <1>8, <2>1, <2>3
    <3>2. QED
      BY <3>1
  <2>4. QED
    BY <2>2, <2>3
<1>15. a <= y * Infinity => Abs(y * f - x) <= Abs(y * r - x)
  BY <1>1, <1>2, <1>3, <1>6, <1>8, <1>10, <1>11, <1>12 DEF Abs
<1>16. QED
  BY <1>9, <1>14, <1>15 DEF a, e, f

\* The number that a real has before the point is a real.
LEMMA TruncationIsReal ==
  ASSUME NEW r \in Float64
  PROVE  /\ Quotient(r, One) \in Int /\ One * Quotient(r, One) \in Float64
         /\ r >= 0 => r < One * Quotient(r, One) + One /\ One * Quotient(r, One) <= r
         /\ r <= 0 => r > One * Quotient(r, One) - One /\ One * Quotient(r, One) >= r
<1> DEFINE q == Quotient(r, One)
           t == Remainder(r, One)
<1>1. r \in Int /\ Abs(r) \in Size \union {Infinity}
  BY Reals
<1>2. One \in Nat \ {0}
  BY OneFacts
<1>3. /\ q \in Int /\ t \in Int /\ r = One * q + t /\ Abs(t) < One
      /\ r >= 0 => t >= 0
      /\ r <= 0 => t <= 0
  <2>1. One \in Int /\ One # 0 /\ Abs(One) = One
    BY <1>2 DEF Abs
  <2>2. QED
    BY <1>1, <2>1, QuotientFacts
<1>4. One * q \in Int
  BY <1>2, <1>3
<1>5. Abs(One * q) \in Size \union {Infinity}
  <2>1. PICK k \in 0..MaxExp : One = 2^k
    BY OneFacts
  <2>2. MaxExp \in Nat /\ Mantissa \in Nat
    BY WidthAssumption
  <2>3. ASSUME NEW n \in Nat, Abs(r) = n * One PROVE One * q = r
    \* A real that is a multiple of One is not changed.
    <3>1. PICK j \in Int : r = One * j
      <4>1. r = One * n \/ r = One * (-n)
        BY <1>1, <1>2, <2>3 DEF Abs
      <4>2. QED
        BY <4>1
    <3>2. t = One * (j - q)
      BY <1>2, <1>3, <3>1
    <3>3. j - q = 0
      BY <1>2, <1>3, <3>2 DEF Abs
    <3>4. QED
      BY <1>2, <1>3, <3>1, <3>3
  <2>4. CASE Abs(r) = Infinity
    <3>1. Infinity = 2^((Mantissa + MaxExp) - k) * 2^k /\ 2^((Mantissa + MaxExp) - k) \in Nat
      <4>1. (Mantissa + MaxExp) - k \in Nat /\ k \in Nat /\ ((Mantissa + MaxExp) - k) + k = Mantissa + MaxExp
        BY <2>2
      <4>2. QED
        BY <4>1, PowerSum, PowerPositive DEF Infinity
    <3>2. One * q = r
      BY <2>1, <2>3, <2>4, <3>1
    <3>3. QED
      BY <2>4, <3>2
  <2>5. CASE Abs(r) \in Size
    <3>1. PICK m \in 0..(2^Mantissa - 1), e \in 0..MaxExp : Abs(r) = m * 2^e
      BY <2>5 DEF Size
    <3>2. m \in Nat /\ m < 2^Mantissa /\ 2^Mantissa \in Nat /\ 2^e \in Nat \ {0} /\ e \in Nat /\ k \in Nat
      BY <2>2, <3>1, PowerPositive
    <3>3. CASE k <= e
      <4>1. e - k \in Nat /\ (e - k) + k = e
        BY <3>2, <3>3
      <4>2. 2^e = 2^(e - k) * One /\ 2^(e - k) \in Nat
        BY <2>1, <3>2, <4>1, PowerSum, PowerPositive
      <4>3. Abs(r) = (m * 2^(e - k)) * One /\ m * 2^(e - k) \in Nat
        BY <1>2, <3>1, <3>2, <4>2
      <4>4. One * q = r
        BY <2>3, <4>3
      <4>5. QED
        BY <2>5, <4>4
    <3>4. CASE e < k
      <4>1. k - e \in Nat /\ (k - e) + e = k
        BY <3>2, <3>4
      <4>2. One = 2^(k - e) * 2^e /\ 2^(k - e) \in Nat \ {0}
        BY <2>1, <3>2, <4>1, PowerSum, PowerPositive
      <4> DEFINE d == 2^(k - e)
                 Q == Abs(q)
      <4>3. Q \in Nat /\ Abs(One * q) = One * Q
        <5>1. q >= 0 => One * q >= 0
          BY <1>2, <1>3
        <5>2. q < 0 => One * q < 0
          BY <1>2, <1>3
        <5>3. One * (-q) = -(One * q)
          BY <1>2, <1>3
        <5>4. QED
          BY <1>2, <1>3, <5>1, <5>2, <5>3 DEF Abs
      <4>4. One * Q <= Abs(r)
        <5>1. Abs(One * q) <= Abs(r)
          BY <1>1, <1>2, <1>3, <1>4 DEF Abs
        <5>2. QED
          BY <4>3, <5>1
      <4> HIDE DEF d, Q
      <4>5. One * Q = (d * Q) * 2^e /\ d * Q \in Nat
        BY <3>2, <4>2, <4>3 DEF d
      <4>6. d * Q <= m
        <5>1. SUFFICES ASSUME m < d * Q PROVE FALSE
          BY <3>2, <4>5
        <5>2. m * 2^e < (d * Q) * 2^e
          BY <3>2, <4>5, <5>1
        <5>3. QED
          BY <3>1, <3>2, <4>4, <4>5, <5>2
      <4>7. d * Q \in 0..(2^Mantissa - 1)
        BY <3>2, <4>5, <4>6
      <4>8. QED
        BY <4>3, <4>5, <4>7 DEF Size
    <3>5. QED
      BY <3>2, <3>3, <3>4
  <2>6. QED
    BY <1>1, <2>4, <2>5
<1>6. One * q \in Float64
  BY <1>4, <1>5, Reals
<1>7. /\ r >= 0 => r < One * q + One /\ One * q <= r
      /\ r <= 0 => r > One * q - One /\ One * q >= r
  BY <1>1, <1>2, <1>3, <1>4 DEF Abs
<1>8. QED
  BY <1>3, <1>6, <1>7

-----------------------------------------------------------------------------
\* Induction up to n, as a fact about the set of those it holds of.
LEMMA UpTo ==
  ASSUME NEW n \in Nat, NEW S, 0 \in S, \A m \in 1..n : m - 1 \in S => m \in S
  PROVE  0..n \subseteq S
<1>1. SUFFICES ASSUME NEW x \in 0..n, x \notin S PROVE FALSE
  OBVIOUS
<1> DEFINE R == {k \in 0..n : k \notin S}
<1>2. R \in SUBSET Nat /\ R # {}
  BY <1>1
<1>3. PICK m \in R : \A k \in R : m <= k
  <2> HIDE DEF R
  <2>1. QED
    BY <1>2, LeastElement
<1>4. m # 0
  BY <1>3
<1>5. m - 1 \in S /\ m \in 1..n
  BY <1>3, <1>4
<1>6. QED
  BY <1>3, <1>5

\* Induction over sequences by Append, in the same way.
LEMMA ByAppend ==
  ASSUME NEW E, NEW S, <<>> \in S,
         \A s \in Seq(E), v \in E : s \in S => Append(s, v) \in S
  PROVE  Seq(E) \subseteq S
<1>1. SUFFICES ASSUME NEW s \in Seq(E) PROVE s \in S
  OBVIOUS
<1> DEFINE P(m) == SubSeq(s, 1, m)
           N == {m \in 0..Len(s) : P(m) \in S}
<1>2. Len(s) \in Nat /\ P(0) = <<>> /\ P(Len(s)) = s
  OBVIOUS
<1>3. \A m \in 1..Len(s) : P(m - 1) \in Seq(E) /\ s[m] \in E /\ P(m) = Append(P(m - 1), s[m])
  OBVIOUS
<1> HIDE DEF P
<1>4. 0 \in N
  BY <1>2
<1>5. ASSUME NEW m \in 1..Len(s), m - 1 \in N PROVE m \in N
  <2>1. P(m - 1) \in S /\ m \in 0..Len(s)
    BY <1>2, <1>5
  <2>2. P(m) \in S
    BY <1>3, <2>1
  <2>3. QED
    BY <2>1, <2>2
<1>6. 0..Len(s) \subseteq N
  <2> HIDE DEF N
  <2>1. QED
    BY <1>2, <1>4, <1>5, UpTo
<1>7. QED
  BY <1>2, <1>6

\* The largest element of a set of numbers, when it is the bound.
LEMMA LargestIs == ASSUME NEW m \in Nat \ {0}, NEW T \in SUBSET (1..m), m \in T PROVE Max(T) = m
<1>1. \A x \in T : (\A y \in T : x >= y) <=> x = m
  <2>1. \A x \in T : x \in Int /\ x <= m
    OBVIOUS
  <2>2. QED
    BY <2>1
<1>2. QED
  BY <1>1 DEF Max

\* Every set of positions has one.
LEMMA LargestIn ==
  ASSUME NEW n \in Nat, NEW T \in SUBSET (1..n), T # {}
  PROVE  Max(T) \in T /\ \A y \in T : y <= Max(T)
<1> DEFINE R == {k \in 0..n : n - k \in T}
<1>1. R \in SUBSET Nat
  OBVIOUS
<1>2. R # {}
  <2>1. PICK x \in T : TRUE
    OBVIOUS
  <2>2. n - x \in R
    OBVIOUS
  <2>3. QED
    BY <2>2
<1>3. PICK k \in R : \A j \in R : k <= j
  <2> HIDE DEF R
  <2>1. QED
    BY <1>1, <1>2, LeastElement
<1>4. \A y \in T : n - y \in R
  OBVIOUS
<1>5. \A y \in T : n - k >= y
  BY <1>3, <1>4
<1>6. n - k \in T /\ \A y \in T : y \in Int
  BY <1>3
<1>7. QED
  BY <1>5, <1>6 DEF Max

\* The sets of positions that a fold goes through are the prefixes.
LEMMA PositionsBefore ==
  ASSUME NEW n \in Nat, NEW m \in 1..n
  PROVE  /\ 1..m \in SUBSET (1..n) /\ 1..m # {}
         /\ Max(1..m) = m
         /\ (1..m) \ {m} = 1..(m - 1)
<1>1. 1..m \in SUBSET (1..n)
  OBVIOUS
<1>2. m \in 1..m /\ 1..m \in SUBSET (1..m) /\ m \in Nat \ {0}
  OBVIOUS
<1>3. Max(1..m) = m
  BY <1>2, LargestIs
<1>4. (1..m) \ {m} = 1..(m - 1)
  OBVIOUS
<1>5. QED
  BY <1>1, <1>2, <1>3, <1>4

-----------------------------------------------------------------------------
(* A fold of the steps G over the sequence s, as MapThenFoldSet defines it:  *)
(* on every set of positions.                                                *)
IsFold(iter, base, G, s) == \A t \in SUBSET (1..Len(s)) :
  iter[t] = IF t = {} THEN base ELSE G[<<iter[t \ {Max(t)}], s[Max(t)]>>]

\* There is one, by induction on the positions.
LEMMA FoldExists ==
  ASSUME NEW D, NEW E, NEW base \in D, NEW G \in [D \X E -> D], NEW s \in Seq(E)
  PROVE  \E iter \in [SUBSET (1..Len(s)) -> D] : IsFold(iter, base, G, s)
<1> DEFINE n == Len(s)
           Good(m) == \E iter \in [SUBSET (1..m) -> D] : \A t \in SUBSET (1..m) :
                        iter[t] = IF t = {} THEN base ELSE G[<<iter[t \ {Max(t)}], s[Max(t)]>>]
           S == {m \in 0..n : Good(m)}
<1>0. n \in Nat /\ \A m \in 1..n : s[m] \in E
  OBVIOUS
<1>1. Good(0)
  <2>1. 1..0 = {}
    OBVIOUS
  <2>2. WITNESS [t \in SUBSET (1..0) |-> base] \in [SUBSET (1..0) -> D]
  <2>3. QED
    BY <2>1
<1>2. ASSUME NEW m \in 1..n, Good(m - 1) PROVE Good(m)
  <2>1. PICK g \in [SUBSET (1..(m - 1)) -> D] : \A t \in SUBSET (1..(m - 1)) :
          g[t] = IF t = {} THEN base ELSE G[<<g[t \ {Max(t)}], s[Max(t)]>>]
    BY <1>2
  <2> DEFINE h == [t \in SUBSET (1..m) |-> IF m \in t THEN G[<<g[t \ {m}], s[m]>>] ELSE g[t]]
  <2>2. \A t \in SUBSET (1..m) : t \ {m} \in SUBSET (1..(m - 1)) /\ (m \notin t => t \in SUBSET (1..(m - 1)))
    OBVIOUS
  <2>3. h \in [SUBSET (1..m) -> D]
    <3>1. \A x \in D : G[<<x, s[m]>>] \in D
      BY <1>0
    <3>2. QED
      BY <2>1, <2>2, <3>1
  <2>4. ASSUME NEW t \in SUBSET (1..m)
        PROVE  h[t] = IF t = {} THEN base ELSE G[<<h[t \ {Max(t)}], s[Max(t)]>>]
    <3>1. CASE m \in t
      <4>1. Max(t) = m
        BY <3>1, LargestIs
      <4>2. h[t \ {m}] = g[t \ {m}] /\ t # {}
        BY <2>2, <3>1
      <4>3. QED
        BY <3>1, <4>1, <4>2
    <3>2. CASE m \notin t
      <4>1. t \in SUBSET (1..(m - 1)) /\ h[t] = g[t]
        BY <2>2, <3>2
      <4>2. h[t \ {Max(t)}] = g[t \ {Max(t)}]
        BY <2>2, <3>2
      <4>3. QED
        BY <2>1, <4>1, <4>2
    <3>3. QED
      BY <3>1, <3>2
  <2>5. QED
    BY <2>3, <2>4
<1>3. 0 \in S
  <2> HIDE DEF Good
  <2>1. QED
    BY <1>0, <1>1
<1>4. ASSUME NEW m \in 1..n, m - 1 \in S PROVE m \in S
  <2>1. Good(m - 1)
    BY <1>4
  <2>2. Good(m)
    BY <1>2, <2>1
  <2> HIDE DEF Good
  <2>3. QED
    BY <2>2
<1>5. 0..n \subseteq S
  <2> HIDE DEF S, n
  <2>1. QED
    BY <1>0, <1>3, <1>4, UpTo
<1>6. Good(n)
  <2> HIDE DEF Good
  <2>1. n \in S
    BY <1>0, <1>5
  <2>2. QED
    BY <2>1
<1>7. QED
  BY <1>6 DEF IsFold

\* Step by step it goes through the prefixes of s, and stays in D.
Runs(g, D, base, G, s) == /\ g \in [0..Len(s) -> D] /\ g[0] = base
                          /\ \A m \in 1..Len(s) : g[m] = G[<<g[m - 1], s[m]>>]

\* What it comes to.
Folded(D, base, G, s) == (CHOOSE g : Runs(g, D, base, G, s))[Len(s)]

\* The same of a function that is not known to stay in D.
Follows(f, D, base, G, s) ==
  f[0] = base /\ \A m \in 1..Len(s), x \in D : f[m - 1] = x => f[m] = G[<<x, s[m]>>]

\* There is one way through a sequence.
LEMMA RunsOnce ==
  ASSUME NEW D, NEW base, NEW G, NEW E, NEW s \in Seq(E), NEW g, Runs(g, D, base, G, s),
         NEW f, Follows(f, D, base, G, s)
  PROVE  \A m \in 0..Len(s) : f[m] = g[m]
<1> DEFINE n == Len(s)
           S == {m \in 0..n : f[m] = g[m]}
<1>1. n \in Nat
  OBVIOUS
<1>2. 0 \in S
  BY <1>1 DEF Runs, Follows
<1>3. ASSUME NEW m \in 1..n, m - 1 \in S PROVE m \in S
  <2>1. m - 1 \in 0..n /\ m \in 0..n
    BY <1>1
  <2>2. g[m - 1] \in D /\ g[m] = G[<<g[m - 1], s[m]>>]
    BY <2>1 DEF Runs
  <2>3. f[m] = g[m]
    BY <1>3, <2>2 DEF Follows
  <2>4. QED
    BY <2>1, <2>3
<1>4. 0..n \subseteq S
  <2> HIDE DEF S, n
  <2>1. QED
    BY <1>1, <1>2, <1>3, UpTo
<1>5. QED
  BY <1>4

\* And there is one.
LEMMA RunExists ==
  ASSUME NEW D, NEW E, NEW base \in D, NEW G \in [D \X E -> D], NEW s \in Seq(E)
  PROVE  \E g : Runs(g, D, base, G, s)
<1> DEFINE n == Len(s)
<1>1. n \in Nat
  OBVIOUS
<1>2. PICK iter \in [SUBSET (1..n) -> D] : IsFold(iter, base, G, s)
  BY FoldExists
<1> DEFINE g == [m \in 0..n |-> iter[1..m]]
<1>3. g \in [0..n -> D]
  <2>1. \A m \in 0..n : 1..m \in SUBSET (1..n)
    BY <1>1
  <2>2. QED
    BY <1>2, <2>1
<1>4. g[0] = base
  <2>1. 1..0 = {} /\ {} \in SUBSET (1..n) /\ 0 \in 0..n
    BY <1>1
  <2>2. iter[{}] = base
    BY <1>2, <2>1 DEF IsFold
  <2>3. QED
    BY <2>1, <2>2
<1>5. ASSUME NEW m \in 1..n PROVE g[m] = G[<<g[m - 1], s[m]>>]
  <2>1. iter[1..m] = G[<<iter[1..(m - 1)], s[m]>>]
    BY <1>1, <1>2, PositionsBefore DEF IsFold
  <2>2. m \in 0..n /\ m - 1 \in 0..n
    BY <1>1
  <2>3. QED
    BY <2>1, <2>2
<1>6. QED
  BY <1>3, <1>4, <1>5 DEF Runs

(* So a fold is base for the empty sequence, and one step more for one value *)
(* more.                                                                    *)
LEMMA FoldedIs ==
  ASSUME NEW D, NEW E, NEW base \in D, NEW G \in [D \X E -> D], NEW s \in Seq(E)
  PROVE  /\ Folded(D, base, G, s) \in D
         /\ \A f : Follows(f, D, base, G, s) => f[Len(s)] = Folded(D, base, G, s)
<1>1. PICK g : Runs(g, D, base, G, s) /\ Folded(D, base, G, s) = g[Len(s)]
  BY RunExists DEF Folded
<1>2. Len(s) \in Nat /\ Len(s) \in 0..Len(s)
  OBVIOUS
<1>3. g[Len(s)] \in D
  BY <1>1, <1>2 DEF Runs
<1>4. ASSUME NEW f, Follows(f, D, base, G, s)
      PROVE  f[Len(s)] = g[Len(s)]
  BY <1>1, <1>2, <1>4, RunsOnce
<1>5. QED
  BY <1>1, <1>3, <1>4

\* What makes steps of G: base and G have the types D and E.
Steps(D, E, base, G) == base \in D /\ G \in [D \X E -> D]

\* Of no value it comes to the base.
LEMMA FoldedEmpty ==
  ASSUME NEW D, NEW E, NEW base, NEW G, Steps(D, E, base, G)
  PROVE  Folded(D, base, G, <<>>) = base
<1>1. <<>> \in Seq(E) /\ Len(<<>>) = 0
  OBVIOUS
<1>2. PICK g : Runs(g, D, base, G, <<>>) /\ Folded(D, base, G, <<>>) = g[Len(<<>>)]
  BY <1>1, RunExists DEF Folded, Steps
<1>3. QED
  BY <1>1, <1>2 DEF Runs

\* Of one value more it takes one step more.
LEMMA FoldedStep ==
  ASSUME NEW D, NEW E, NEW base, NEW G, Steps(D, E, base, G), NEW s \in Seq(E), NEW v \in E
  PROVE  Folded(D, base, G, Append(s, v)) = G[<<Folded(D, base, G, s), v>>]
<1> DEFINE n == Len(s)
           sv == Append(s, v)
<1>1. /\ n \in Nat /\ sv \in Seq(E) /\ Len(sv) = n + 1 /\ sv[n + 1] = v
      /\ \A m \in 1..n : sv[m] = s[m]
  OBVIOUS
<1> HIDE DEF n, sv
<1>2. PICK g : Runs(g, D, base, G, sv) /\ Folded(D, base, G, sv) = g[n + 1]
  BY <1>1, RunExists DEF Folded, Steps
<1>3. g[0] = base /\ \A m \in 1..n : g[m] = G[<<g[m - 1], s[m]>>]
  BY <1>1, <1>2 DEF Runs
<1>4. g[n] = Folded(D, base, G, s)
  <2>1. Follows(g, D, base, G, s)
    BY <1>3 DEF Follows, n
  <2>2. base \in D /\ G \in [D \X E -> D]
    BY DEF Steps
  <2>3. g[Len(s)] = Folded(D, base, G, s)
    BY <2>1, <2>2, FoldedIs
  <2>4. QED
    BY <2>3 DEF n
<1>5. n + 1 \in 1..(n + 1) /\ (n + 1) - 1 = n
  BY <1>1
<1>6. g[n + 1] = G[<<g[n], v>>]
  BY <1>1, <1>2, <1>5 DEF Runs
<1>7. QED
  BY <1>2, <1>4, <1>6 DEF sv

\* The values that a fold meets on any set of positions.
LEMMA FoldMeets ==
  ASSUME NEW D, NEW E, NEW base \in D, NEW s \in Seq(E), NEW iter \in [SUBSET (1..Len(s)) -> D],
         NEW t \in SUBSET (1..Len(s)), t # {}
  PROVE  iter[t \ {Max(t)}] \in D /\ s[Max(t)] \in E
<1>1. Len(s) \in Nat
  OBVIOUS
<1>2. Max(t) \in t
  BY <1>1, LargestIn
<1>3. t \ {Max(t)} \in SUBSET (1..Len(s))
  BY <1>2
<1>4. Max(t) \in 1..Len(s)
  BY <1>2
<1>5. QED
  BY <1>3, <1>4

\* A function of sets of positions that on the prefixes steps by G.
StepsBy(iter, D, base, G, s) ==
  /\ iter[{}] = base
  /\ \A m \in 1..Len(s), x \in D : iter[1..(m - 1)] = x => iter[1..m] = G[<<x, s[m]>>]

\* What it comes to on all of them.
OnAll(iter, s) == iter[1..Len(s)]

\* It is the way through the sequence, too.
LEMMA FoldComesTo ==
  ASSUME NEW D, NEW E, NEW base \in D, NEW G \in [D \X E -> D], NEW s \in Seq(E), NEW iter,
         StepsBy(iter, D, base, G, s)
  PROVE  OnAll(iter, s) = Folded(D, base, G, s)
<1> DEFINE f == [m \in 0..Len(s) |-> iter[1..m]]
<1>1. Len(s) \in Nat /\ 1..0 = {}
  OBVIOUS
<1>2. f[0] = base
  BY <1>1 DEF StepsBy
<1>3. \A m \in 1..Len(s) : f[m] = iter[1..m] /\ f[m - 1] = iter[1..(m - 1)]
  BY <1>1
<1>4. Follows(f, D, base, G, s)
  BY <1>2, <1>3 DEF Follows, StepsBy
<1>5. f[Len(s)] = Folded(D, base, G, s)
  <2> HIDE DEF f
  <2>1. QED
    BY <1>4, FoldedIs
<1>6. QED
  BY <1>1, <1>5 DEF OnAll
=============================================================================

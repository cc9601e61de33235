------------------------------ MODULE TextsProofs ------------------------------
(***************************************************************************)
(* Of texts of every length, for every width of the integers: the leading   *)
(* integer of a text is the longest that it starts with, and what is        *)
(* printed reads back (parseLeadingInt); LIKE, and GLOB without classes,     *)
(* find what the pattern means (patternCompare); a script is cut at the     *)
(* semicolons that are tokens (splitStatements against tokenize).           *)
(*                                                                         *)
(* A numeral is read by a fold, of which a lemma says where it is after     *)
(* each character.  patternCompare and the meaning of a pattern are          *)
(* functions of a position in the pattern and one in the string that look   *)
(* only at positions behind: such functions exist, and agree at every       *)
(* position, from the end of the pattern on.  So are tokenize and            *)
(* splitStatements, of a position in the script: a text that is cut before a *)
(* semicolon starts with the token it started with, and behind a token that  *)
(* is not a semicolon splitStatements is in the same statement, with no      *)
(* string open.                                                             *)
(***************************************************************************)
EXTENDS Texts, NumbersProofs

LEMMA NumeralFacts ==
  /\ "0" \in Digit
  /\ Digit \cap {" ", "-", "+", ".", "e"} = {}
  /\ \A c \in Digit : DigitOf[c] \in 0..9
  /\ \A d \in 0..9 : Numeral[d + 1] \in Digit /\ DigitOf[Numeral[d + 1]] = d
<1>1. /\ Numeral[1] = "0" /\ Numeral[2] = "1" /\ Numeral[3] = "2" /\ Numeral[4] = "3" /\ Numeral[5] = "4"
      /\ Numeral[6] = "5" /\ Numeral[7] = "6" /\ Numeral[8] = "7" /\ Numeral[9] = "8" /\ Numeral[10] = "9"
  BY DEF Numeral
<1>2. 1..10 = {1, 2, 3, 4, 5, 6, 7, 8, 9, 10}
  OBVIOUS
<1>3. Digit = {"0", "1", "2", "3", "4", "5", "6", "7", "8", "9"}
  <2>1. Digit = {Numeral[k] : k \in 1..10}
    BY DEF Digit, DigitOf
  <2>2. QED
    BY <1>1, <1>2, <2>1
<1>4. ASSUME NEW d \in 0..9 PROVE Numeral[d + 1] \in Digit /\ DigitOf[Numeral[d + 1]] = d
  <2>1. d + 1 \in 1..10
    OBVIOUS
  <2> DEFINE at == CHOOSE k \in 1..10 : Numeral[k] = Numeral[d + 1]
  <2>2. \A k \in 1..10 : Numeral[k] = Numeral[d + 1] => k = d + 1
    <3>1. d + 1 \in {1, 2, 3, 4, 5, 6, 7, 8, 9, 10}
      BY <1>2, <2>1
    <3>2. QED
      BY <1>1, <1>2, <3>1, SMTT(30)
  <2>3. DigitOf[Numeral[d + 1]] = at - 1
    BY <2>1 DEF DigitOf
  <2>4. at = d + 1
    BY <2>1, <2>2
  <2>5. Numeral[d + 1] \in Digit
    BY <2>1 DEF Digit, DigitOf
  <2>6. (d + 1) - 1 = d
    OBVIOUS
  <2>7. QED
    <3> HIDE DEF at
    <3>1. QED
      BY <2>3, <2>4, <2>5, <2>6
<1>5. ASSUME NEW c \in Digit PROVE DigitOf[c] \in 0..9
  <2>1. PICK k \in 1..10 : c = Numeral[k]
    BY DEF Digit, DigitOf
  <2>2. k - 1 \in 0..9 /\ (k - 1) + 1 = k
    OBVIOUS
  <2>3. QED
    BY <1>4, <2>1, <2>2
<1>6. "0" \in Digit /\ Digit \cap {" ", "-", "+", ".", "e"} = {}
  BY <1>3
<1>7. QED
  BY <1>4, <1>5, <1>6

\* How far a prefix of certain characters goes is one number.
LEMMA SpanIs ==
  ASSUME NEW E, NEW s \in Seq(E), NEW chars
  PROVE  /\ Span(s, chars) \in 0..Len(s)
         /\ \A k \in 1..Span(s, chars) : s[k] \in chars
         /\ Span(s, chars) = Len(s) \/ s[Span(s, chars) + 1] \notin chars
         /\ \A n \in 0..Len(s) : /\ \A k \in 1..n : s[k] \in chars
                                 /\ n = Len(s) \/ s[n + 1] \notin chars
                                 => Span(s, chars) = n
<1> DEFINE P(n) == (\A k \in 1..n : s[k] \in chars) /\ (n = Len(s) \/ s[n + 1] \notin chars)
<1>0. Len(s) \in Nat
  OBVIOUS
<1>1. \E n \in 0..Len(s) : P(n)
  <2>1. CASE \A k \in 1..Len(s) : s[k] \in chars
    BY <1>0, <2>1
  <2>2. CASE \E k \in 1..Len(s) : s[k] \notin chars
    <3> DEFINE R == {k \in 1..Len(s) : s[k] \notin chars}
    <3>1. R \in SUBSET Nat /\ R # {}
      BY <2>2
    <3>2. PICK m \in R : \A k \in R : m <= k
      <4> HIDE DEF R
      <4>1. QED
        BY <3>1, LeastElement
    <3>3. m - 1 \in 0..Len(s) /\ P(m - 1)
      BY <3>2
    <3>4. QED
      BY <3>3
  <2>3. QED
    BY <2>1, <2>2
<1>2. Span(s, chars) \in 0..Len(s) /\ P(Span(s, chars))
  BY <1>1 DEF Span
<1>3. ASSUME NEW n \in 0..Len(s), NEW m \in 0..Len(s), P(n), P(m), n < m PROVE FALSE
  <2>1. n + 1 \in 1..m /\ n # Len(s)
    BY <1>0, <1>3
  <2>2. QED
    BY <1>3, <2>1
<1>4. ASSUME NEW n \in 0..Len(s), P(n) PROVE Span(s, chars) = n
  <2> HIDE DEF P
  <2>1. ~(n < Span(s, chars)) /\ ~(Span(s, chars) < n)
    BY <1>2, <1>3, <1>4
  <2>2. QED
    BY <1>0, <1>2, <2>1
<1>5. QED
  BY <1>2, <1>4

-----------------------------------------------------------------------------
\* Decimal, digit by digit.
DecimalStep(n, c) == 10 * n + DigitOf[c]
Count == Nat
Decimals == [x \in Nat \X Digit |-> DecimalStep(x[1], x[2])]

LEMMA DecimalTypes == 0 \in Count /\ Decimals \in [Count \X Digit -> Count] /\ Steps(Count, Digit, 0, Decimals)
<1>1. ASSUME NEW n \in Nat, NEW c \in Digit PROVE DecimalStep(n, c) \in Nat
  <2>1. DigitOf[c] \in 0..9
    BY NumeralFacts
  <2>2. QED
    BY <2>1 DEF DecimalStep
<1>2. QED
  BY <1>1 DEF Decimals, Steps, Count

\* As FoldLeft computes it.
LEMMA DecimalFold ==
  ASSUME NEW s \in Seq(Digit)
  PROVE  Decimal(s) = Folded(Count, 0, Decimals, s)
<1> DEFINE Recursive(iter) == iter = [t \in SUBSET (DOMAIN s) |->
             IF t = {} THEN 0 ELSE DecimalStep(iter[t \ {Max(t)}], s[Max(t)])]
<1>1. /\ Len(s) \in Nat /\ DOMAIN s = 1..Len(s)
      /\ 0 \in Count /\ Decimals \in [Count \X Digit -> Count]
  BY DecimalTypes
<1>2. Decimal(s) = (CHOOSE iter : Recursive(iter))[DOMAIN s]
  BY Zenon DEF Decimal, FoldLeft, MapThenFoldSet, DecimalStep
<1>3. PICK iter \in [SUBSET (1..Len(s)) -> Count] : IsFold(iter, 0, Decimals, s)
  BY <1>1, FoldExists
<1>4. \A t \in SUBSET (1..Len(s)) : iter[t] =
        IF t = {} THEN 0 ELSE DecimalStep(iter[t \ {Max(t)}], s[Max(t)])
  BY <1>1, <1>3, FoldMeets DEF IsFold, Decimals, Count
<1>5. Recursive(iter)
  BY <1>1, <1>3, <1>4
<1>6. PICK fold : Recursive(fold) /\ Decimal(s) = fold[1..Len(s)]
  BY <1>1, <1>2, <1>5
<1>7. fold[{}] = 0
  BY <1>6
<1>8. ASSUME NEW m \in 1..Len(s), NEW x \in Count, fold[1..(m - 1)] = x
      PROVE  fold[1..m] = Decimals[<<x, s[m]>>]
  <2>1. fold[1..m] = DecimalStep(fold[(1..m) \ {Max(1..m)}], s[Max(1..m)])
    BY <1>1, <1>6, PositionsBefore
  <2>2. fold[1..m] = DecimalStep(x, s[m])
    BY <1>1, <1>8, <2>1, PositionsBefore
  <2>3. s[m] \in Digit
    BY <1>1
  <2>4. QED
    BY <2>2, <2>3 DEF Decimals, Count
<1>9. StepsBy(fold, Count, 0, Decimals, s)
  BY <1>7, <1>8 DEF StepsBy
<1>10. OnAll(fold, s) = Folded(Count, 0, Decimals, s)
  <2>1. 0 \in Count /\ Decimals \in [Count \X Digit -> Count] /\ s \in Seq(Digit)
    BY <1>1
  <2>2. QED
    BY ONLY <2>1, <1>9, FoldComesTo, ZenonT(60)
<1>11. QED
  BY <1>6, <1>10 DEF OnAll

\* Digit after digit.
LEMMA DecimalSteps ==
  /\ Decimal(<<>>) = 0
  /\ \A s \in Seq(Digit), c \in Digit : /\ Decimal(s) \in Nat
                                        /\ Decimal(Append(s, c)) = 10 * Decimal(s) + DigitOf[c]
<1>1. Decimal(<<>>) = 0
  <2>1. <<>> \in Seq(Digit)
    OBVIOUS
  <2>2. Folded(Count, 0, Decimals, <<>>) = 0
    BY DecimalTypes, FoldedEmpty
  <2>3. QED
    BY <2>1, <2>2, DecimalFold
<1>2. ASSUME NEW s \in Seq(Digit), NEW c \in Digit
      PROVE  Decimal(s) \in Nat /\ Decimal(Append(s, c)) = 10 * Decimal(s) + DigitOf[c]
  <2>1. Append(s, c) \in Seq(Digit)
    OBVIOUS
  <2>2. Folded(Count, 0, Decimals, s) \in Count
    BY DecimalTypes, FoldedIs
  <2>3. Folded(Count, 0, Decimals, Append(s, c)) = Decimals[<<Folded(Count, 0, Decimals, s), c>>]
    BY DecimalTypes, FoldedStep
  <2>4. /\ Decimal(s) = Folded(Count, 0, Decimals, s)
        /\ Decimal(Append(s, c)) = Folded(Count, 0, Decimals, Append(s, c))
    BY <2>1, DecimalFold
  <2>5. QED
    BY <2>2, <2>3, <2>4 DEF Decimals, DecimalStep, Count
<1>3. QED
  BY <1>1, <1>2

-----------------------------------------------------------------------------
\* The digits of n, from those of the numbers below it.
DigitsFrom(f, n) == IF n < 10 THEN <<Numeral[n + 1]>> ELSE Append(f[n \div 10], Numeral[(n % 10) + 1])

\* The digits of every number exist, by induction, ...
LEMMA DigitsExist ==
  ASSUME NEW m \in Nat
  PROVE  \E f \in [0..m -> Seq(Digit)] : \A n \in 0..m : f[n] = DigitsFrom(f, n)
<1> DEFINE Good(k) == \E f \in [0..k -> Seq(Digit)] : \A n \in 0..k : f[n] = DigitsFrom(f, n)
           S == {k \in 0..m : Good(k)}
<1>1. ASSUME NEW n \in Nat
      PROVE  /\ n % 10 \in 0..9 /\ n \div 10 \in Nat
             /\ n >= 10 => n \div 10 < n
             /\ n < 10 => Numeral[n + 1] \in Digit
             /\ Numeral[(n % 10) + 1] \in Digit
  <2>1. n % 10 \in 0..9 /\ n \div 10 \in Nat /\ (n >= 10 => n \div 10 < n) /\ (n < 10 => n \in 0..9)
    OBVIOUS
  <2>2. \A d \in 0..9 : Numeral[d + 1] \in Digit
    BY NumeralFacts
  <2>3. Numeral[(n % 10) + 1] \in Digit
    BY <2>1, <2>2, ZenonT(20)
  <2>4. QED
    BY <2>1, <2>2, <2>3, ZenonT(20)
<1>2. Good(0)
  <2>1. [n \in 0..0 |-> <<Numeral[n + 1]>>] \in [0..0 -> Seq(Digit)]
    BY <1>1
  <2>2. WITNESS [n \in 0..0 |-> <<Numeral[n + 1]>>] \in [0..0 -> Seq(Digit)]
  <2>3. QED
    BY DEF DigitsFrom
<1>3. ASSUME NEW k \in 1..m, Good(k - 1) PROVE Good(k)
  <2>1. PICK g \in [0..(k - 1) -> Seq(Digit)] : \A n \in 0..(k - 1) : g[n] = DigitsFrom(g, n)
    BY <1>3
  <2> DEFINE h == [n \in 0..k |-> IF n = k THEN DigitsFrom(g, k) ELSE g[n]]
  <2>2. k >= 10 => k \div 10 \in 0..(k - 1)
    BY <1>1
  <2>3. DigitsFrom(g, k) \in Seq(Digit)
    <3>1. CASE k < 10
      BY <1>1, <3>1 DEF DigitsFrom
    <3>2. CASE k >= 10
      <4>1. g[k \div 10] \in Seq(Digit) /\ Numeral[(k % 10) + 1] \in Digit
        BY <1>1, <2>1, <2>2, <3>2
      <4>2. DigitsFrom(g, k) = Append(g[k \div 10], Numeral[(k % 10) + 1])
        BY <3>2 DEF DigitsFrom
      <4>3. QED
        BY <4>1, <4>2
    <3>3. QED
      BY <3>1, <3>2
  <2>4. h \in [0..k -> Seq(Digit)]
    BY <2>1, <2>3
  <2>5. ASSUME NEW n \in 0..k PROVE h[n] = DigitsFrom(h, n)
    <3>1. n >= 10 => n \div 10 \in 0..(k - 1)
      BY <1>1
    <3>2. n >= 10 => h[n \div 10] = g[n \div 10]
      BY <3>1
    <3>3. DigitsFrom(h, n) = DigitsFrom(g, n)
      BY <3>2 DEF DigitsFrom
    <3>4. h[n] = DigitsFrom(g, n)
      BY <2>1
    <3>5. QED
      BY <3>3, <3>4
  <2>6. QED
    BY <2>4, <2>5
<1>4. 0 \in S
  <2> HIDE DEF Good
  <2>1. QED
    BY <1>2
<1>5. ASSUME NEW k \in 1..m, k - 1 \in S PROVE k \in S
  <2>1. Good(k - 1)
    BY <1>5
  <2>2. Good(k)
    BY <1>3, <2>1
  <2> HIDE DEF Good
  <2>3. QED
    BY <2>2
<1>6. m \in S
  <2> HIDE DEF S
  <2>1. 0..m \subseteq S
    BY <1>4, <1>5, UpTo
  <2>2. QED
    BY <2>1
<1>7. QED
  <2> HIDE DEF Good
  <2>1. Good(m)
    BY <1>6
  <2>2. QED
    BY <2>1 DEF Good

\* ... and are what their definition says.
LEMMA DigitsAre ==
  /\ -MinInt \in Nat
  /\ DigitsOf \in [0..(-MinInt) -> Seq(Digit)]
  /\ \A n \in 0..(-MinInt) : DigitsOf[n] = DigitsFrom(DigitsOf, n)
<1>1. -MinInt \in Nat
  BY Limits DEF MinInt
<1>2. PICK f \in [0..(-MinInt) -> Seq(Digit)] : \A n \in 0..(-MinInt) : f[n] = DigitsFrom(f, n)
  BY <1>1, DigitsExist
<1> DEFINE Is(g) == g = [n \in 0..(-MinInt) |-> DigitsFrom(g, n)]
<1>3. Is(f)
  BY <1>2
<1>4. DigitsOf = CHOOSE g : Is(g)
  BY Zenon DEF DigitsOf, DigitsFrom
<1>5. Is(DigitsOf)
  BY <1>3, <1>4
<1>6. \A n \in 0..(-MinInt) : DigitsOf[n] = DigitsFrom(DigitsOf, n)
  BY <1>5
<1>7. ASSUME NEW n \in 0..(-MinInt) PROVE DigitsOf[n] = f[n]
  <2> DEFINE S == {k \in 0..(-MinInt) : \A j \in 0..k : DigitsOf[j] = f[j]}
  <2>1. 0 \in S
    <3>1. DigitsOf[0] = f[0]
      <4>1. 0 \in 0..(-MinInt)
        BY <1>1
      <4>2. DigitsFrom(DigitsOf, 0) = DigitsFrom(f, 0)
        BY DEF DigitsFrom
      <4>3. QED
        BY <1>2, <1>6, <4>1, <4>2
    <3>2. QED
      BY <1>1, <3>1
  <2>2. ASSUME NEW k \in 1..(-MinInt), k - 1 \in S PROVE k \in S
    <3>1. \A j \in 0..(k - 1) : DigitsOf[j] = f[j]
      BY <2>2
    <3>2. DigitsFrom(DigitsOf, k) = DigitsFrom(f, k)
      <4>1. k >= 10 => k \div 10 \in 0..(k - 1)
        OBVIOUS
      <4>2. k >= 10 => DigitsOf[k \div 10] = f[k \div 10]
        BY <3>1, <4>1
      <4>3. QED
        BY <4>2 DEF DigitsFrom
    <3>3. k \in 0..(-MinInt)
      BY <1>1
    <3>4. DigitsOf[k] = f[k]
      BY <1>2, <1>6, <3>2, <3>3
    <3>5. QED
      BY <3>1, <3>3, <3>4
  <2>3. 0..(-MinInt) \subseteq S
    <3> HIDE DEF S
    <3>1. QED
      BY <1>1, <2>1, <2>2, UpTo
  <2>4. QED
    BY <2>3
<1>8. DigitsOf \in [0..(-MinInt) -> Seq(Digit)]
  <2>1. DigitsOf = [n \in 0..(-MinInt) |-> DigitsFrom(DigitsOf, n)]
    BY <1>5
  <2>2. \A n \in 0..(-MinInt) : DigitsOf[n] \in Seq(Digit)
    BY <1>2, <1>7
  <2>3. QED
    BY <2>1, <2>2
<1>9. QED
  BY <1>1, <1>6, <1>8

-----------------------------------------------------------------------------
\* The places of the grammar, and those it never leaves for the integer again.
Beyond == {"point", "fraction", "e", "esign", "power", "end", "none"}
Place == {"start", "signed", "whole"} \union Beyond
CharClass == {"digit", "sign", "point", "e", "blank", "other"}

\* A blank or a sign is no digit, and nothing else is.
LEMMA Classes ==
  /\ \A c : ClassOf(c) \in CharClass /\ (ClassOf(c) = "digit" <=> c \in Digit)
            /\ (ClassOf(c) = "blank" <=> c \in Space) /\ (ClassOf(c) = "sign" <=> c \in {"-", "+"})
<1>1. Digit \cap {" ", "-", "+", ".", "e"} = {}
  BY NumeralFacts
<1>2. SUFFICES ASSUME NEW c
      PROVE  /\ ClassOf(c) \in CharClass /\ (ClassOf(c) = "digit" <=> c \in Digit)
             /\ (ClassOf(c) = "blank" <=> c \in Space) /\ (ClassOf(c) = "sign" <=> c \in {"-", "+"})
  OBVIOUS
<1>3. CASE c \in Digit
  BY <1>1, <1>3 DEF ClassOf, CharClass, Space
<1>4. CASE c \notin Digit /\ c \in {"-", "+", ".", "e", " "}
  BY <1>4 DEF ClassOf, CharClass, Space
<1>5. CASE c \notin Digit /\ c \notin {"-", "+", ".", "e", " "}
  BY <1>5 DEF ClassOf, CharClass, Space
<1>6. QED
  BY <1>3, <1>4, <1>5

\* Where it goes on to from each of them.
LEMMA Onwards ==
  ASSUME NEW at \in Place, NEW class \in CharClass
  PROVE  /\ Onward(at, class) \in Place
         /\ Onward(at, class) = "start" => at = "start" /\ class = "blank"
         /\ Onward(at, class) = "signed" => at = "start" /\ class = "sign"
         /\ Onward(at, class) = "whole" => at \in {"start", "signed", "whole"} /\ class = "digit"
         /\ Onward(at, class) = "power" => class = "digit"
         /\ at = "start" /\ class = "blank" => Onward(at, class) = "start"
         /\ at = "start" /\ class = "sign" => Onward(at, class) = "signed"
         /\ at \in {"start", "signed", "whole"} /\ class = "digit" => Onward(at, class) = "whole"
<1> DEFINE to == {m[3] : m \in {mv \in Moves : mv[1] = at /\ mv[2] = class}}
<1>1. \A p : p \in to <=> <<at, class, p>> \in Moves
  <2>1. \A m \in Moves : m = <<m[1], m[2], m[3]>>
    BY DEF Moves
  <2>2. QED
    BY <2>1
<1>2. ASSUME NEW p, <<at, class, p>> \in Moves
      PROVE  /\ p \in Place
             /\ p = "start" => at = "start" /\ class = "blank"
             /\ p = "signed" => at = "start" /\ class = "sign"
             /\ p = "whole" => at \in {"start", "signed", "whole"} /\ class = "digit"
             /\ p = "power" => class = "digit"
             /\ at = "start" /\ class = "blank" => p = "start"
             /\ at = "start" /\ class = "sign" => p = "signed"
             /\ at \in {"start", "signed", "whole"} /\ class = "digit" => p = "whole"
  BY <1>2 DEF Moves, Place, Beyond
<1>3. /\ at = "start" /\ class = "blank" => <<at, class, "start">> \in Moves
      /\ at = "start" /\ class = "sign" => <<at, class, "signed">> \in Moves
      /\ at \in {"start", "signed", "whole"} /\ class = "digit" => <<at, class, "whole">> \in Moves
  BY DEF Moves
<1>4. Onward(at, class) = IF to = {} THEN "none" ELSE CHOOSE p \in to : TRUE
  BY DEF Onward
<1>5. CASE to = {}
  <2>1. Onward(at, class) = "none"
    BY <1>4, <1>5
  <2>2. \A p : <<at, class, p>> \notin Moves
    BY <1>1, <1>5
  <2>3. QED
    BY <1>3, <2>1, <2>2 DEF Place, Beyond
<1>6. CASE to # {}
  <2> HIDE DEF to
  <2>1. Onward(at, class) \in to
    BY <1>4, <1>6
  <2>2. <<at, class, Onward(at, class)>> \in Moves
    BY <1>1, <2>1
  <2>3. QED
    BY <1>2, <2>2
<1>7. QED
  BY <1>5, <1>6

-----------------------------------------------------------------------------
\* What is read of a text, character by character.
Reads == [at : Place, negative : BOOLEAN, digits : Seq(Digit), places : Nat, power : Seq(Digit),
          down : BOOLEAN, integer : BOOLEAN]
Readings == [x \in Reads \X Symbol |-> ReadOn(x[1], x[2])]

LEMMA ReadOnStays == ASSUME NEW r \in Reads, NEW c PROVE ReadOn(r, c) \in Reads
<1> DEFINE at == Onward(r.at, ClassOf(c))
<1>1. at \in Place /\ (at \in {"whole", "power"} => c \in Digit)
  <2>1. r.at \in Place
    BY DEF Reads
  <2>2. QED
    BY <2>1, Classes, Onwards
<1> HIDE DEF at
<1>2. ReadOn(r, c) =
        CASE at = "signed" -> [r EXCEPT !.at = at, !.negative = c = "-"]
          [] at = "esign" -> [r EXCEPT !.at = at, !.down = c = "-"]
          [] at = "power" -> [r EXCEPT !.at = at, !.power = Append(@, c)]
          [] at = "fraction" /\ c \in Digit ->
               [r EXCEPT !.at = at, !.digits = Append(@, c), !.places = @ + 1]
          [] at = "whole" -> [r EXCEPT !.at = at, !.digits = Append(@, c)]
          [] OTHER -> [r EXCEPT !.at = at, !.integer = @ /\ at \in {"start", "end"}]
  BY Zenon DEF ReadOn, at
<1>3. CASE at = "signed"
  <2>1. ReadOn(r, c) = [r EXCEPT !.at = at, !.negative = c = "-"]
    BY <1>2, <1>3
  <2>2. QED
    BY <1>1, <2>1 DEF Reads
<1>4. CASE at = "esign"
  <2>1. ReadOn(r, c) = [r EXCEPT !.at = at, !.down = c = "-"]
    BY <1>2, <1>4
  <2>2. QED
    BY <1>1, <2>1 DEF Reads
<1>5. CASE at = "power"
  <2>1. ReadOn(r, c) = [r EXCEPT !.at = at, !.power = Append(@, c)]
    BY <1>2, <1>5
  <2>2. c \in Digit /\ r.power \in Seq(Digit)
    BY <1>1, <1>5 DEF Reads
  <2>3. Append(r.power, c) \in Seq(Digit)
    BY <2>2
  <2>4. QED
    BY <1>1, <2>1, <2>3 DEF Reads
<1>6. CASE at = "fraction" /\ c \in Digit
  <2>1. ReadOn(r, c) = [r EXCEPT !.at = at, !.digits = Append(@, c), !.places = @ + 1]
    BY <1>2, <1>6
  <2>2. r.digits \in Seq(Digit) /\ r.places + 1 \in Nat
    BY DEF Reads
  <2>3. Append(r.digits, c) \in Seq(Digit)
    BY <1>6, <2>2
  <2>4. QED
    BY <1>1, <2>1, <2>2, <2>3 DEF Reads
<1>7. CASE at = "whole"
  <2>1. ReadOn(r, c) = [r EXCEPT !.at = at, !.digits = Append(@, c)]
    BY <1>2, <1>7
  <2>2. c \in Digit /\ r.digits \in Seq(Digit)
    BY <1>1, <1>7 DEF Reads
  <2>3. Append(r.digits, c) \in Seq(Digit)
    BY <2>2
  <2>4. QED
    BY <1>1, <2>1, <2>3 DEF Reads
<1>8. CASE at \notin {"signed", "esign", "power", "whole"} /\ ~(at = "fraction" /\ c \in Digit)
  <2>1. ReadOn(r, c) = [r EXCEPT !.at = at, !.integer = @ /\ at \in {"start", "end"}]
    BY <1>2, <1>8
  <2>2. QED
    BY <1>1, <2>1 DEF Reads
<1>9. QED
  BY <1>3, <1>4, <1>5, <1>6, <1>7, <1>8

LEMMA ReadingTypes ==
  Unread \in Reads /\ Readings \in [Reads \X Symbol -> Reads] /\ Steps(Reads, Symbol, Unread, Readings)
<1>1. Unread \in Reads
  BY DEF Unread, Reads, Place
<1>2. Readings \in [Reads \X Symbol -> Reads]
  BY ReadOnStays DEF Readings
<1>3. QED
  BY <1>1, <1>2 DEF Steps

\* As FoldLeft computes it.
LEMMA ReadingFold ==
  ASSUME NEW s \in Seq(Symbol)
  PROVE  Reading(s) = Folded(Reads, Unread, Readings, s)
<1> DEFINE Recursive(iter) == iter = [t \in SUBSET (DOMAIN s) |->
             IF t = {} THEN Unread ELSE ReadOn(iter[t \ {Max(t)}], s[Max(t)])]
<1>1. /\ Len(s) \in Nat /\ DOMAIN s = 1..Len(s)
      /\ Unread \in Reads /\ Readings \in [Reads \X Symbol -> Reads]
  BY ReadingTypes
<1>2. Reading(s) = (CHOOSE iter : Recursive(iter))[DOMAIN s]
  BY Zenon DEF Reading, FoldLeft, MapThenFoldSet
<1>3. PICK iter \in [SUBSET (1..Len(s)) -> Reads] : IsFold(iter, Unread, Readings, s)
  BY <1>1, FoldExists
<1>4. \A t \in SUBSET (1..Len(s)) : iter[t] =
        IF t = {} THEN Unread ELSE ReadOn(iter[t \ {Max(t)}], s[Max(t)])
  BY <1>1, <1>3, FoldMeets DEF IsFold, Readings
<1>5. Recursive(iter)
  BY <1>1, <1>3, <1>4
<1>6. PICK fold : Recursive(fold) /\ Reading(s) = fold[1..Len(s)]
  BY <1>1, <1>2, <1>5
<1>7. fold[{}] = Unread
  BY <1>6
<1>8. ASSUME NEW m \in 1..Len(s), NEW x \in Reads, fold[1..(m - 1)] = x
      PROVE  fold[1..m] = Readings[<<x, s[m]>>]
  <2>1. fold[1..m] = ReadOn(fold[(1..m) \ {Max(1..m)}], s[Max(1..m)])
    BY <1>1, <1>6, PositionsBefore
  <2>2. fold[1..m] = ReadOn(x, s[m])
    BY <1>1, <1>8, <2>1, PositionsBefore
  <2>3. s[m] \in Symbol
    BY <1>1
  <2>4. QED
    BY <2>2, <2>3 DEF Readings
<1>9. StepsBy(fold, Reads, Unread, Readings, s)
  BY <1>7, <1>8 DEF StepsBy
<1>10. OnAll(fold, s) = Folded(Reads, Unread, Readings, s)
  <2>1. Unread \in Reads /\ Readings \in [Reads \X Symbol -> Reads] /\ s \in Seq(Symbol)
    BY <1>1
  <2>2. QED
    BY ONLY <2>1, <1>9, FoldComesTo, ZenonT(60)
<1>11. QED
  BY <1>6, <1>10 DEF OnAll

\* Character after character.
LEMMA ReadingSteps ==
  /\ Reading(<<>>) = Unread
  /\ \A s \in Seq(Symbol), c \in Symbol : /\ Reading(s) \in Reads
                                          /\ Reading(Append(s, c)) = ReadOn(Reading(s), c)
<1>1. Reading(<<>>) = Unread
  <2>1. <<>> \in Seq(Symbol)
    OBVIOUS
  <2>2. Folded(Reads, Unread, Readings, <<>>) = Unread
    BY ReadingTypes, FoldedEmpty
  <2>3. QED
    BY <2>1, <2>2, ReadingFold
<1>2. ASSUME NEW s \in Seq(Symbol), NEW c \in Symbol
      PROVE  Reading(s) \in Reads /\ Reading(Append(s, c)) = ReadOn(Reading(s), c)
  <2>1. Append(s, c) \in Seq(Symbol)
    OBVIOUS
  <2>2. Folded(Reads, Unread, Readings, s) \in Reads
    BY ReadingTypes, FoldedIs
  <2>3. Folded(Reads, Unread, Readings, Append(s, c)) = Readings[<<Folded(Reads, Unread, Readings, s), c>>]
    BY ReadingTypes, FoldedStep
  <2>4. /\ Reading(s) = Folded(Reads, Unread, Readings, s)
        /\ Reading(Append(s, c)) = Folded(Reads, Unread, Readings, Append(s, c))
    BY <2>1, ReadingFold
  <2>5. QED
    BY <2>2, <2>3, <2>4 DEF Readings
<1>3. QED
  BY <1>1, <1>2

\* What one character does, before and after the integer and in it.
LEMMA ReadOnMoves ==
  ASSUME NEW r \in Reads, NEW c
  PROVE  /\ r.at = "start" /\ c \in Space =>
              /\ ReadOn(r, c).at = "start" /\ (ReadOn(r, c).negative <=> r.negative)
              /\ ReadOn(r, c).digits = r.digits
         /\ r.at = "start" /\ c \in {"-", "+"} =>
              /\ ReadOn(r, c).at = "signed" /\ (ReadOn(r, c).negative <=> c = "-")
              /\ ReadOn(r, c).digits = r.digits
         /\ r.at \in {"start", "signed", "whole"} /\ c \in Digit =>
              /\ ReadOn(r, c).at = "whole" /\ (ReadOn(r, c).negative <=> r.negative)
              /\ ReadOn(r, c).digits = Append(r.digits, c)
         /\ r.at = "start" /\ c \notin Space \union {"-", "+"} \union Digit => ReadOn(r, c).at \in Beyond
         /\ r.at \in {"signed", "whole"} /\ c \notin Digit => ReadOn(r, c).at \in Beyond
         /\ r.at \in Beyond => ReadOn(r, c).at \in Beyond
<1> DEFINE at == Onward(r.at, ClassOf(c))
<1>1. r.at \in Place /\ ClassOf(c) \in CharClass
  BY Classes DEF Reads
<1>2. /\ at \in Place
      /\ at = "start" => r.at = "start" /\ c \in Space
      /\ at = "signed" => r.at = "start" /\ c \in {"-", "+"}
      /\ at = "whole" => r.at \in {"start", "signed", "whole"} /\ c \in Digit
      /\ r.at = "start" /\ c \in Space => at = "start"
      /\ r.at = "start" /\ c \in {"-", "+"} => at = "signed"
      /\ r.at \in {"start", "signed", "whole"} /\ c \in Digit => at = "whole"
  BY <1>1, Classes, Onwards
<1> HIDE DEF at
<1>3. ReadOn(r, c) =
        CASE at = "signed" -> [r EXCEPT !.at = at, !.negative = c = "-"]
          [] at = "esign" -> [r EXCEPT !.at = at, !.down = c = "-"]
          [] at = "power" -> [r EXCEPT !.at = at, !.power = Append(@, c)]
          [] at = "fraction" /\ c \in Digit ->
               [r EXCEPT !.at = at, !.digits = Append(@, c), !.places = @ + 1]
          [] at = "whole" -> [r EXCEPT !.at = at, !.digits = Append(@, c)]
          [] OTHER -> [r EXCEPT !.at = at, !.integer = @ /\ at \in {"start", "end"}]
  BY Zenon DEF ReadOn, at
<1>4. ReadOn(r, c).at = at
  <2>1. ReadOn(r, c).at = at
    BY <1>3 DEF Reads
  <2>2. QED
    BY <2>1
<1>5. at = "start" => (ReadOn(r, c).negative <=> r.negative) /\ ReadOn(r, c).digits = r.digits
  <2>1. at = "start" => ReadOn(r, c) = [r EXCEPT !.at = at, !.integer = @ /\ at \in {"start", "end"}]
    BY <1>3
  <2>2. QED
    BY <2>1 DEF Reads
<1>6. at = "signed" => (ReadOn(r, c).negative <=> c = "-") /\ ReadOn(r, c).digits = r.digits
  <2>1. at = "signed" => ReadOn(r, c) = [r EXCEPT !.at = at, !.negative = c = "-"]
    BY <1>3
  <2>2. QED
    BY <2>1 DEF Reads
<1>7. at = "whole" => (ReadOn(r, c).negative <=> r.negative) /\ ReadOn(r, c).digits = Append(r.digits, c)
  <2>1. at = "whole" => ReadOn(r, c) = [r EXCEPT !.at = at, !.digits = Append(@, c)]
    BY <1>3
  <2>2. QED
    BY <2>1 DEF Reads
<1>8. Digit \cap {" ", "-", "+", ".", "e"} = {}
  BY NumeralFacts
<1>9. at \in {"start", "signed", "whole"} \/ at \in Beyond
  BY <1>2 DEF Place
<1>10. r.at \in Beyond => r.at \notin {"start", "signed", "whole"}
  BY DEF Beyond
<1>11. QED
  BY <1>2, <1>4, <1>5, <1>6, <1>7, <1>8, <1>9, <1>10

-----------------------------------------------------------------------------
(* Where the digits of the integer that a text starts with are: behind the  *)
(* blanks and the sign.                                                     *)
Trimmed(s) == From(s, Span(s, Space))
Behind(s) == Span(s, Space) + (IF Unsigned(Trimmed(s)) = Trimmed(s) THEN 0 ELSE 1)
Figures(s) == Unsigned(Trimmed(s))
Count10(s) == Span(Figures(s), Digit)

LEMMA FromIs ==
  ASSUME NEW E, NEW s \in Seq(E), NEW n \in 0..Len(s)
  PROVE  /\ From(s, n) \in Seq(E) /\ Len(From(s, n)) = Len(s) - n
         /\ \A i \in 1..(Len(s) - n) : From(s, n)[i] = s[n + i]
<1>1. CASE n = Len(s)
  BY <1>1 DEF From
<1>2. CASE n # Len(s)
  BY <1>2 DEF From
<1>3. QED
  BY <1>1, <1>2

LEMMA UnsignedIs ==
  ASSUME NEW E, NEW t \in Seq(E)
  PROVE  /\ Unsigned(t) \in Seq(E)
         /\ Len(t) > 0 /\ t[1] \in {"-", "+"} =>
              /\ Len(Unsigned(t)) = Len(t) - 1 /\ Unsigned(t) # t
              /\ \A i \in 1..(Len(t) - 1) : Unsigned(t)[i] = t[i + 1]
         /\ ~(Len(t) > 0 /\ t[1] \in {"-", "+"}) => Unsigned(t) = t
         /\ Negative(t) <=> Len(t) > 0 /\ t[1] = "-"
<1>1. t # <<>> <=> Len(t) > 0
  OBVIOUS
<1>2. CASE Len(t) > 0
  <2>1. Head(t) = t[1] /\ Tail(t) \in Seq(E) /\ Len(Tail(t)) = Len(t) - 1
        /\ \A i \in 1..(Len(t) - 1) : Tail(t)[i] = t[i + 1]
    BY <1>1, <1>2
  <2>2. Len(t) - 1 # Len(t)
    OBVIOUS
  <2>3. QED
    BY <1>1, <1>2, <2>1, <2>2 DEF Unsigned, Negative
<1>3. CASE ~(Len(t) > 0)
  BY <1>1, <1>3 DEF Unsigned, Negative
<1>4. QED
  BY <1>2, <1>3

LEMMA PartsOf ==
  ASSUME NEW E, NEW s \in Seq(E)
  PROVE  /\ Span(s, Space) \in 0..Len(s) /\ Behind(s) \in Span(s, Space)..Len(s)
         /\ Trimmed(s) \in Seq(E)
         /\ Figures(s) \in Seq(E) /\ Len(Figures(s)) = Len(s) - Behind(s)
         /\ \A i \in 1..(Len(s) - Behind(s)) : Figures(s)[i] = s[Behind(s) + i]
         /\ Count10(s) \in 0..(Len(s) - Behind(s))
         /\ \A i \in 1..Span(s, Space) : s[i] \in Space
         /\ Behind(s) = Span(s, Space) =>
              /\ ~Negative(Trimmed(s))
              /\ Behind(s) < Len(s) => s[Behind(s) + 1] \notin Space \union {"-", "+"}
         /\ Behind(s) # Span(s, Space) =>
              /\ Behind(s) = Span(s, Space) + 1 /\ s[Behind(s)] \in {"-", "+"}
              /\ Negative(Trimmed(s)) <=> s[Behind(s)] = "-"
         /\ \A i \in 1..Count10(s) : s[Behind(s) + i] \in Digit
         /\ Behind(s) + Count10(s) < Len(s) => s[Behind(s) + Count10(s) + 1] \notin Digit
<1> DEFINE b == Span(s, Space)
           t == Trimmed(s)
<1>1. /\ b \in 0..Len(s) /\ Len(s) \in Nat /\ \A i \in 1..b : s[i] \in Space
      /\ b = Len(s) \/ s[b + 1] \notin Space
  BY SpanIs
<1>2. /\ t \in Seq(E) /\ Len(t) = Len(s) - b
      /\ \A i \in 1..(Len(s) - b) : t[i] = s[b + i]
  BY <1>1, FromIs DEF Trimmed
<1> HIDE DEF b, t
<1>3. CASE Len(t) > 0 /\ t[1] \in {"-", "+"}
  <2>1. t[1] = s[b + 1] /\ b + 1 <= Len(s)
    BY <1>1, <1>2, <1>3
  <2>2. Behind(s) = b + 1 /\ Len(Figures(s)) = Len(s) - Behind(s)
        /\ Figures(s) \in Seq(E)
        /\ \A i \in 1..(Len(t) - 1) : Figures(s)[i] = t[i + 1]
    BY <1>1, <1>2, <1>3, UnsignedIs DEF Behind, Figures, b, t
  <2>3. \A i \in 1..(Len(s) - Behind(s)) : Figures(s)[i] = s[Behind(s) + i]
    <3>1. ASSUME NEW i \in 1..(Len(s) - Behind(s)) PROVE Figures(s)[i] = s[Behind(s) + i]
      <4>1. i \in 1..(Len(t) - 1) /\ i + 1 \in 1..(Len(s) - b) /\ b + (i + 1) = Behind(s) + i
        BY <1>1, <1>2, <2>2
      <4>2. QED
        BY <1>2, <2>2, <4>1
    <3>2. QED
      BY <3>1
  <2>4. Negative(t) <=> s[Behind(s)] = "-"
    BY <1>2, <1>3, <2>1, <2>2, UnsignedIs
  <2>5. /\ Count10(s) \in 0..(Len(s) - Behind(s))
        /\ \A i \in 1..Count10(s) : Figures(s)[i] \in Digit
        /\ Count10(s) = Len(Figures(s)) \/ Figures(s)[Count10(s) + 1] \notin Digit
    BY <2>2, SpanIs DEF Count10
  <2>6. ASSUME NEW i \in 1..Count10(s) PROVE s[Behind(s) + i] \in Digit
    <3>1. i \in 1..(Len(s) - Behind(s))
      BY <1>1, <2>2, <2>5
    <3>2. QED
      BY <2>3, <2>5, <3>1
  <2>7. Behind(s) + Count10(s) < Len(s) => s[Behind(s) + Count10(s) + 1] \notin Digit
    <3>1. HAVE Behind(s) + Count10(s) < Len(s)
    <3>2. Count10(s) + 1 \in 1..(Len(s) - Behind(s)) /\ Count10(s) # Len(Figures(s))
      BY <1>1, <2>2, <2>5, <3>1
    <3>3. Behind(s) + (Count10(s) + 1) = Behind(s) + Count10(s) + 1
      BY <1>1, <2>2, <2>5
    <3>4. QED
      BY <2>3, <2>5, <3>2, <3>3
  <2>8. Behind(s) \in b..Len(s) /\ Behind(s) # b /\ s[Behind(s)] \in {"-", "+"}
    BY <1>1, <1>3, <2>1, <2>2
  <2>9. QED
    BY <1>1, <1>2, <2>2, <2>3, <2>4, <2>5, <2>6, <2>7, <2>8 DEF b, t
<1>4. CASE ~(Len(t) > 0 /\ t[1] \in {"-", "+"})
  <2>1. Behind(s) = b /\ Figures(s) = t /\ ~Negative(t)
    BY <1>1, <1>2, <1>4, UnsignedIs DEF Behind, Figures, b, t
  <2>2. /\ Count10(s) \in 0..(Len(s) - Behind(s))
        /\ \A i \in 1..Count10(s) : t[i] \in Digit
        /\ Count10(s) = Len(t) \/ t[Count10(s) + 1] \notin Digit
    BY <1>2, <2>1, SpanIs DEF Count10
  <2>3. \A i \in 1..Count10(s) : s[Behind(s) + i] \in Digit
    <3>1. ASSUME NEW i \in 1..Count10(s) PROVE s[Behind(s) + i] \in Digit
      <4>1. i \in 1..(Len(s) - b)
        BY <1>1, <2>1, <2>2
      <4>2. t[i] = s[b + i] /\ t[i] \in Digit
        BY <1>2, <2>2, <4>1
      <4>3. QED
        BY <2>1, <4>2
    <3>2. QED
      BY <3>1
  <2>4. Behind(s) + Count10(s) < Len(s) => s[Behind(s) + Count10(s) + 1] \notin Digit
    <3>1. HAVE Behind(s) + Count10(s) < Len(s)
    <3>2. Count10(s) + 1 \in 1..(Len(s) - b) /\ Count10(s) # Len(t)
      BY <1>1, <1>2, <2>1, <2>2, <3>1
    <3>3. b + (Count10(s) + 1) = Behind(s) + Count10(s) + 1
      BY <1>1, <2>1, <2>2
    <3>4. QED
      BY <1>2, <2>2, <3>2, <3>3
  <2>5. Behind(s) < Len(s) => s[Behind(s) + 1] \notin Space \union {"-", "+"}
    <3>1. HAVE Behind(s) < Len(s)
    <3>2. Len(t) > 0 /\ t[1] = s[b + 1]
      BY <1>1, <1>2, <2>1, <3>1
    <3>3. QED
      BY <1>1, <1>4, <2>1, <3>1, <3>2
  <2>6. QED
    BY <1>1, <1>2, <2>1, <2>2, <2>3, <2>4, <2>5 DEF b, t
<1>5. QED
  BY <1>3, <1>4

\* How far the grammar is when m characters of s are read.
Reached(s, m) ==
  LET r == Reading(SubSeq(s, 1, m))
  IN  /\ r \in Reads
      /\ m <= Span(s, Space) => r.at = "start" /\ ~r.negative /\ r.digits = <<>>
      /\ Span(s, Space) < m /\ m <= Behind(s) =>
           r.at = "signed" /\ (r.negative <=> Negative(Trimmed(s))) /\ r.digits = <<>>
      /\ Behind(s) < m /\ m <= Behind(s) + Count10(s) =>
           /\ r.at = "whole" /\ (r.negative <=> Negative(Trimmed(s)))
           /\ r.digits = SubSeq(Figures(s), 1, m - Behind(s))
      /\ Behind(s) + Count10(s) < m => r.at \in Beyond

LEMMA ReachedStep ==
  ASSUME NEW s \in Seq(Symbol), NEW m \in 1..Len(s), Reached(s, m - 1)
  PROVE  Reached(s, m)
<1> DEFINE p == Reading(SubSeq(s, 1, m - 1))
           r == Reading(SubSeq(s, 1, m))
           b == Span(s, Space)
           a == Behind(s)
           k == Count10(s)
<1>1. /\ b \in 0..Len(s) /\ a \in b..Len(s) /\ k \in 0..(Len(s) - a) /\ Len(s) \in Nat
      /\ m - 1 \in Int /\ m \in Int
  <2>1. /\ Span(s, Space) \in 0..Len(s) /\ Behind(s) \in Span(s, Space)..Len(s)
        /\ Count10(s) \in 0..(Len(s) - Behind(s))
    BY PartsOf
  <2>2. Len(s) \in Nat /\ m - 1 \in Int /\ m \in Int
    OBVIOUS
  <2>3. QED
    BY <2>1, <2>2
<1>12. \A i \in 1..b : s[i] \in Space
  BY PartsOf
<1>13. a = b => ~Negative(Trimmed(s)) /\ (a < Len(s) => s[a + 1] \notin Space \union {"-", "+"})
  BY PartsOf
<1>14. a # b => a = b + 1 /\ s[a] \in {"-", "+"} /\ (Negative(Trimmed(s)) <=> s[a] = "-")
  BY PartsOf
<1>15. \A i \in 1..k : s[a + i] \in Digit
  BY PartsOf
<1>16. a + k < Len(s) => s[a + k + 1] \notin Digit
  BY PartsOf
<1>2. Figures(s) \in Seq(Symbol) /\ Len(Figures(s)) = Len(s) - a /\ \A i \in 1..(Len(s) - a) : Figures(s)[i] = s[a + i]
  BY PartsOf
<1>3. SubSeq(s, 1, m - 1) \in Seq(Symbol) /\ s[m] \in Symbol /\ SubSeq(s, 1, m) = Append(SubSeq(s, 1, m - 1), s[m])
      /\ SubSeq(s, 1, m) \in Seq(Symbol)
  OBVIOUS
<1>4. r = ReadOn(p, s[m]) /\ r \in Reads
  BY <1>3, ReadingSteps
<1>5. p \in Reads
  BY DEF Reached
<1>17. m - 1 <= b => p.at = "start" /\ ~p.negative /\ p.digits = <<>>
  BY DEF Reached
<1>18. b < m - 1 /\ m - 1 <= a => p.at = "signed" /\ (p.negative <=> Negative(Trimmed(s))) /\ p.digits = <<>>
  BY DEF Reached
<1>19. a < m - 1 /\ m - 1 <= a + k =>
           /\ p.at = "whole" /\ (p.negative <=> Negative(Trimmed(s)))
           /\ p.digits = SubSeq(Figures(s), 1, (m - 1) - a)
  BY DEF Reached
<1>20. a + k < m - 1 => p.at \in Beyond
  BY DEF Reached
<1>6. Digit \cap {" ", "-", "+", ".", "e"} = {}
  BY NumeralFacts
<1> HIDE DEF p, r, b, a, k
<1>7. CASE m <= b
  <2>1. s[m] \in Space
    BY <1>1, <1>12, <1>7
  <2>2. p.at = "start" /\ ~p.negative /\ p.digits = <<>>
    BY <1>1, <1>7, <1>17
  <2>3. r.at = "start" /\ ~r.negative /\ r.digits = <<>>
    BY <1>4, <1>5, <2>1, <2>2, ReadOnMoves
  <2>4. m <= a /\ m <= a + k
    BY <1>1, <1>7
  <2>5. ~(b < m) /\ ~(a < m) /\ ~(a + k < m)
    BY <1>1, <1>7, <2>4
  <2>6. QED
    BY <1>4, <2>3, <2>5 DEF Reached, r, a, b, k
<1>8. CASE b < m /\ m <= a
  <2>1. m = a /\ a = b + 1 /\ m - 1 <= b
    BY <1>1, <1>8, <1>14
  <2>2. s[m] \in {"-", "+"} /\ (Negative(Trimmed(s)) <=> s[m] = "-")
    BY <1>1, <1>14, <2>1
  <2>3. p.at = "start" /\ p.digits = <<>>
    BY <1>17, <2>1
  <2>4. r.at = "signed" /\ (r.negative <=> s[m] = "-") /\ r.digits = <<>>
    BY <1>4, <1>5, <2>2, <2>3, ReadOnMoves
  <2>5. r.negative <=> Negative(Trimmed(s))
    BY <2>2, <2>4
  <2>6. ~(m <= b) /\ ~(a < m) /\ ~(a + k < m)
    BY <1>1, <1>8
  <2>7. QED
    BY <1>4, <2>4, <2>5, <2>6 DEF Reached, r, a, b, k
<1>9. CASE a < m /\ m <= a + k
  <2>1. s[m] \in Digit
    <3>1. m - a \in 1..k /\ a + (m - a) = m
      BY <1>1, <1>9
    <3>2. QED
      BY <1>15, <3>1
  <2>2. /\ p.at \in {"start", "signed", "whole"} /\ (p.negative <=> Negative(Trimmed(s)))
        /\ p.digits = SubSeq(Figures(s), 1, (m - 1) - a)
    <3>1. CASE m - 1 = a
      <4>1. (m - 1) - a = 0 /\ SubSeq(Figures(s), 1, 0) = <<>>
        BY <1>1, <1>2, <3>1
      <4>2. CASE a = b
        <5>1. m - 1 <= b
          BY <1>1, <3>1, <4>2
        <5>2. QED
          BY <1>13, <1>17, <4>1, <4>2, <5>1
      <4>3. CASE a # b
        <5>1. b < m - 1 /\ m - 1 <= a
          BY <1>1, <3>1, <4>3
        <5>2. QED
          BY <1>18, <4>1, <5>1
      <4>4. QED
        BY <4>2, <4>3
    <3>2. CASE m - 1 # a
      <4>1. a < m - 1 /\ m - 1 <= a + k
        BY <1>1, <1>9, <3>2
      <4>2. QED
        BY <1>19, <4>1
    <3>3. QED
      BY <3>1, <3>2
  <2>3. /\ r.at = "whole" /\ (r.negative <=> Negative(Trimmed(s)))
        /\ r.digits = Append(SubSeq(Figures(s), 1, (m - 1) - a), s[m])
    <3>1. r.at = "whole" /\ (r.negative <=> p.negative) /\ r.digits = Append(p.digits, s[m])
      BY <1>4, <1>5, <2>1, <2>2, ReadOnMoves
    <3>2. QED
      BY <2>2, <3>1
  <2>4. Append(SubSeq(Figures(s), 1, (m - 1) - a), s[m]) = SubSeq(Figures(s), 1, m - a)
    <3>1. m - a \in 1..(Len(s) - a) /\ a + (m - a) = m /\ (m - 1) - a = (m - a) - 1
      BY <1>1, <1>9
    <3>2. Figures(s)[m - a] = s[m]
      BY <1>2, <3>1
    <3>3. ASSUME NEW u \in Seq(Symbol), NEW i \in 1..Len(u)
          PROVE  SubSeq(u, 1, i) = Append(SubSeq(u, 1, i - 1), u[i])
      OBVIOUS
    <3>4. SubSeq(Figures(s), 1, m - a) = Append(SubSeq(Figures(s), 1, (m - a) - 1), Figures(s)[m - a])
      BY <1>2, <3>1, <3>3
    <3>5. QED
      BY <3>1, <3>2, <3>4
  <2>5. ~(m <= b) /\ ~(m <= a) /\ ~(a + k < m)
    BY <1>1, <1>9
  <2>6. r.digits = SubSeq(Figures(s), 1, m - a)
    BY <2>3, <2>4
  <2>7. QED
    BY <1>4, <2>3, <2>5, <2>6 DEF Reached, r, a, b, k
<1>10. CASE a + k < m
  <2>1. r.at \in Beyond
    <3>1. CASE a + k < m - 1
      BY <1>4, <1>5, <1>20, <3>1, ReadOnMoves
    <3>2. CASE a + k = m - 1
      <4>1. s[m] \notin Digit
        <5>1. a + k + 1 = m /\ a + k < Len(s)
          BY <1>1, <3>2
        <5>2. QED
          BY <1>16, <5>1
      <4>2. CASE k > 0
        <5>1. a < m - 1 /\ m - 1 <= a + k
          BY <1>1, <3>2, <4>2
        <5>2. QED
          BY <1>4, <1>5, <1>19, <4>1, <5>1, ReadOnMoves
      <4>3. CASE k = 0 /\ a = b
        <5>1. m - 1 <= b /\ a < Len(s) /\ a + 1 = m
          BY <1>1, <3>2, <4>3
        <5>2. s[m] \notin Space \union {"-", "+"} \union Digit
          BY <1>13, <4>1, <4>3, <5>1
        <5>3. QED
          BY <1>4, <1>5, <1>17, <5>1, <5>2, ReadOnMoves
      <4>4. CASE k = 0 /\ a # b
        <5>1. b < m - 1 /\ m - 1 <= a
          BY <1>1, <3>2, <4>4
        <5>2. QED
          BY <1>4, <1>5, <1>18, <4>1, <5>1, ReadOnMoves
      <4>5. QED
        BY <1>1, <4>2, <4>3, <4>4
    <3>3. QED
      BY <1>1, <1>10, <3>1, <3>2
  <2>2. ~(m <= b) /\ ~(m <= a) /\ ~(m <= a + k)
    BY <1>1, <1>10
  <2>3. QED
    BY <1>4, <2>1, <2>2 DEF Reached, r, a, b, k
<1>11. QED
  BY <1>1, <1>7, <1>8, <1>9, <1>10

LEMMA AllReached == ASSUME NEW s \in Seq(Symbol) PROVE \A m \in 0..Len(s) : Reached(s, m)
<1> DEFINE S == {m \in 0..Len(s) : Reached(s, m)}
<1>1. Len(s) \in Nat /\ SubSeq(s, 1, 0) = <<>>
  OBVIOUS
<1>2. 0 \in S
  <2>1. Span(s, Space) \in Nat /\ Behind(s) \in Nat /\ Count10(s) \in Nat
    <3>1. /\ Span(s, Space) \in 0..Len(s) /\ Behind(s) \in Span(s, Space)..Len(s)
          /\ Count10(s) \in 0..(Len(s) - Behind(s))
      BY PartsOf
    <3>2. QED
      BY <1>1, <3>1
  <2>2. Unread \in Reads /\ Unread.at = "start" /\ ~Unread.negative /\ Unread.digits = <<>>
    BY ReadingTypes DEF Unread
  <2>3. Reading(SubSeq(s, 1, 0)) = Unread
    BY <1>1, ReadingSteps
  <2>4. Reached(s, 0)
    BY <2>1, <2>2, <2>3 DEF Reached
  <2>5. QED
    BY <1>1, <2>4
<1>3. ASSUME NEW m \in 1..Len(s), m - 1 \in S PROVE m \in S
  BY <1>3, ReachedStep
<1>4. 0..Len(s) \subseteq S
  <2> HIDE DEF S
  <2>1. QED
    BY <1>1, <1>2, <1>3, UpTo
<1>5. QED
  BY <1>4

\* The integer is whole as long as its digits go on.
Wholes(s) == {n \in 1..Len(s) : Reading(SubSeq(s, 1, n)).at = "whole"}

LEMMA WholesAre ==
  ASSUME NEW s \in Seq(Symbol)
  PROVE  Wholes(s) = (Behind(s) + 1)..(Behind(s) + Count10(s))
<1> DEFINE b == Span(s, Space)
           a == Behind(s)
           k == Count10(s)
<1>1. b \in 0..Len(s) /\ a \in b..Len(s) /\ k \in 0..(Len(s) - a) /\ Len(s) \in Nat
  <2>1. /\ Span(s, Space) \in 0..Len(s) /\ Behind(s) \in Span(s, Space)..Len(s)
        /\ Count10(s) \in 0..(Len(s) - Behind(s))
    BY PartsOf
  <2>2. QED
    BY <2>1
<1> HIDE DEF b, a, k
<1>2. ASSUME NEW m \in 1..Len(s)
      PROVE  Reading(SubSeq(s, 1, m)).at = "whole" <=> a < m /\ m <= a + k
  <2>1. m \in 0..Len(s) /\ m \in Int
    OBVIOUS
  <2>2. Reached(s, m)
    BY <2>1, AllReached
  <2>3. CASE m <= b
    <3>1. Reading(SubSeq(s, 1, m)).at = "start" /\ ~(a < m)
      BY <1>1, <2>2, <2>3 DEF Reached, b
    <3>2. QED
      BY <3>1
  <2>4. CASE b < m /\ m <= a
    <3>1. Reading(SubSeq(s, 1, m)).at = "signed" /\ ~(a < m)
      BY <1>1, <2>2, <2>4 DEF Reached, a, b
    <3>2. QED
      BY <3>1
  <2>5. CASE a < m /\ m <= a + k
    BY <2>2, <2>5 DEF Reached, a, k
  <2>6. CASE a + k < m
    <3>1. Reading(SubSeq(s, 1, m)).at \in Beyond /\ ~(m <= a + k)
      BY <1>1, <2>1, <2>2, <2>6 DEF Reached, a, k
    <3>2. QED
      BY <3>1 DEF Beyond
  <2>7. QED
    BY <1>1, <2>1, <2>3, <2>4, <2>5, <2>6
<1>3. \A m \in (a + 1)..(a + k) : m \in 1..Len(s)
  BY <1>1
<1>4. \A m \in Int : m \in (a + 1)..(a + k) <=> a < m /\ m <= a + k
  BY <1>1
<1>5. \A m \in 1..Len(s) : m \in Int
  OBVIOUS
<1>6. Wholes(s) = (a + 1)..(a + k)
  <2>1. ASSUME NEW m \in Wholes(s) PROVE m \in (a + 1)..(a + k)
    <3>1. m \in 1..Len(s) /\ Reading(SubSeq(s, 1, m)).at = "whole"
      BY DEF Wholes
    <3>2. QED
      BY <1>2, <1>4, <1>5, <3>1
  <2>2. ASSUME NEW m \in (a + 1)..(a + k) PROVE m \in Wholes(s)
    <3>1. m \in 1..Len(s)
      BY <1>3
    <3>2. QED
      BY <1>2, <1>4, <1>5, <3>1 DEF Wholes
  <2>3. QED
    BY <2>1, <2>2
<1>7. QED
  BY <1>6 DEF a, k

\* What the longest of its integers says, or none.
Longest(s) == CHOOSE n \in Wholes(s) : \A m \in Wholes(s) : m <= n
SaidFirst(s) == IF Wholes(s) = {} THEN 0 ELSE Said(Reading(SubSeq(s, 1, Longest(s))))
Worth(s) == Decimal(SubSeq(Figures(s), 1, Count10(s)))

LEMMA WorthIs == ASSUME NEW s \in Seq(Symbol) PROVE Worth(s) \in Nat /\ (Count10(s) = 0 => Worth(s) = 0)
<1>1. /\ Figures(s) \in Seq(Symbol) /\ Len(Figures(s)) = Len(s) - Behind(s)
      /\ Count10(s) \in 0..(Len(s) - Behind(s)) /\ Behind(s) \in Nat
  <2>1. /\ Span(s, Space) \in 0..Len(s) /\ Behind(s) \in Span(s, Space)..Len(s)
    BY PartsOf
  <2>2. /\ Figures(s) \in Seq(Symbol) /\ Len(Figures(s)) = Len(s) - Behind(s)
        /\ Count10(s) \in 0..(Len(s) - Behind(s))
    BY PartsOf
  <2>3. QED
    BY <2>1, <2>2
<1>2. \A i \in 1..Count10(s) : Figures(s)[i] \in Digit
  BY <1>1, SpanIs DEF Count10
<1>3. SubSeq(Figures(s), 1, Count10(s)) \in Seq(Digit)
  <2>1. Count10(s) <= Len(Figures(s)) /\ Count10(s) \in Nat
    BY <1>1
  <2>2. ASSUME NEW u \in Seq(Symbol), NEW n \in Nat, n <= Len(u), \A i \in 1..n : u[i] \in Digit
        PROVE  SubSeq(u, 1, n) \in Seq(Digit)
    <3>1. Len(SubSeq(u, 1, n)) = n /\ \A i \in 1..n : SubSeq(u, 1, n)[i] = u[i]
      BY <2>2
    <3>2. SubSeq(u, 1, n) \in Seq(Symbol)
      BY <2>2
    <3>3. QED
      BY <2>2, <3>1, <3>2
  <2>3. QED
    BY <1>1, <1>2, <2>1, <2>2
<1>4. Worth(s) \in Nat
  <2>1. "0" \in Digit
    BY NumeralFacts
  <2>2. QED
    BY <1>3, <2>1, DecimalSteps DEF Worth
<1>5. Count10(s) = 0 => SubSeq(Figures(s), 1, Count10(s)) = <<>>
  BY <1>1
<1>6. QED
  BY <1>4, <1>5, DecimalSteps DEF Worth

LEMMA SaidIs ==
  ASSUME NEW s \in Seq(Symbol)
  PROVE  SaidFirst(s) = IF Negative(Trimmed(s)) THEN -Worth(s) ELSE Worth(s)
<1>1. Behind(s) \in 0..Len(s) /\ Count10(s) \in 0..(Len(s) - Behind(s)) /\ Len(s) \in Nat
  <2>1. /\ Span(s, Space) \in 0..Len(s) /\ Behind(s) \in Span(s, Space)..Len(s)
        /\ Count10(s) \in 0..(Len(s) - Behind(s))
    BY PartsOf
  <2>2. QED
    BY <2>1
<1>2. CASE Count10(s) = 0
  <2>1. Wholes(s) = {}
    BY <1>1, <1>2, WholesAre
  <2>2. Worth(s) = 0
    BY <1>2, WorthIs
  <2>3. -Worth(s) = Worth(s)
    <3>1. ASSUME NEW w \in Int, w <= 0, w >= 0 PROVE -w = w
      BY <3>1
    <3>2. Worth(s) \in Int /\ Worth(s) <= 0 /\ Worth(s) >= 0
      BY <2>2
    <3>3. QED
      BY <3>1, <3>2
  <2>4. QED
    BY <2>1, <2>2, <2>3 DEF SaidFirst
<1>3. CASE Count10(s) > 0
  <2> DEFINE top == Behind(s) + Count10(s)
  <2>1. /\ top \in Wholes(s) /\ \A m \in Wholes(s) : m <= top /\ m \in Int
        /\ top \in 0..Len(s) /\ top - Behind(s) = Count10(s) /\ Behind(s) < top
    BY <1>1, <1>3, WholesAre
  <2>2. Longest(s) = top
    <3>1. Longest(s) \in Wholes(s) /\ \A m \in Wholes(s) : m <= Longest(s)
      BY <2>1 DEF Longest
    <3>2. Longest(s) <= top /\ top <= Longest(s) /\ Longest(s) \in Int /\ top \in Int
      BY <2>1, <3>1
    <3>3. QED
      BY <3>2
  <2>3. Reached(s, top)
    BY <2>1, AllReached
  <2> DEFINE r == Reading(SubSeq(s, 1, top))
  <2>4. (r.negative <=> Negative(Trimmed(s))) /\ r.digits = SubSeq(Figures(s), 1, Count10(s))
    BY <2>1, <2>3 DEF Reached
  <2>5. SaidFirst(s) = Said(r)
    BY <2>1, <2>2 DEF SaidFirst
  <2>6. Said(r) = (IF Negative(Trimmed(s)) THEN -1 ELSE 1) * Worth(s)
    <3> HIDE DEF r
    <3>1. QED
      BY <2>4 DEF Said, Worth
  <2>7. QED
    <3> HIDE DEF r
    <3>1. QED
      BY <2>5, <2>6, WorthIs
<1>4. QED
  BY <1>1, <1>2, <1>3

-----------------------------------------------------------------------------
\* An integer that is too large is the nearest that fits.
Clamped(n) == IF n < MinInt THEN MinInt ELSE IF n > MaxInt THEN MaxInt ELSE n

\* What parseLeadingInt makes of a text is what the integer it starts with says.
LEMMA LeadingIs ==
  ASSUME NEW s \in Seq(Symbol)
  PROVE  ParseLeadingInt(s).int = Clamped(SaidFirst(s)) /\ ParseLeadingInt(s).int \in Int64
<1> DEFINE fits == IF Count10(s) = 0 THEN -1
                   ELSE IF Range(From(Figures(s), Count10(s))) \subseteq Space THEN 0 ELSE 1
<1>1. ParseLeadingInt(s) =
        IF Negative(Trimmed(s))
          THEN IF -Worth(s) >= MinInt THEN [int |-> -Worth(s), status |-> fits]
               ELSE [int |-> MinInt, status |-> 2]
          ELSE IF Worth(s) <= MaxInt THEN [int |-> Worth(s), status |-> fits]
               ELSE [int |-> MaxInt, status |-> IF Worth(s) = MaxInt + 1 THEN 3 ELSE 2]
  BY Zenon DEF ParseLeadingInt, Trimmed, Figures, Count10, Worth
<1> HIDE DEF fits
<1>2. Worth(s) \in Nat /\ MinInt \in Int /\ MaxInt \in Int /\ MinInt < 0 /\ MaxInt >= 0
  BY WorthIs, Limits
<1>3. SaidFirst(s) = IF Negative(Trimmed(s)) THEN -Worth(s) ELSE Worth(s)
  BY SaidIs
<1>4. ParseLeadingInt(s).int = Clamped(SaidFirst(s))
  <2>1. CASE Negative(Trimmed(s))
    BY <1>1, <1>2, <1>3, <2>1 DEF Clamped
  <2>2. CASE ~Negative(Trimmed(s))
    BY <1>1, <1>2, <1>3, <2>2 DEF Clamped
  <2>3. QED
    BY <2>1, <2>2
<1>5. SaidFirst(s) \in Int
  BY <1>2, <1>3
<1>6. Clamped(SaidFirst(s)) \in Int64
  BY <1>2, <1>5 DEF Clamped, Int64
<1>7. QED
  BY <1>4, <1>6

-----------------------------------------------------------------------------
\* The digits of a number say it.
LEMMA DigitsSay ==
  ASSUME NEW n \in 0..(-MinInt)
  PROVE  DigitsOf[n] \in Seq(Digit) /\ Len(DigitsOf[n]) > 0 /\ Decimal(DigitsOf[n]) = n
<1> DEFINE S == {k \in 0..(-MinInt) : \A j \in 0..k : Len(DigitsOf[j]) > 0 /\ Decimal(DigitsOf[j]) = j}
<1>1. -MinInt \in Nat /\ \A j \in 0..(-MinInt) : DigitsOf[j] \in Seq(Digit)
  BY DigitsAre
<1>2. \A d \in 0..9 : Numeral[d + 1] \in Digit /\ DigitOf[Numeral[d + 1]] = d
  BY NumeralFacts
<1>3. ASSUME NEW j \in 0..(-MinInt), j < 10
      PROVE  Len(DigitsOf[j]) > 0 /\ Decimal(DigitsOf[j]) = j
  <2>1. DigitsOf[j] = <<Numeral[j + 1]>>
    BY <1>3, DigitsAre DEF DigitsFrom
  <2>2. <<Numeral[j + 1]>> = Append(<<>>, Numeral[j + 1]) /\ <<>> \in Seq(Digit)
    OBVIOUS
  <2>3. j \in 0..9
    BY <1>3
  <2>4. Numeral[j + 1] \in Digit /\ DigitOf[Numeral[j + 1]] = j
    BY <1>2, <2>3
  <2>5. Decimal(Append(<<>>, Numeral[j + 1])) = 10 * Decimal(<<>>) + DigitOf[Numeral[j + 1]]
    BY <2>2, <2>4, DecimalSteps
  <2>6. Decimal(DigitsOf[j]) = j
    BY <2>1, <2>2, <2>4, <2>5, DecimalSteps
  <2>7. QED
    BY <2>1, <2>6
<1>4. ASSUME NEW j \in 0..(-MinInt), j >= 10, Decimal(DigitsOf[j \div 10]) = j \div 10
      PROVE  Len(DigitsOf[j]) > 0 /\ Decimal(DigitsOf[j]) = j
  <2>1. /\ j \div 10 \in 0..(-MinInt) /\ j % 10 \in 0..9
        /\ 10 * (j \div 10) + (j % 10) = j
    BY <1>1
  <2>2. DigitsOf[j] = Append(DigitsOf[j \div 10], Numeral[(j % 10) + 1])
    BY <1>4, DigitsAre DEF DigitsFrom
  <2>3. Numeral[(j % 10) + 1] \in Digit /\ DigitOf[Numeral[(j % 10) + 1]] = j % 10
    BY <1>2, <2>1, ZenonT(20)
  <2>4. DigitsOf[j \div 10] \in Seq(Digit)
    BY <1>1, <2>1, ZenonT(20)
  <2>5. Decimal(DigitsOf[j]) = 10 * Decimal(DigitsOf[j \div 10]) + DigitOf[Numeral[(j % 10) + 1]]
    BY <2>2, <2>3, <2>4, DecimalSteps, ZenonT(20)
  <2>6. Decimal(DigitsOf[j]) = 10 * (j \div 10) + (j % 10)
    BY <1>4, <2>3, <2>5, ZenonT(20)
  <2>7. Len(DigitsOf[j]) > 0
    <3>1. ASSUME NEW u \in Seq(Digit), NEW c \in Digit PROVE Len(Append(u, c)) > 0
      OBVIOUS
    <3>2. QED
      BY <2>2, <2>3, <2>4, <3>1, ZenonT(20)
  <2>8. QED
    BY <2>1, <2>6, <2>7
<1>5. 0 \in S
  BY <1>1, <1>3
<1>6. ASSUME NEW k \in 1..(-MinInt), k - 1 \in S PROVE k \in S
  <2>1. \A j \in 0..(k - 1) : Len(DigitsOf[j]) > 0 /\ Decimal(DigitsOf[j]) = j
    BY <1>6
  <2>2. k \in 0..(-MinInt)
    BY <1>1
  <2>3. Len(DigitsOf[k]) > 0 /\ Decimal(DigitsOf[k]) = k
    <3>1. CASE k < 10
      BY <1>3, <2>2, <3>1
    <3>2. CASE k >= 10
      <4>1. k \div 10 \in 0..(k - 1)
        BY <3>2
      <4>2. Decimal(DigitsOf[k \div 10]) = k \div 10
        BY <2>1, <4>1, ZenonT(20)
      <4>3. QED
        BY <1>4, <2>2, <3>2, <4>2
    <3>3. QED
      BY <3>1, <3>2
  <2>4. QED
    BY <2>1, <2>2, <2>3
<1>7. 0..(-MinInt) \subseteq S
  <2> HIDE DEF S
  <2>1. QED
    BY <1>1, <1>5, <1>6, UpTo
<1>8. n \in S
  <2> HIDE DEF S
  <2>1. QED
    BY <1>7
<1>9. QED
  BY <1>1, <1>8

\* A text of digits only, with or without a minus, is read to its end.
LEMMA ReadsDigits ==
  ASSUME NEW E, NEW s \in Seq(E), NEW d \in Seq(Digit), Len(d) > 0,
         \/ s = d
         \/ /\ Len(s) = Len(d) + 1 /\ s[1] = "-" /\ \A i \in 1..Len(d) : s[i + 1] = d[i]
  PROVE  /\ Trimmed(s) = s /\ Figures(s) = d /\ Count10(s) = Len(d)
         /\ Negative(s) <=> s # d
         /\ Worth(s) = Decimal(d) /\ From(d, Len(d)) = <<>>
<1>1. Len(s) \in Nat /\ Len(d) \in Nat /\ Len(s) > 0 /\ \A i \in 1..Len(d) : d[i] \in Digit
  OBVIOUS
<1>10. \A c \in Digit : c \notin {" ", "-", "+", ".", "e"}
  BY NumeralFacts
<1>11. d[1] \in Digit
  BY <1>1
<1>2. Len(s) > 0 /\ s[1] \notin Space /\ Len(s) \in Nat /\ Len(d) \in Nat
  BY <1>1, <1>10, <1>11 DEF Space
<1>3. Span(s, Space) = 0
  <2>1. 0 \in 0..Len(s) /\ (\A k \in 1..0 : s[k] \in Space) /\ s[0 + 1] \notin Space
    BY <1>2
  <2>2. QED
    BY <2>1, SpanIs
<1>4. Trimmed(s) = s
  BY <1>3 DEF Trimmed, From
<1>5. Figures(s) = d /\ (Negative(s) <=> s # d)
  <2>1. CASE s = d
    <3>1. s[1] \notin {"-", "+"}
      BY <1>10, <1>11, <2>1
    <3>2. Unsigned(s) = s /\ ~Negative(s)
      BY <3>1, UnsignedIs
    <3>3. QED
      BY <1>4, <2>1, <3>2 DEF Figures
  <2>2. CASE Len(s) = Len(d) + 1 /\ s[1] = "-" /\ \A i \in 1..Len(d) : s[i + 1] = d[i]
    <3>1. /\ Unsigned(s) \in Seq(E) /\ Len(Unsigned(s)) = Len(s) - 1
          /\ \A i \in 1..(Len(s) - 1) : Unsigned(s)[i] = s[i + 1]
          /\ Negative(s)
      BY <1>2, <2>2, UnsignedIs
    <3>2. Len(Unsigned(s)) = Len(d) /\ \A i \in 1..Len(d) : Unsigned(s)[i] = d[i]
      BY <1>2, <2>2, <3>1
    <3>3. Unsigned(s) = d
      BY <3>1, <3>2
    <3>4. s # d
      BY <1>2, <2>2
    <3>5. QED
      BY <1>4, <3>1, <3>3, <3>4 DEF Figures
  <2>3. QED
    BY <2>1, <2>2
<1>6. Span(d, Digit) = Len(d)
  <2>1. Len(d) \in 0..Len(d)
    BY <1>2
  <2>2. QED
    BY <1>1, <2>1, SpanIs
<1>7. SubSeq(d, 1, Len(d)) = d /\ From(d, Len(d)) = <<>>
  BY DEF From
<1>8. QED
  BY <1>4, <1>5, <1>6, <1>7 DEF Count10, Worth

\* So a printed integer reads back as itself.
LEMMA PrintedReadsBack ==
  ASSUME NEW i \in Int64
  PROVE  ParseLeadingInt(FormatInt(i)) = [int |-> i, status |-> 0]
<1> DEFINE n == Abs(i)
           d == DigitsOf[n]
           s == FormatInt(i)
<1>1. MinInt \in Int /\ MaxInt \in Int /\ MaxInt = -MinInt - 1 /\ i \in Int /\ MinInt <= i /\ i <= MaxInt
  <2>1. MinInt \in Int /\ MaxInt \in Int /\ MaxInt = -MinInt - 1
    BY Limits DEF MinInt, MaxInt
  <2>2. QED
    BY <2>1 DEF Int64
<1>2. n \in 0..(-MinInt) /\ n = (IF i < 0 THEN -i ELSE i)
  BY <1>1 DEF Abs
<1>3. d \in Seq(Digit) /\ Len(d) > 0 /\ Decimal(d) = n
  BY <1>2, DigitsSay
<1>4. s = (IF i < 0 THEN <<"-">> ELSE <<>>) \o d
  BY DEF FormatInt
<1> HIDE DEF n, d, s
<1> DEFINE E == Digit \union {"-"}
<1>5. s \in Seq(E) /\ (i >= 0 => s = d)
      /\ (i < 0 => Len(s) = Len(d) + 1 /\ s[1] = "-" /\ \A j \in 1..Len(d) : s[j + 1] = d[j])
  <2>1. d \in Seq(E)
    BY <1>3
  <2>2. CASE i < 0
    <3>1. s = <<"-">> \o d /\ <<"-">> \in Seq(E)
      BY <1>4, <2>2
    <3>2. Len(s) = Len(d) + 1 /\ s[1] = "-" /\ \A j \in 1..Len(d) : s[j + 1] = d[j]
      BY <2>1, <3>1
    <3>3. QED
      BY <1>1, <2>1, <2>2, <3>1, <3>2
  <2>3. CASE i >= 0
    <3>1. s = d
      BY <1>1, <1>3, <1>4, <2>3
    <3>2. QED
      BY <1>1, <2>1, <2>3, <3>1
  <2>4. QED
    BY <1>1, <2>2, <2>3
<1>6. s # d <=> i < 0
  <2>1. Len(d) \in Nat
    BY <1>3
  <2>2. QED
    BY <1>1, <1>5, <2>1
<1>7. /\ Trimmed(s) = s /\ Figures(s) = d /\ Count10(s) = Len(d)
      /\ (Negative(s) <=> s # d)
      /\ Worth(s) = Decimal(d) /\ From(d, Len(d)) = <<>>
  <2>1. \/ s = d
        \/ /\ Len(s) = Len(d) + 1 /\ s[1] = "-" /\ \A j \in 1..Len(d) : s[j + 1] = d[j]
    BY <1>1, <1>5
  <2> HIDE DEF E
  <2>2. QED
    BY <1>3, <1>5, <2>1, ReadsDigits
<1> DEFINE fits == IF Count10(s) = 0 THEN -1
                   ELSE IF Range(From(Figures(s), Count10(s))) \subseteq Space THEN 0 ELSE 1
<1>8. ParseLeadingInt(s) =
        IF Negative(Trimmed(s))
          THEN IF -Worth(s) >= MinInt THEN [int |-> -Worth(s), status |-> fits]
               ELSE [int |-> MinInt, status |-> 2]
          ELSE IF Worth(s) <= MaxInt THEN [int |-> Worth(s), status |-> fits]
               ELSE [int |-> MaxInt, status |-> IF Worth(s) = MaxInt + 1 THEN 3 ELSE 2]
  BY Zenon DEF ParseLeadingInt, Trimmed, Figures, Count10, Worth
<1>9. fits = 0
  <2>1. Range(<<>>) \subseteq Space
    BY DEF Range
  <2>2. Count10(s) # 0
    BY <1>3, <1>7
  <2>3. QED
    BY <1>7, <2>1, <2>2
<1> HIDE DEF fits
<1>10. CASE i < 0
  <2>1. Negative(Trimmed(s)) /\ -Worth(s) = i
    BY <1>1, <1>2, <1>3, <1>6, <1>7, <1>10
  <2>2. QED
    BY <1>1, <1>8, <1>9, <2>1 DEF s
<1>11. CASE i >= 0
  <2>1. ~Negative(Trimmed(s)) /\ Worth(s) = i
    BY <1>1, <1>2, <1>3, <1>6, <1>7, <1>11
  <2>2. QED
    BY <1>1, <1>8, <1>9, <2>1 DEF s
<1>12. QED
  BY <1>1, <1>10, <1>11

-----------------------------------------------------------------------------
\* A text is a sequence of characters.
TextType == language \in Language /\ text \in Seq(Symbol)

LEMMA TextsTyped == Spec => []TextType
<1>1. Init => TextType
  BY TextAssumption DEF Init, TextType
<1>2. TextType /\ [Next]_textVars => TextType'
  <2>1. SUFFICES ASSUME TextType, [Next]_textVars PROVE TextType'
    OBVIOUS
  <2>2. CASE Write
    <3>1. PICK p \in Piece[language] : text' = p[1] \o text \o p[2]
      BY <2>2 DEF Write
    <3>2. p \in Seq(Symbol) \X Seq(Symbol) /\ language' = language
      BY <2>1, <2>2, <3>1, TextAssumption DEF TextType, Write
    <3>3. \A S : \A u \in Seq(S), v \in Seq(S), w \in Seq(S) : u \o v \o w \in Seq(S)
      OBVIOUS
    <3>4. p[1] \in Seq(Symbol) /\ p[2] \in Seq(Symbol) /\ text \in Seq(Symbol)
      BY <2>1, <3>2 DEF TextType
    <3>5. QED
      BY <2>1, <3>1, <3>2, <3>3, <3>4 DEF TextType
  <2>3. CASE UNCHANGED textVars
    BY <2>1, <2>3 DEF TextType, textVars
  <2>4. QED
    BY <2>1, <2>2, <2>3 DEF Next
<1>3. QED
  BY <1>1, <1>2, PTL DEF Spec

(* CAST AS INTEGER takes the integer that a text starts with, or the nearest *)
(* that fits, and a printed integer reads back as itself: for every width of *)
(* the integers and every text, however long (parseLeadingInt).             *)
THEOREM NumeralsReadBack == Spec => []IntegersReadBack
<1>1. TextType => IntegersReadBack
  <2>1. SUFFICES ASSUME text \in Seq(Symbol) PROVE IntegersReadBack
    BY DEF TextType
  <2> DEFINE i == V!CastValue(V!TextV(text), "INTEGER").n
  <2>2. i = ParseLeadingInt(text).int
    BY DEF V!CastValue, V!TextV, V!IsNull, V!IntValueOf, V!IntV
  <2>3. i = Clamped(SaidFirst(text)) /\ i \in Int64
    BY <2>1, <2>2, LeadingIs
  <2>4. ParseLeadingInt(FormatInt(i)) = [int |-> i, status |-> 0]
    BY <2>3, PrintedReadsBack
  <2> HIDE DEF i
  <2>5. IntegersReadBack <=> (language = "numeral" =>
          /\ i = Clamped(SaidFirst(text))
          /\ ParseLeadingInt(FormatInt(i)) = [int |-> i, status |-> 0])
    BY Zenon DEF IntegersReadBack, i, Clamped, SaidFirst, Longest, Wholes
  <2>6. QED
    BY <2>3, <2>4, <2>5
<1>2. QED
  BY <1>1, TextsTyped, PTL

-----------------------------------------------------------------------------
\* LIKE with an escape and without one, and GLOB.
Languages == {Like(None), Like("\\"), Glob}

LEMMA LanguageFacts ==
  ASSUME NEW l \in Languages
  PROVE  l.all # l.one /\ l.other # l.all /\ l.other # l.one /\ l.class \in BOOLEAN
         /\ (l.other # None /\ ~l.class => l = Like("\\"))
         /\ (l.other = None => ~l.class)
<1>1. CASE l = Like(None)
  <2>1. l.all = "%" /\ l.one = "_" /\ l.other = None /\ l.class = FALSE
    BY <1>1 DEF Like
  <2>2. QED
    BY <2>1 DEF None
<1>2. CASE l = Like("\\")
  <2>1. l.all = "%" /\ l.one = "_" /\ l.other = "\\" /\ l.class = FALSE
    BY <1>2 DEF Like
  <2>2. QED
    BY <1>2, <2>1 DEF None
<1>3. CASE l = Glob
  <2>1. l.all = "*" /\ l.one = "?" /\ l.other = "[" /\ l.class = TRUE
    BY <1>3 DEF Glob
  <2>2. QED
    BY <2>1 DEF None
<1>4. QED
  BY <1>1, <1>2, <1>3 DEF Languages

\* Patterns in which no class is, which are all but those of GLOB with a bracket.
Plain(l, p) == l.class => \A k \in 1..Len(p) : p[k] # l.other

\* How far the wildcards behind i go.
LEMMA WildcardsAre ==
  ASSUME NEW E, NEW l, NEW p \in Seq(E), NEW i \in 0..Len(p)
  PROVE  /\ Wildcards(l, p, i) \in 0..(Len(p) - i)
         /\ \A k \in 1..Wildcards(l, p, i) : p[i + k] \in {l.all, l.one}
         /\ i + Wildcards(l, p, i) = Len(p) \/ p[i + Wildcards(l, p, i) + 1] \notin {l.all, l.one}
<1> DEFINE n == Len(p) - i
           W == {l.all, l.one}
           P(m) == (\A k \in 1..m : p[i + k] \in W) /\ (i + m = Len(p) \/ p[i + m + 1] \notin W)
<1>1. Len(p) \in Nat /\ i \in Nat /\ n \in Nat /\ i + n = Len(p)
  OBVIOUS
<1>2. \E m \in 0..n : P(m)
  <2> HIDE DEF W, n
  <2>1. CASE \A k \in 1..n : p[i + k] \in W
    <3>1. P(n) /\ n \in 0..n
      BY <1>1, <2>1
    <3>2. QED
      BY <3>1
  <2>2. CASE \E k \in 1..n : p[i + k] \notin W
    <3> DEFINE R == {k \in 1..n : p[i + k] \notin W}
    <3>1. R \in SUBSET Nat /\ R # {}
      BY <2>2
    <3>2. PICK m \in R : \A k \in R : m <= k
      <4> HIDE DEF R
      <4>1. QED
        BY <3>1, LeastElement
    <3>3. m - 1 \in 0..n /\ m \in 1..n /\ p[i + m] \notin W /\ i + (m - 1) + 1 = i + m
      BY <1>1, <3>2
    <3>4. ASSUME NEW k \in 1..(m - 1) PROVE p[i + k] \in W
      <4>1. k \in 1..n /\ ~(m <= k)
        BY <1>1, <3>3
      <4>2. QED
        BY <3>2, <4>1
    <3>5. P(m - 1)
      BY <3>3, <3>4
    <3>6. QED
      BY <3>3, <3>5
  <2>3. QED
    BY <2>1, <2>2
<1>3. Wildcards(l, p, i) = CHOOSE m \in 0..n : P(m)
  BY DEF Wildcards
<1>4. Wildcards(l, p, i) \in 0..n /\ P(Wildcards(l, p, i))
  <2> HIDE DEF P, n
  <2>1. QED
    BY <1>2, <1>3
<1>5. QED
  BY <1>4

\* How many of the first t of them stand for one character.
OnesTo(l, p, i, t) == Cardinality({k \in 1..t : p[i + k] = l.one})

LEMMA OnesStep ==
  ASSUME NEW l, NEW p, NEW i, NEW t \in Nat
  PROVE  /\ OnesTo(l, p, i, t) \in Nat /\ OnesTo(l, p, i, 0) = 0
         /\ OnesTo(l, p, i, t + 1) = OnesTo(l, p, i, t) + (IF p[i + (t + 1)] = l.one THEN 1 ELSE 0)
<1> DEFINE S(m) == {k \in 1..m : p[i + k] = l.one}
<1>1. \A m \in Nat : IsFiniteSet(S(m)) /\ Cardinality(S(m)) \in Nat
  <2>1. ASSUME NEW m \in Nat PROVE IsFiniteSet(S(m))
    <3>1. IsFiniteSet(1..m)
      BY FS_Interval
    <3>2. S(m) \subseteq 1..m
      OBVIOUS
    <3>3. QED
      BY <3>1, <3>2, FS_Subset
  <2>2. QED
    BY <2>1, FS_CardinalityType
<1>2. S(0) = {} /\ Cardinality({}) = 0
  BY FS_EmptySet
<1>7. OnesTo(l, p, i, 0) = Cardinality(S(0)) /\ OnesTo(l, p, i, t) = Cardinality(S(t))
      /\ OnesTo(l, p, i, t + 1) = Cardinality(S(t + 1))
  BY DEF OnesTo
<1>3. t + 1 \in Nat /\ t + 1 \notin S(t)
  OBVIOUS
<1>4. CASE p[i + (t + 1)] = l.one
  <2>1. S(t + 1) = S(t) \union {t + 1}
    BY <1>4
  <2> HIDE DEF S
  <2>2. Cardinality(S(t) \union {t + 1}) = Cardinality(S(t)) + 1
    BY <1>1, <1>3, FS_AddElement
  <2>3. QED
    BY <1>1, <1>2, <1>4, <1>7, <2>1, <2>2
<1>5. CASE p[i + (t + 1)] # l.one
  <2>1. S(t + 1) = S(t)
    BY <1>5
  <2> HIDE DEF S
  <2>2. QED
    BY <1>1, <1>2, <1>5, <1>7, <2>1
<1>6. QED
  BY <1>4, <1>5

-----------------------------------------------------------------------------
\* Functions of positions that agree behind i.
AgreeBehind(f, g, p, s, i) == \A m \in (i + 1)..Len(p), k \in 0..Len(s) : f[<<m, k>>] <=> g[<<m, k>>]

\* What is compared at a position depends on the positions behind it.
LEMMA CompareAgrees ==
  ASSUME NEW l \in Languages, NEW p \in Seq(Symbol), NEW s \in Seq(Symbol), Plain(l, p), NEW f, NEW g,
         NEW i \in 0..Len(p), NEW j \in 0..Len(s), AgreeBehind(f, g, p, s, i)
  PROVE  CompareAt(l, p, s, f, i, j) <=> CompareAt(l, p, s, g, i, j)
<1>1. Len(p) \in Nat /\ Len(s) \in Nat /\ i \in Nat /\ j \in Nat /\ i <= Len(p) /\ j <= Len(s)
  OBVIOUS
<1>2. CASE i = Len(p)
  BY <1>2 DEF CompareAt
<1>3. CASE i # Len(p) /\ p[i + 1] = l.all
  <2> DEFINE next == i + 1 + Wildcards(l, p, i + 1)
             n == j + Ones(l, p, i + 1)
             from == IF next < Len(p) /\ p[next + 1] = l.other /\ ~l.class THEN next + 1 ELSE next
  <2>1. i + 1 \in 0..Len(p) /\ i + 1 \in Nat
    BY <1>1, <1>3
  <2>10. Wildcards(l, p, i + 1) \in 0..(Len(p) - (i + 1))
    BY <2>1, WildcardsAre
  <2>2. next \in (i + 1)..Len(p)
    BY <1>1, <2>1, <2>10
  <2>3. from < Len(p) => from \in (i + 1)..Len(p)
    BY <1>1, <2>2
  <2>4. Ones(l, p, i + 1) \in Nat
    <3>1. Wildcards(l, p, i + 1) \in Nat
      BY <2>10
    <3>2. Ones(l, p, i + 1) = OnesTo(l, p, i + 1, Wildcards(l, p, i + 1))
      BY DEF Ones, OnesTo
    <3>3. QED
      BY <3>1, <3>2, OnesStep
  <2>5. \A k \in n..(Len(s) - 1) : k \in 0..Len(s)
    BY <1>1, <2>4
  <2> HIDE DEF next, n, from
  <2>6. \A k \in n..(Len(s) - 1) : from < Len(p) => (f[<<from, k>>] <=> g[<<from, k>>])
    BY <2>3, <2>5 DEF AgreeBehind
  <2>7. \A h : AfterAll(l, p, s, h, i + 1, j) <=>
          /\ n <= Len(s)
          /\ \/ next = Len(p)
             \/ /\ from < Len(p)
                /\ \E k \in n..(Len(s) - 1) : /\ \/ l.class /\ p[from + 1] = l.other
                                                 \/ RuneEqual(l, s[k + 1], p[from + 1])
                                              /\ h[<<from, k>>]
    BY Zenon DEF AfterAll, next, n, from
  <2>8. AfterAll(l, p, s, f, i + 1, j) <=> AfterAll(l, p, s, g, i + 1, j)
    BY <2>6, <2>7
  <2>9. QED
    BY <1>3, <2>8 DEF CompareAt
<1>4. CASE i # Len(p) /\ p[i + 1] # l.all /\ j = Len(s)
  BY <1>4 DEF CompareAt
<1>5. CASE i # Len(p) /\ p[i + 1] # l.all /\ j # Len(s)
  <2>1. i + 1 \in (i + 1)..Len(p) /\ j + 1 \in 0..Len(s) /\ i + 1 \in 1..Len(p)
        /\ (i + 1 < Len(p) => i + 2 \in (i + 1)..Len(p))
    BY <1>1, <1>5
  <2>2. ~(p[i + 1] = l.other /\ l.class)
    BY <2>1 DEF Plain
  <2>3. f[<<i + 1, j + 1>>] <=> g[<<i + 1, j + 1>>]
    BY <2>1 DEF AgreeBehind
  <2>4. i + 1 < Len(p) => (f[<<i + 2, j + 1>>] <=> g[<<i + 2, j + 1>>])
    BY <2>1 DEF AgreeBehind
  <2>5. QED
    BY <1>5, <2>2, <2>3, <2>4 DEF CompareAt
<1>6. QED
  BY <1>2, <1>3, <1>4, <1>5

\* So there is a comparison of all positions, ...
LEMMA MatchesExist ==
  ASSUME NEW l \in Languages, NEW p \in Seq(Symbol), NEW s \in Seq(Symbol), Plain(l, p)
  PROVE  \E f : f = [x \in Positions(p, s) |-> CompareAt(l, p, s, f, x[1], x[2])]
<1> DEFINE N == Len(p)
           Is(f, i) == \A j \in 0..Len(s) : f[<<i, j>>] = CompareAt(l, p, s, f, i, j)
           Good(m) == \E f \in [Positions(p, s) -> BOOLEAN] : \A i \in (N - m)..N : Is(f, i)
           S == {m \in 0..N : Good(m)}
<1>1. N \in Nat /\ Len(s) \in Nat
  OBVIOUS
<1>2. ASSUME NEW f, NEW i, NEW j PROVE CompareAt(l, p, s, f, i, j) \in BOOLEAN
  <2>1. AfterAll(l, p, s, f, i + 1, j) \in BOOLEAN
    BY Zenon DEF AfterAll
  <2>3. CASE i = Len(p)
    BY <2>3 DEF CompareAt
  <2>4. CASE i # Len(p) /\ p[i + 1] = l.all
    BY <2>1, <2>4 DEF CompareAt
  <2>5. CASE i # Len(p) /\ p[i + 1] # l.all
    BY <2>5 DEF CompareAt
  <2>6. QED
    BY <2>3, <2>4, <2>5
<1>3. \A i \in 0..N, j \in 0..Len(s) : <<i, j>> \in Positions(p, s)
  BY DEF Positions
<1> DEFINE Next0(g, i) == [x \in Positions(p, s) |-> IF x[1] = i THEN CompareAt(l, p, s, g, x[1], x[2]) ELSE g[x]]
<1>4. ASSUME NEW g \in [Positions(p, s) -> BOOLEAN], NEW i \in 0..N, \A q \in (i + 1)..N : Is(g, q)
      PROVE  \E f \in [Positions(p, s) -> BOOLEAN] : \A q \in i..N : Is(f, q)
  <2> DEFINE f == Next0(g, i)
  <2>1. f \in [Positions(p, s) -> BOOLEAN]
    BY <1>2
  <2>2. \A q \in (i + 1)..N, k \in 0..Len(s) : f[<<q, k>>] = g[<<q, k>>]
    <3>1. ASSUME NEW q \in (i + 1)..N, NEW k \in 0..Len(s) PROVE f[<<q, k>>] = g[<<q, k>>]
      <4>1. <<q, k>> \in Positions(p, s) /\ <<q, k>>[1] = q /\ q # i
        BY <1>1, <1>3
      <4>2. QED
        BY <4>1
    <3>2. QED
      BY <3>1
  <2>3. \A k \in 0..Len(s) : f[<<i, k>>] = CompareAt(l, p, s, g, i, k)
    <3>1. ASSUME NEW k \in 0..Len(s) PROVE f[<<i, k>>] = CompareAt(l, p, s, g, i, k)
      <4>1. <<i, k>> \in Positions(p, s) /\ <<i, k>>[1] = i /\ <<i, k>>[2] = k
        BY <1>3
      <4>2. QED
        BY <4>1
    <3>2. QED
      BY <3>1
  <2> HIDE DEF f, Next0
  <2>4. \A q \in i..N : AgreeBehind(f, g, p, s, q)
    <3>1. \A q \in i..N : \A m \in (q + 1)..N : m \in (i + 1)..N
      BY <1>1
    <3>2. QED
      BY <2>2, <3>1 DEF AgreeBehind
  <2>5. \A q \in i..N, j \in 0..Len(s) : CompareAt(l, p, s, f, q, j) = CompareAt(l, p, s, g, q, j)
    <3>1. \A q \in i..N : q \in 0..N
      BY <1>1
    <3>2. QED
      BY <1>2, <2>4, <3>1, CompareAgrees
  <2>6. ASSUME NEW q \in i..N PROVE Is(f, q)
    <3>1. q = i \/ q \in (i + 1)..N
      BY <1>1
    <3>2. CASE q = i
      BY <2>3, <2>5, <3>2
    <3>3. CASE q \in (i + 1)..N
      BY <1>4, <2>2, <2>5, <3>3
    <3>4. QED
      BY <3>1, <3>2, <3>3
  <2>7. QED
    BY <2>1, <2>6
<1> HIDE DEF Is
<1>5. 0 \in S
  <2>1. [x \in Positions(p, s) |-> TRUE] \in [Positions(p, s) -> BOOLEAN]
    OBVIOUS
  <2>2. N \in 0..N /\ (N + 1)..N = {} /\ N - 0 = N
    BY <1>1
  <2>3. \E f \in [Positions(p, s) -> BOOLEAN] : \A q \in N..N : Is(f, q)
    BY <1>4, <2>1, <2>2
  <2>4. QED
    BY <1>1, <2>2, <2>3
<1>6. ASSUME NEW m \in 1..N, m - 1 \in S PROVE m \in S
  <2>1. PICK g \in [Positions(p, s) -> BOOLEAN] : \A i \in (N - (m - 1))..N : Is(g, i)
    BY <1>6
  <2>2. N - m \in 0..N /\ N - (m - 1) = (N - m) + 1 /\ m \in 0..N
    BY <1>1
  <2>3. \E f \in [Positions(p, s) -> BOOLEAN] : \A q \in (N - m)..N : Is(f, q)
    BY <1>4, <2>1, <2>2
  <2>4. QED
    BY <2>2, <2>3
<1>7. Good(N)
  <2> HIDE DEF S
  <2>1. 0..N \subseteq S
    BY <1>1, <1>5, <1>6, UpTo
  <2>2. N \in S
    BY <1>1, <2>1
  <2>3. QED
    BY <2>2 DEF S
<1>8. PICK f \in [Positions(p, s) -> BOOLEAN] : \A i \in 0..N : Is(f, i)
  <2>1. N - N = 0
    BY <1>1
  <2>2. QED
    BY <1>7, <2>1
<1>9. \A x \in Positions(p, s) : f[x] = CompareAt(l, p, s, f, x[1], x[2])
  <2>1. ASSUME NEW x \in Positions(p, s) PROVE f[x] = CompareAt(l, p, s, f, x[1], x[2])
    <3>1. x = <<x[1], x[2]>> /\ x[1] \in 0..N /\ x[2] \in 0..Len(s)
      BY DEF Positions
    <3>2. QED
      BY <1>8, <3>1 DEF Is
  <2>2. QED
    BY <2>1
<1>10. QED
  BY <1>8, <1>9

\* ... and PatternCompare is what it says at the start.
LEMMA Compared ==
  ASSUME NEW l \in Languages, NEW p \in Seq(Symbol), NEW s \in Seq(Symbol), Plain(l, p)
  PROVE  \E f : /\ PatternCompare(l, p, s) <=> f[<<0, 0>>]
                /\ \A i \in 0..Len(p), j \in 0..Len(s) : f[<<i, j>>] <=> CompareAt(l, p, s, f, i, j)
<1> DEFINE Is(f) == f = [x \in Positions(p, s) |-> CompareAt(l, p, s, f, x[1], x[2])]
           f == CHOOSE f : Is(f)
<1>1. Is(f)
  BY MatchesExist
<1>2. PatternCompare(l, p, s) <=> f[<<0, 0>>]
  BY Zenon DEF PatternCompare
<1> HIDE DEF f
<1>3. ASSUME NEW i \in 0..Len(p), NEW j \in 0..Len(s) PROVE f[<<i, j>>] <=> CompareAt(l, p, s, f, i, j)
  <2>1. <<i, j>> \in Positions(p, s) /\ <<i, j>>[1] = i /\ <<i, j>>[2] = j
    BY DEF Positions
  <2>2. f[<<i, j>>] = CompareAt(l, p, s, f, i, j)
    BY <1>1, <2>1
  <2>3. QED
    BY <2>2
<1>4. QED
  BY <1>2, <1>3

-----------------------------------------------------------------------------
\* An item ends behind its start.
LEMMA ItemEnds ==
  ASSUME NEW l \in Languages, NEW p \in Seq(Symbol), Plain(l, p), NEW i \in 0..Len(p), i # Len(p)
  PROVE  ItemEnd(l, p, i) = IF p[i + 1] # l.other THEN i + 1 ELSE IF i + 1 = Len(p) THEN i + 1 ELSE i + 2
<1>1. i + 1 \in 1..Len(p)
  OBVIOUS
<1>2. l.class => p[i + 1] # l.other
  BY <1>1 DEF Plain
<1>3. QED
  BY <1>2 DEF ItemEnd

\* What is meant at a position depends on the positions behind it.
LEMMA MeansAgrees ==
  ASSUME NEW l \in Languages, NEW p \in Seq(Symbol), NEW s \in Seq(Symbol), Plain(l, p), NEW f, NEW g,
         NEW i \in 0..Len(p), NEW j \in 0..Len(s), AgreeBehind(f, g, p, s, i)
  PROVE  MeansAt(l, p, s, f, i, j) <=> MeansAt(l, p, s, g, i, j)
<1>1. Len(p) \in Nat /\ Len(s) \in Nat /\ i \in Nat /\ j \in Nat /\ i <= Len(p) /\ j <= Len(s)
  OBVIOUS
<1>2. CASE i = Len(p)
  BY <1>2 DEF MeansAt
<1>3. CASE i # Len(p) /\ p[i + 1] = l.all
  <2>1. i + 1 \in (i + 1)..Len(p) /\ \A k \in j..Len(s) : k \in 0..Len(s)
    BY <1>1, <1>3
  <2>2. \A k \in j..Len(s) : f[<<i + 1, k>>] <=> g[<<i + 1, k>>]
    BY <2>1 DEF AgreeBehind
  <2>3. QED
    BY <1>3, <2>2 DEF MeansAt
<1>4. CASE i # Len(p) /\ p[i + 1] # l.all
  <2>1. ItemEnd(l, p, i) \in (i + 1)..Len(p)
    BY <1>1, <1>4, ItemEnds
  <2>2. j < Len(s) => j + 1 \in 0..Len(s)
    BY <1>1
  <2>3. j < Len(s) => (f[<<ItemEnd(l, p, i), j + 1>>] <=> g[<<ItemEnd(l, p, i), j + 1>>])
    BY <2>1, <2>2 DEF AgreeBehind
  <2>4. QED
    BY <1>4, <2>3 DEF MeansAt
<1>5. QED
  BY <1>2, <1>3, <1>4

\* So there is a meaning of all positions, ...
LEMMA MeaningsExist ==
  ASSUME NEW l \in Languages, NEW p \in Seq(Symbol), NEW s \in Seq(Symbol), Plain(l, p)
  PROVE  \E f : f = [x \in Positions(p, s) |-> MeansAt(l, p, s, f, x[1], x[2])]
<1> DEFINE N == Len(p)
           Is(f, i) == \A j \in 0..Len(s) : f[<<i, j>>] = MeansAt(l, p, s, f, i, j)
           Good(m) == \E f \in [Positions(p, s) -> BOOLEAN] : \A i \in (N - m)..N : Is(f, i)
           S == {m \in 0..N : Good(m)}
<1>1. N \in Nat /\ Len(s) \in Nat
  OBVIOUS
<1>2. \A f, i, j : MeansAt(l, p, s, f, i, j) \in BOOLEAN
  BY DEF MeansAt
<1>3. \A i \in 0..N, j \in 0..Len(s) : <<i, j>> \in Positions(p, s)
  BY DEF Positions
<1> DEFINE Next0(g, i) == [x \in Positions(p, s) |-> IF x[1] = i THEN MeansAt(l, p, s, g, x[1], x[2]) ELSE g[x]]
<1>4. ASSUME NEW g \in [Positions(p, s) -> BOOLEAN], NEW i \in 0..N, \A q \in (i + 1)..N : Is(g, q)
      PROVE  \E f \in [Positions(p, s) -> BOOLEAN] : \A q \in i..N : Is(f, q)
  <2> DEFINE f == Next0(g, i)
  <2>1. f \in [Positions(p, s) -> BOOLEAN]
    BY <1>2
  <2>2. \A q \in (i + 1)..N, k \in 0..Len(s) : f[<<q, k>>] = g[<<q, k>>]
    <3>1. ASSUME NEW q \in (i + 1)..N, NEW k \in 0..Len(s) PROVE f[<<q, k>>] = g[<<q, k>>]
      <4>1. <<q, k>> \in Positions(p, s) /\ <<q, k>>[1] = q /\ q # i
        BY <1>1, <1>3
      <4>2. QED
        BY <4>1
    <3>2. QED
      BY <3>1
  <2>3. \A k \in 0..Len(s) : f[<<i, k>>] = MeansAt(l, p, s, g, i, k)
    <3>1. ASSUME NEW k \in 0..Len(s) PROVE f[<<i, k>>] = MeansAt(l, p, s, g, i, k)
      <4>1. <<i, k>> \in Positions(p, s) /\ <<i, k>>[1] = i /\ <<i, k>>[2] = k
        BY <1>3
      <4>2. QED
        BY <4>1
    <3>2. QED
      BY <3>1
  <2> HIDE DEF f, Next0
  <2>4. \A q \in i..N : AgreeBehind(f, g, p, s, q)
    <3>1. \A q \in i..N : \A m \in (q + 1)..N : m \in (i + 1)..N
      BY <1>1
    <3>2. QED
      BY <2>2, <3>1 DEF AgreeBehind
  <2>5. \A q \in i..N, j \in 0..Len(s) : MeansAt(l, p, s, f, q, j) = MeansAt(l, p, s, g, q, j)
    <3>1. \A q \in i..N : q \in 0..N
      BY <1>1
    <3>2. QED
      BY <1>2, <2>4, <3>1, MeansAgrees
  <2>6. ASSUME NEW q \in i..N PROVE Is(f, q)
    <3>1. q = i \/ q \in (i + 1)..N
      BY <1>1
    <3>2. CASE q = i
      BY <2>3, <2>5, <3>2
    <3>3. CASE q \in (i + 1)..N
      BY <1>4, <2>2, <2>5, <3>3
    <3>4. QED
      BY <3>1, <3>2, <3>3
  <2>7. QED
    BY <2>1, <2>6
<1> HIDE DEF Is
<1>5. 0 \in S
  <2>1. [x \in Positions(p, s) |-> TRUE] \in [Positions(p, s) -> BOOLEAN]
    OBVIOUS
  <2>2. N \in 0..N /\ (N + 1)..N = {} /\ N - 0 = N
    BY <1>1
  <2>3. \E f \in [Positions(p, s) -> BOOLEAN] : \A q \in N..N : Is(f, q)
    BY <1>4, <2>1, <2>2
  <2>4. QED
    BY <1>1, <2>2, <2>3
<1>6. ASSUME NEW m \in 1..N, m - 1 \in S PROVE m \in S
  <2>1. PICK g \in [Positions(p, s) -> BOOLEAN] : \A i \in (N - (m - 1))..N : Is(g, i)
    BY <1>6
  <2>2. N - m \in 0..N /\ N - (m - 1) = (N - m) + 1 /\ m \in 0..N
    BY <1>1
  <2>3. \E f \in [Positions(p, s) -> BOOLEAN] : \A q \in (N - m)..N : Is(f, q)
    BY <1>4, <2>1, <2>2
  <2>4. QED
    BY <2>2, <2>3
<1>7. Good(N)
  <2> HIDE DEF S
  <2>1. 0..N \subseteq S
    BY <1>1, <1>5, <1>6, UpTo
  <2>2. N \in S
    BY <1>1, <2>1
  <2>3. QED
    BY <2>2 DEF S
<1>8. PICK f \in [Positions(p, s) -> BOOLEAN] : \A i \in 0..N : Is(f, i)
  <2>1. N - N = 0
    BY <1>1
  <2>2. QED
    BY <1>7, <2>1
<1>9. \A x \in Positions(p, s) : f[x] = MeansAt(l, p, s, f, x[1], x[2])
  <2>1. ASSUME NEW x \in Positions(p, s) PROVE f[x] = MeansAt(l, p, s, f, x[1], x[2])
    <3>1. x = <<x[1], x[2]>> /\ x[1] \in 0..N /\ x[2] \in 0..Len(s)
      BY DEF Positions
    <3>2. QED
      BY <1>8, <3>1 DEF Is
  <2>2. QED
    BY <2>1
<1>10. QED
  BY <1>8, <1>9

\* ... and Means is what it says at the start.
LEMMA Meant ==
  ASSUME NEW l \in Languages, NEW p \in Seq(Symbol), NEW s \in Seq(Symbol), Plain(l, p)
  PROVE  \E f : /\ Means(l, p, s) <=> f[<<0, 0>>]
                /\ \A i \in 0..Len(p), j \in 0..Len(s) : f[<<i, j>>] <=> MeansAt(l, p, s, f, i, j)
<1> DEFINE Is(f) == f = [x \in Positions(p, s) |-> MeansAt(l, p, s, f, x[1], x[2])]
           f == CHOOSE f : Is(f)
<1>1. Is(f)
  BY MeaningsExist
<1>2. Means(l, p, s) <=> f[<<0, 0>>]
  BY Zenon DEF Means
<1> HIDE DEF f
<1>3. ASSUME NEW i \in 0..Len(p), NEW j \in 0..Len(s) PROVE f[<<i, j>>] <=> MeansAt(l, p, s, f, i, j)
  <2>1. <<i, j>> \in Positions(p, s) /\ <<i, j>>[1] = i /\ <<i, j>>[2] = j
    BY DEF Positions
  <2>2. f[<<i, j>>] = MeansAt(l, p, s, f, i, j)
    BY <1>1, <2>1
  <2>3. QED
    BY <2>2
<1>4. QED
  BY <1>2, <1>3

-----------------------------------------------------------------------------
\* m is what the positions mean.
Meaning(m, l, p, s) == \A i \in 0..Len(p), j \in 0..Len(s) : m[<<i, j>>] <=> MeansAt(l, p, s, m, i, j)

\* From j on, somewhere, the rest of the string is what is meant behind i.
Sometime(m, s, i, j) == \E k \in j..Len(s) : m[<<i, k>>]

\* Wildcards that follow each other mean as many characters as there are single ones, or more.
LEMMA RunMeans ==
  ASSUME NEW l \in Languages, NEW p \in Seq(Symbol), NEW s \in Seq(Symbol), Plain(l, p), NEW m, Meaning(m, l, p, s),
         NEW i \in 0..Len(p), NEW j \in 0..Len(s)
  PROVE  \A t \in 0..Wildcards(l, p, i) : Sometime(m, s, i, j) <=> Sometime(m, s, i + t, j + OnesTo(l, p, i, t))
<1> DEFINE w == Wildcards(l, p, i)
           From0 == \E k \in j..Len(s) : m[<<i, k>>]
           Runs0(t) == \E k \in (j + OnesTo(l, p, i, t))..Len(s) : m[<<i + t, k>>]
           S == {t \in 0..w : From0 <=> Runs0(t)}
<1>1. Len(p) \in Nat /\ Len(s) \in Nat /\ i \in Nat /\ j \in Nat
  OBVIOUS
<1>2. w \in 0..(Len(p) - i) /\ \A k \in 1..w : p[i + k] \in {l.all, l.one}
  BY WildcardsAre
<1> HIDE DEF w
<1>3. 0 \in S
  <2>1. OnesTo(l, p, i, 0) = 0
    BY OnesStep
  <2>2. j + OnesTo(l, p, i, 0) = j /\ i + 0 = i
    BY <1>1, <2>1
  <2>3. 0 \in 0..w
    BY <1>1, <1>2
  <2>4. Runs0(0) <=> From0
    BY <2>2
  <2>5. QED
    BY <2>3, <2>4
<1>4. ASSUME NEW t \in 1..w, t - 1 \in S PROVE t \in S
  <2> DEFINE q == i + (t - 1)
             a == j + OnesTo(l, p, i, t - 1)
  <2>1. /\ t - 1 \in Nat /\ t \in 0..w /\ (t - 1) + 1 = t /\ q \in 0..Len(p) /\ q # Len(p)
        /\ q + 1 = i + t /\ q + 1 \in 0..Len(p)
    BY <1>1, <1>2
  <2>2. OnesTo(l, p, i, t - 1) \in Nat
        /\ OnesTo(l, p, i, t) = OnesTo(l, p, i, t - 1) + (IF p[i + t] = l.one THEN 1 ELSE 0)
    <3>1. PICK u \in Nat : u = t - 1 /\ u + 1 = t /\ i + (u + 1) = i + t
      BY <1>1, <2>1
    <3>2. OnesTo(l, p, i, u) \in Nat
          /\ OnesTo(l, p, i, u + 1) = OnesTo(l, p, i, u) + (IF p[i + (u + 1)] = l.one THEN 1 ELSE 0)
      BY OnesStep
    <3>3. QED
      BY <3>1, <3>2
  <2>3. a \in Nat
    BY <1>1, <2>2
  <2>4. p[q + 1] \in {l.all, l.one}
    BY <1>2, <2>1
  <2>5. From0 <=> \E k \in a..Len(s) : m[<<q, k>>]
    BY <1>4
  <2>6. Runs0(t) <=> \E k \in (j + OnesTo(l, p, i, t))..Len(s) : m[<<q + 1, k>>]
    BY <2>1
  <2>7. \A k \in a..Len(s) : k \in 0..Len(s)
    BY <1>1, <2>3
  <2> HIDE DEF q, a, From0, Runs0
  <2>8. \A k \in a..Len(s) : m[<<q, k>>] <=> MeansAt(l, p, s, m, q, k)
    BY <2>1, <2>7 DEF Meaning
  <2>9. CASE p[q + 1] = l.all
    <3>1. p[i + t] # l.one
      BY <2>1, <2>9, LanguageFacts
    <3>2. j + OnesTo(l, p, i, t) = a
      BY <1>1, <2>2, <3>1 DEF a
    <3>3. \A k \in a..Len(s) : m[<<q, k>>] <=> \E h \in k..Len(s) : m[<<q + 1, h>>]
      BY <2>1, <2>8, <2>9 DEF MeansAt
    <3>4. (\E k \in a..Len(s) : m[<<q, k>>]) <=> (\E h \in a..Len(s) : m[<<q + 1, h>>])
      <4>1. ASSUME NEW k \in a..Len(s), m[<<q, k>>] PROVE \E h \in a..Len(s) : m[<<q + 1, h>>]
        <5>1. PICK h \in k..Len(s) : m[<<q + 1, h>>]
          BY <3>3, <4>1
        <5>2. h \in a..Len(s)
          BY <2>3
        <5>3. QED
          BY <5>1, <5>2
      <4>2. ASSUME NEW h \in a..Len(s), m[<<q + 1, h>>] PROVE \E k \in a..Len(s) : m[<<q, k>>]
        <5>1. h \in h..Len(s)
          BY <2>3
        <5>2. QED
          BY <3>3, <4>2, <5>1
      <4>3. QED
        BY <4>1, <4>2
    <3>5. QED
      BY <2>1, <2>5, <2>6, <3>2, <3>4
  <2>10. CASE p[q + 1] = l.one
    <3>1. p[q + 1] # l.all /\ p[q + 1] # l.other /\ p[i + t] = l.one
      BY <2>1, <2>10, LanguageFacts
    <3>2. j + OnesTo(l, p, i, t) = a + 1
      BY <1>1, <2>2, <3>1 DEF a
    <3>3. ItemEnd(l, p, q) = q + 1
      BY <2>1, <3>1, ItemEnds
    <3>4. \A k \in a..Len(s) : m[<<q, k>>] <=> k < Len(s) /\ m[<<q + 1, k + 1>>]
      BY <2>1, <2>8, <2>10, <3>1, <3>3 DEF MeansAt, Takes
    <3>5. (\E k \in a..Len(s) : m[<<q, k>>]) <=> (\E h \in (a + 1)..Len(s) : m[<<q + 1, h>>])
      <4>1. ASSUME NEW k \in a..Len(s), m[<<q, k>>] PROVE \E h \in (a + 1)..Len(s) : m[<<q + 1, h>>]
        <5>1. k < Len(s) /\ m[<<q + 1, k + 1>>]
          BY <3>4, <4>1
        <5>2. k + 1 \in (a + 1)..Len(s)
          BY <1>1, <2>3, <5>1
        <5>3. QED
          BY <5>1, <5>2
      <4>2. ASSUME NEW h \in (a + 1)..Len(s), m[<<q + 1, h>>] PROVE \E k \in a..Len(s) : m[<<q, k>>]
        <5>1. h - 1 \in a..Len(s) /\ h - 1 < Len(s) /\ (h - 1) + 1 = h
          BY <1>1, <2>3
        <5>2. m[<<q, h - 1>>]
          BY <3>4, <4>2, <5>1
        <5>3. QED
          BY <5>1, <5>2
      <4>3. QED
        BY <4>1, <4>2
    <3>6. QED
      BY <2>1, <2>5, <2>6, <3>2, <3>5
  <2>11. QED
    BY <2>4, <2>9, <2>10
<1>5. 0..w \subseteq S
  <2>1. w \in Nat
    BY <1>1, <1>2
  <2> HIDE DEF S
  <2>2. QED
    BY <1>3, <1>4, <2>1, UpTo
<1>6. ASSUME NEW t \in 0..w PROVE From0 <=> Runs0(t)
  <2> HIDE DEF From0, Runs0
  <2>1. QED
    BY <1>5
<1>7. QED
  BY <1>6 DEF w, Sometime

\* An escape behind a wildcard, of which too much is compared.
Escapes(l, p) == l = Like("\\") /\ \E k \in 1..(Len(p) - 1) : p[k] \in {"%", "_"} /\ p[k + 1] = "\\"

\* From the end of the pattern on, what is compared is what is meant.
LEMMA ComparedIsMeant ==
  ASSUME NEW l \in Languages, NEW p \in Seq(Symbol), NEW s \in Seq(Symbol), Plain(l, p), ~Escapes(l, p),
         NEW f, \A i \in 0..Len(p), j \in 0..Len(s) : f[<<i, j>>] <=> CompareAt(l, p, s, f, i, j),
         NEW m, Meaning(m, l, p, s),
         NEW i \in 0..Len(p), AgreeBehind(f, m, p, s, i), NEW j \in 0..Len(s)
  PROVE  f[<<i, j>>] <=> m[<<i, j>>]
<1>1. /\ Len(p) \in Nat /\ Len(s) \in Nat /\ i \in Nat /\ j \in Nat /\ i <= Len(p) /\ j <= Len(s)
      /\ \A k \in 1..Len(p) : p[k] \in Symbol
  OBVIOUS
<1>2. f[<<i, j>>] <=> CompareAt(l, p, s, f, i, j)
  OBVIOUS
<1>3. m[<<i, j>>] <=> MeansAt(l, p, s, m, i, j)
  BY DEF Meaning
<1>4. CASE i = Len(p)
  BY <1>2, <1>3, <1>4 DEF CompareAt, MeansAt
<1>5. CASE i # Len(p) /\ p[i + 1] = l.all
  <2> DEFINE o == i + 1
             w == Wildcards(l, p, o)
             next == o + w
             n == j + Ones(l, p, o)
  <2>1. o \in 0..Len(p) /\ o \in Nat /\ o \in (i + 1)..Len(p)
    BY <1>1, <1>5
  <2>2. /\ w \in 0..(Len(p) - o) /\ \A k \in 1..w : p[o + k] \in {l.all, l.one}
        /\ o + w = Len(p) \/ p[o + w + 1] \notin {l.all, l.one}
    BY <2>1, WildcardsAre
  <2>3. Ones(l, p, o) = OnesTo(l, p, o, w)
    BY DEF Ones, OnesTo
  <2>4. n \in Nat /\ n >= j /\ next \in (i + 1)..Len(p) /\ next \in 0..Len(p)
    <3>1. Ones(l, p, o) \in Nat
      BY <2>2, <2>3, OnesStep
    <3>2. QED
      BY <1>1, <2>1, <2>2, <3>1
  <2>5. m[<<i, j>>] <=> \E k \in n..Len(s) : m[<<next, k>>]
    <3>1. m[<<i, j>>] <=> \E k \in j..Len(s) : m[<<o, k>>]
      BY <1>3, <1>5 DEF MeansAt
    <3>2. w \in 0..w
      BY <2>2
    <3>3. Sometime(m, s, o, j) <=> Sometime(m, s, o + w, j + OnesTo(l, p, o, w))
      <4>1. \A t \in 0..Wildcards(l, p, o) : Sometime(m, s, o, j) <=> Sometime(m, s, o + t, j + OnesTo(l, p, o, t))
        <5> HIDE DEF o
        <5>1. QED
          BY <2>1, RunMeans
      <4>2. QED
        BY <3>2, <4>1
    <3>4. QED
      BY <2>3, <3>1, <3>3 DEF Sometime
  <2>6. f[<<i, j>>] <=> AfterAll(l, p, s, f, o, j)
    BY <1>2, <1>5 DEF CompareAt
  <2> HIDE DEF o, w, next, n
  <2>7. \A k \in n..Len(s) : k \in 0..Len(s)
    BY <1>1, <2>4
  <2>8. CASE next = Len(p)
    <3>1. \A k \in n..Len(s) : m[<<next, k>>] <=> k = Len(s)
      <4>1. ASSUME NEW k \in n..Len(s) PROVE m[<<next, k>>] <=> MeansAt(l, p, s, m, next, k)
        BY <2>4, <2>7 DEF Meaning
      <4>2. QED
        BY <2>8, <4>1 DEF MeansAt
    <3>2. (\E k \in n..Len(s) : k = Len(s)) <=> n <= Len(s)
      BY <1>1, <2>4
    <3>3. m[<<i, j>>] <=> n <= Len(s)
      BY <2>5, <3>1, <3>2
    <3>4. AfterAll(l, p, s, f, o, j) <=> n <= Len(s)
      BY <2>8 DEF AfterAll, next, n, w
    <3>5. QED
      BY <2>6, <3>3, <3>4
  <2>9. CASE next # Len(p)
    <3>1. next < Len(p) /\ next + 1 \in 1..Len(p) /\ p[next + 1] \notin {l.all, l.one}
      BY <1>1, <2>2, <2>4, <2>9 DEF next
    <3>2. p[next + 1] # l.other
      <4>1. SUFFICES ASSUME p[next + 1] = l.other PROVE FALSE
        OBVIOUS
      <4>2. ~l.class /\ l.other # None
        <5>1. p[next + 1] \in Symbol
          BY <1>1, <3>1
        <5>2. l.class \in BOOLEAN
          BY LanguageFacts
        <5>3. QED
          BY <3>1, <4>1, <5>1, <5>2 DEF Plain, Symbol
      <4>3. l = Like("\\")
        BY <4>2, LanguageFacts
      <4>4. l.all = "%" /\ l.one = "_" /\ l.other = "\\"
        BY <4>3 DEF Like
      <4>5. p[next] \in {l.all, l.one}
        <5>1. CASE w = 0
          <6>1. next = i + 1
            BY <2>1, <5>1 DEF next, o
          <6>2. QED
            BY <1>5, <6>1
        <5>2. CASE w # 0
          <6>1. w \in 1..w
            BY <2>1, <2>2, <5>2
          <6>2. QED
            BY <2>2, <6>1 DEF next
        <5>3. QED
          BY <5>1, <5>2
      <4>6. next \in 1..(Len(p) - 1)
        BY <1>1, <2>4, <3>1
      <4>7. QED
        BY <4>1, <4>3, <4>4, <4>5, <4>6 DEF Escapes
    <3>3. AfterAll(l, p, s, f, o, j) <=>
            /\ n <= Len(s)
            /\ \E k \in n..(Len(s) - 1) : RuneEqual(l, s[k + 1], p[next + 1]) /\ f[<<next, k>>]
      <4> DEFINE from == IF next < Len(p) /\ p[next + 1] = l.other /\ ~l.class THEN next + 1 ELSE next
      <4>1. from = next
        BY <3>2
      <4>2. AfterAll(l, p, s, f, o, j) <=>
              /\ n <= Len(s)
              /\ \/ next = Len(p)
                 \/ /\ from < Len(p)
                    /\ \E k \in n..(Len(s) - 1) :
                         /\ \/ l.class /\ p[from + 1] = l.other
                            \/ RuneEqual(l, s[k + 1], p[from + 1])
                         /\ f[<<from, k>>]
        BY Zenon DEF AfterAll, next, n, w
      <4> HIDE DEF from
      <4>3. QED
        BY <2>9, <3>1, <3>2, <4>1, <4>2
    <3>4. \A k \in n..Len(s) : m[<<next, k>>] => k < Len(s) /\ RuneEqual(l, s[k + 1], p[next + 1])
      <4>1. ASSUME NEW k \in n..Len(s), m[<<next, k>>]
            PROVE  k < Len(s) /\ RuneEqual(l, s[k + 1], p[next + 1])
        <5>1. MeansAt(l, p, s, m, next, k)
          BY <2>4, <2>7, <4>1 DEF Meaning
        <5>2. k < Len(s) /\ Takes(l, p, next, s[k + 1])
          BY <2>9, <3>1, <5>1 DEF MeansAt
        <5>3. RuneEqual(l, p[next + 1], s[k + 1])
          BY <3>1, <3>2, <5>2 DEF Takes
        <5>4. QED
          BY <5>2, <5>3 DEF RuneEqual
      <4>2. QED
        BY <4>1
    <3>5. \A k \in n..Len(s) : f[<<next, k>>] <=> m[<<next, k>>]
      BY <2>4, <2>7 DEF AgreeBehind
    <3>6. \A k \in n..Len(s) : k < Len(s) => k \in n..(Len(s) - 1)
      BY <1>1, <2>4
    <3>7. \A k \in n..(Len(s) - 1) : k \in n..Len(s) /\ n <= Len(s)
      BY <1>1, <2>4
    <3>8. (\E k \in n..Len(s) : m[<<next, k>>]) <=>
            /\ n <= Len(s)
            /\ \E k \in n..(Len(s) - 1) : RuneEqual(l, s[k + 1], p[next + 1]) /\ f[<<next, k>>]
      BY <3>4, <3>5, <3>6, <3>7
    <3>9. QED
      BY <2>5, <2>6, <3>3, <3>8
  <2>10. QED
    BY <2>8, <2>9
<1>6. CASE i # Len(p) /\ p[i + 1] # l.all
  <2>1. /\ i + 1 \in (i + 1)..Len(p) /\ i + 1 \in 1..Len(p)
        /\ (i + 1 < Len(p) => i + 2 \in (i + 1)..Len(p))
        /\ (j # Len(s) => j + 1 \in 0..Len(s)) /\ (j < Len(s) <=> j # Len(s))
        /\ (i + 1 < Len(p) <=> i + 1 # Len(p))
    BY <1>1, <1>6
  <2>2. ~(p[i + 1] = l.other /\ l.class)
    BY <2>1 DEF Plain
  <2>3. j # Len(s) => (f[<<i + 1, j + 1>>] <=> m[<<i + 1, j + 1>>])
    BY <2>1 DEF AgreeBehind
  <2>4. j # Len(s) /\ i + 1 < Len(p) => (f[<<i + 2, j + 1>>] <=> m[<<i + 2, j + 1>>])
    BY <2>1 DEF AgreeBehind
  <2>5. ItemEnd(l, p, i) = IF p[i + 1] # l.other THEN i + 1 ELSE IF i + 1 = Len(p) THEN i + 1 ELSE i + 2
    BY <1>6, ItemEnds
  <2>6. l.one # l.other
    BY LanguageFacts
  <2>7. CASE p[i + 1] = l.other
    BY <1>2, <1>3, <1>6, <2>1, <2>2, <2>4, <2>5, <2>6, <2>7 DEF CompareAt, MeansAt, Takes
  <2>8. CASE p[i + 1] # l.other
    BY <1>2, <1>3, <1>6, <2>1, <2>3, <2>5, <2>8 DEF CompareAt, MeansAt, Takes
  <2>9. QED
    BY <2>7, <2>8
<1>7. QED
  BY <1>4, <1>5, <1>6

\* So a pattern finds what it means, and nothing else.
LEMMA FindsMeant ==
  ASSUME NEW l \in Languages, NEW p \in Seq(Symbol), NEW s \in Seq(Symbol), Plain(l, p), ~Escapes(l, p)
  PROVE  PatternCompare(l, p, s) <=> Means(l, p, s)
<1>1. PICK f : /\ PatternCompare(l, p, s) <=> f[<<0, 0>>]
               /\ \A i \in 0..Len(p), j \in 0..Len(s) : f[<<i, j>>] <=> CompareAt(l, p, s, f, i, j)
  BY Compared
<1>2. PICK m : /\ Means(l, p, s) <=> m[<<0, 0>>]
               /\ \A i \in 0..Len(p), j \in 0..Len(s) : m[<<i, j>>] <=> MeansAt(l, p, s, m, i, j)
  BY Meant
<1> DEFINE N == Len(p)
           S == {t \in 0..N : \A i \in (N - t)..N, j \in 0..Len(s) : f[<<i, j>>] <=> m[<<i, j>>]}
<1>3. N \in Nat /\ Len(s) \in Nat /\ Meaning(m, l, p, s)
  BY <1>2 DEF Meaning
<1>4. ASSUME NEW i \in 0..N, AgreeBehind(f, m, p, s, i) PROVE \A j \in 0..Len(s) : f[<<i, j>>] <=> m[<<i, j>>]
  BY <1>1, <1>3, <1>4, ComparedIsMeant
<1>5. 0 \in S
  <2>1. N \in 0..N /\ (N + 1)..N = {} /\ (N - 0)..N = {N} /\ 0 \in 0..N
    BY <1>3
  <2>2. AgreeBehind(f, m, p, s, N)
    BY <2>1 DEF AgreeBehind
  <2>3. QED
    BY <1>4, <2>1, <2>2
<1>6. ASSUME NEW t \in 1..N, t - 1 \in S PROVE t \in S
  <2>1. /\ N - t \in 0..N /\ t \in 0..N /\ N - (t - 1) = (N - t) + 1
        /\ \A q \in (N - t)..N : q = N - t \/ q \in ((N - t) + 1)..N
    BY <1>3
  <2>2. \A q \in ((N - t) + 1)..N, j \in 0..Len(s) : f[<<q, j>>] <=> m[<<q, j>>]
    BY <1>6, <2>1
  <2>3. AgreeBehind(f, m, p, s, N - t)
    BY <2>2 DEF AgreeBehind
  <2>4. \A j \in 0..Len(s) : f[<<N - t, j>>] <=> m[<<N - t, j>>]
    BY <1>4, <2>1, <2>3
  <2>5. QED
    BY <2>1, <2>2, <2>4
<1>7. N \in S
  <2> HIDE DEF S
  <2>1. 0..N \subseteq S
    BY <1>3, <1>5, <1>6, UpTo
  <2>2. QED
    BY <1>3, <2>1
<1>8. f[<<0, 0>>] <=> m[<<0, 0>>]
  <2>1. 0 \in (N - N)..N /\ 0 \in 0..Len(s)
    BY <1>3
  <2>2. QED
    BY <1>7, <2>1
<1>9. QED
  BY <1>1, <1>2, <1>8

(* LIKE, and GLOB without classes, find what the pattern means, for every    *)
(* pattern and every string, whatever the case folding; an escaped character *)
(* right behind a wildcard is left out (likeMatch, globMatch).              *)
THEOREM PatternsFound == Spec => []PatternsMatch
<1>1. TextType => PatternsMatch
  <2>1. SUFFICES ASSUME text \in Seq(Symbol) PROVE PatternsMatch
    BY DEF TextType
  <2>2. ASSUME NEW escape \in {None} \union {"\\"}, escape = None \/ ~EscapeAfterAll, NEW s \in Subject
        PROVE  PatternCompare(Like(escape), text, s) <=> Means(Like(escape), text, s)
    <3>1. Like(escape) \in Languages /\ s \in Seq(Symbol)
      BY TextAssumption DEF Languages
    <3>2. Like(escape).class = FALSE /\ Like(escape).other = escape
      BY DEF Like
    <3>3. Plain(Like(escape), text)
      BY <3>2 DEF Plain
    <3>4. ~Escapes(Like(escape), text)
      <4>1. CASE escape = None
        <5>1. Like(escape) # Like("\\")
          <6>1. Like("\\").other = "\\" /\ None # "\\"
            BY DEF Like, None
          <6>2. QED
            BY <3>2, <4>1, <6>1
        <5>2. QED
          BY <5>1 DEF Escapes
      <4>2. CASE ~EscapeAfterAll
        BY <4>2 DEF Escapes, EscapeAfterAll
      <4>3. QED
        BY <2>2, <4>1, <4>2
    <3>5. QED
      BY <2>1, <3>1, <3>3, <3>4, FindsMeant
  <2>3. ASSUME "[" \notin Range(text), NEW s \in Subject
        PROVE  PatternCompare(Glob, text, s) <=> Means(Glob, text, s)
    <3>1. Glob \in Languages /\ s \in Seq(Symbol)
      BY TextAssumption DEF Languages
    <3>2. \A k \in 1..Len(text) : text[k] # "["
      BY <2>1, <2>3 DEF Range
    <3>3. Plain(Glob, text)
      BY <3>2 DEF Plain, Glob
    <3>4. ~Escapes(Glob, text)
      <4>1. Glob.class = TRUE /\ Like("\\").class = FALSE
        BY DEF Glob, Like
      <4>2. QED
        BY <4>1 DEF Escapes
    <3>5. QED
      BY <2>1, <3>1, <3>3, <3>4, FindsMeant
  <2>4. QED
    BY <2>2, <2>3 DEF PatternsMatch
<1>2. QED
  BY <1>1, TextsTyped, PTL

-----------------------------------------------------------------------------
\* What is behind m, up to n.
Part(s, m, n) == SubSeq(s, m + 1, n)

LEMMA PartFacts ==
  ASSUME NEW E, NEW s \in Seq(E), NEW m \in 0..Len(s), NEW n \in m..Len(s)
  PROVE  /\ Part(s, m, n) \in Seq(E) /\ Len(Part(s, m, n)) = n - m
         /\ \A k \in 1..(n - m) : Part(s, m, n)[k] = s[m + k]
         /\ Rest(s, m) = Part(s, m, Len(s))
<1>1. Len(s) \in Nat /\ m \in Nat /\ n \in Nat /\ m <= n /\ n <= Len(s)
  OBVIOUS
<1>2. \A k \in (m + 1)..n : s[k] \in E
  BY <1>1
<1>3. /\ SubSeq(s, m + 1, n) \in Seq(E)
      /\ Len(SubSeq(s, m + 1, n)) = IF m + 1 <= n THEN n - (m + 1) + 1 ELSE 0
      /\ \A k \in 1..(n - (m + 1) + 1) : SubSeq(s, m + 1, n)[k] = s[(m + 1) + k - 1]
  BY <1>1, <1>2, SubSeqProperties
<1>4. n - (m + 1) + 1 = n - m /\ \A k \in 1..(n - m) : (m + 1) + k - 1 = m + k
  BY <1>1
<1>5. Len(SubSeq(s, m + 1, n)) = n - m
  BY <1>1, <1>3
<1>6. QED
  BY <1>3, <1>4, <1>5 DEF Part, Rest

\* What PartFacts says, as one formula.
IsPart(E, s, m, n) == /\ Part(s, m, n) \in Seq(E) /\ Len(Part(s, m, n)) = n - m
                      /\ \A k \in 1..(n - m) : Part(s, m, n)[k] = s[m + k]
                      /\ Rest(s, m) = Part(s, m, Len(s))
LEMMA PartGiven ==
  ASSUME NEW E, NEW s \in Seq(E), NEW m \in 0..Len(s), NEW n \in m..Len(s)
  PROVE  IsPart(E, s, m, n)
  BY PartFacts DEF IsPart

\* A sequence with these characters is that piece.
LEMMA PartIs ==
  ASSUME NEW E, NEW s \in Seq(E), NEW m \in 0..Len(s), NEW n \in m..Len(s),
         NEW F, NEW t \in Seq(F), Len(t) = n - m, \A k \in 1..(n - m) : t[k] = s[m + k]
  PROVE  t = Part(s, m, n)
<1>1. Part(s, m, n) \in Seq(E) /\ Len(Part(s, m, n)) = Len(t)
      /\ \A k \in 1..Len(t) : Part(s, m, n)[k] = t[k]
  BY PartFacts
<1>2. t \in Seq(E \union F) /\ Part(s, m, n) \in Seq(E \union F)
  <2>1. \A k \in 1..Len(t) : t[k] \in E \union F
    OBVIOUS
  <2>2. QED
    BY <1>1, <2>1, SeqMonotonic
<1>3. QED
  BY <1>1, <1>2, SeqEqual

\* Pieces of pieces.
LEMMA PartOfPart ==
  ASSUME NEW E, NEW s \in Seq(E), NEW m \in 0..Len(s), NEW n \in m..Len(s),
         NEW i \in 0..(n - m), NEW j \in i..(n - m)
  PROVE  Part(Part(s, m, n), i, j) = Part(s, m + i, m + j)
<1> DEFINE r == Part(s, m, n)
           t == Part(r, i, j)
<1>1. /\ Len(s) \in Nat /\ m \in Nat /\ n \in Nat /\ m <= n /\ n <= Len(s)
      /\ i \in Nat /\ j \in Nat /\ i <= j /\ j <= n - m
  OBVIOUS
<1>2. r \in Seq(E) /\ Len(r) = n - m /\ \A k \in 1..(n - m) : r[k] = s[m + k]
  BY PartFacts
<1>3. i \in 0..Len(r) /\ j \in i..Len(r)
  BY <1>1, <1>2
<1> HIDE DEF r
<1>4. t \in Seq(E) /\ Len(t) = j - i /\ \A k \in 1..(j - i) : t[k] = r[i + k]
  <2>1. IsPart(E, r, i, j)
    BY Zenon, <1>2, <1>3, PartGiven
  <2>2. QED
    BY Zenon, <2>1 DEF IsPart
<1>5. m + i \in 0..Len(s) /\ m + j \in (m + i)..Len(s) /\ (m + j) - (m + i) = j - i
  BY <1>1
<1>6. \A k \in 1..(j - i) : t[k] = s[(m + i) + k]
  <2>1. ASSUME NEW k \in 1..(j - i) PROVE t[k] = s[(m + i) + k]
    <3>1. i + k \in 1..(n - m) /\ m + (i + k) = (m + i) + k
      BY <1>1
    <3>2. r[i + k] = s[m + (i + k)]
      BY <1>2, <3>1
    <3>3. QED
      BY <1>4, <3>1, <3>2
  <2>2. QED
    BY <2>1
<1> HIDE DEF t
<1>7. t = Part(s, m + i, m + j)
  BY <1>4, <1>5, <1>6, PartIs
<1>8. QED
  BY <1>7 DEF t, r

\* What EndOf finds.
Ends(s, i, chars, n) == /\ n \in i..Len(s) /\ \A k \in (i + 1)..n : s[k] \in chars
                        /\ n = Len(s) \/ s[n + 1] \notin chars

LEMMA EndOfIs ==
  ASSUME NEW E, NEW s \in Seq(E), NEW i \in 0..Len(s), NEW chars
  PROVE  Ends(s, i, chars, EndOf(s, i, chars)) /\ \A n : Ends(s, i, chars, n) => EndOf(s, i, chars) = n
<1> DEFINE P(n) == (\A k \in (i + 1)..n : s[k] \in chars) /\ (n = Len(s) \/ s[n + 1] \notin chars)
<1>1. Len(s) \in Nat /\ i \in Nat /\ i <= Len(s)
  OBVIOUS
<1>2. \E n \in i..Len(s) : P(n)
  <2>1. CASE \A k \in (i + 1)..Len(s) : s[k] \in chars
    <3>1. Len(s) \in i..Len(s) /\ P(Len(s))
      BY <1>1, <2>1
    <3>2. QED
      BY <3>1
  <2>2. CASE \E k \in (i + 1)..Len(s) : s[k] \notin chars
    <3> DEFINE R == {k \in (i + 1)..Len(s) : s[k] \notin chars}
    <3>1. R \in SUBSET Nat /\ R # {}
      BY <1>1, <2>2
    <3>2. PICK m \in R : \A k \in R : m <= k
      <4> HIDE DEF R
      <4>1. QED
        BY <3>1, LeastElement
    <3>3. m \in Nat /\ m - 1 \in i..Len(s) /\ s[m] \notin chars /\ (m - 1) + 1 = m
      BY <1>1, <3>2
    <3>4. ASSUME NEW k \in (i + 1)..(m - 1) PROVE s[k] \in chars
      <4>1. k \in (i + 1)..Len(s) /\ ~(m <= k)
        BY <1>1, <3>3
      <4>2. QED
        BY <3>2, <4>1
    <3>5. P(m - 1)
      BY <3>3, <3>4
    <3>6. QED
      BY <3>3, <3>5
  <2>3. QED
    BY <2>1, <2>2
<1>3. EndOf(s, i, chars) = CHOOSE n \in i..Len(s) : P(n)
  BY DEF EndOf
<1>4. EndOf(s, i, chars) \in i..Len(s) /\ P(EndOf(s, i, chars))
  <2> HIDE DEF P
  <2>1. QED
    BY <1>2, <1>3
<1>5. ASSUME NEW n, Ends(s, i, chars, n) PROVE EndOf(s, i, chars) = n
  <2> DEFINE e == EndOf(s, i, chars)
  <2>1. n \in i..Len(s) /\ P(n)
    BY <1>5 DEF Ends
  <2> HIDE DEF e
  <2>2. e \in i..Len(s) /\ P(e)
    BY <1>4 DEF e
  <2>3. CASE e < n
    <3>1. e + 1 \in (i + 1)..n /\ e # Len(s)
      BY <1>1, <2>1, <2>2, <2>3
    <3>2. QED
      BY <2>1, <2>2, <3>1
  <2>4. CASE n < e
    <3>1. n + 1 \in (i + 1)..e /\ n # Len(s)
      BY <1>1, <2>1, <2>2, <2>4
    <3>2. QED
      BY <2>1, <2>2, <3>1
  <2>5. e = n
    BY <1>1, <2>1, <2>2, <2>3, <2>4
  <2>6. QED
    BY <2>5 DEF e
<1>6. QED
  BY <1>4, <1>5 DEF Ends

\* A text that is cut before a semicolon, and is long enough.
Cut(r, n) == 0 < n /\ n < Len(r) /\ r[n + 1] = Stop

LEMMA CutFacts ==
  ASSUME NEW E, NEW r \in Seq(E), NEW n \in Nat, Cut(r, n)
  PROVE  /\ n \in Nat \ {0} /\ n < Len(r) /\ Part(r, 0, n) \in Seq(E) /\ Len(Part(r, 0, n)) = n
         /\ \A k \in 1..n : Part(r, 0, n)[k] = r[k]
<1>1. Len(r) \in Nat /\ n \in Nat \ {0} /\ n < Len(r) /\ 0 \in 0..Len(r) /\ n \in 0..Len(r) /\ n - 0 = n
  <2>1. Len(r) \in Nat
    OBVIOUS
  <2>2. QED
    BY <2>1 DEF Cut
<1>2. QED
  BY <1>1, PartFacts

\* What ends before the cut, or would not go over a semicolon, ends where it did.
LEMMA EndOfCut ==
  ASSUME NEW E, NEW r \in Seq(E), NEW n \in Nat, Cut(r, n), NEW i \in 0..n, NEW chars,
         EndOf(r, i, chars) < n \/ Stop \notin chars
  PROVE  EndOf(Part(r, 0, n), i, chars) = EndOf(r, i, chars) /\ EndOf(r, i, chars) \in i..n
<1> DEFINE u == Part(r, 0, n)
           e == EndOf(r, i, chars)
<1>1. /\ n \in Nat \ {0} /\ n < Len(r) /\ u \in Seq(E) /\ Len(u) = n /\ \A k \in 1..n : u[k] = r[k]
      /\ r[n + 1] = Stop /\ i \in Nat /\ i <= n /\ Len(r) \in Nat
  <2>1. /\ n \in Nat \ {0} /\ n < Len(r) /\ u \in Seq(E) /\ Len(u) = n /\ \A k \in 1..n : u[k] = r[k]
    BY CutFacts
  <2>2. r[n + 1] = Stop /\ i \in Nat /\ i <= n /\ Len(r) \in Nat
    BY DEF Cut
  <2>3. QED
    BY <2>1, <2>2
<1>2. Ends(r, i, chars, e)
  <2>1. i \in 0..Len(r)
    BY <1>1
  <2>2. QED
    BY <2>1, EndOfIs
<1> HIDE DEF u, e
<1>3. e \in i..n
  <2>1. CASE e < n
    BY <1>1, <1>2, <2>1 DEF Ends
  <2>2. CASE Stop \notin chars
    <3>1. ~(n + 1 \in (i + 1)..e)
      BY <1>1, <1>2, <2>2 DEF Ends
    <3>2. QED
      BY <1>1, <1>2, <3>1 DEF Ends
  <2>3. QED
    BY <2>1, <2>2 DEF e
<1>4. Ends(u, i, chars, e)
  <2>1. \A k \in (i + 1)..e : k \in 1..n /\ r[k] \in chars
    BY <1>1, <1>2, <1>3 DEF Ends
  <2>2. e = n \/ (e + 1 \in 1..n /\ e # Len(r))
    BY <1>1, <1>3
  <2>3. QED
    BY <1>1, <1>2, <1>3, <2>1, <2>2 DEF Ends
<1>5. EndOf(u, i, chars) = e
  BY <1>1, <1>4, EndOfIs
<1>6. QED
  BY <1>3, <1>5 DEF u, e

\* Induction from the end.
LEMMA DownTo ==
  ASSUME NEW a \in Nat, NEW b \in Nat, NEW S, \A i \in a..b : (\A j \in (i + 1)..b : j \in S) => i \in S
  PROVE  a..b \subseteq S
<1>1. SUFFICES ASSUME NEW x \in a..b, x \notin S PROVE FALSE
  OBVIOUS
<1> DEFINE R == {b - k : k \in {i \in a..b : i \notin S}}
<1>2. R \in SUBSET Nat /\ R # {}
  <2>1. b - x \in R
    BY <1>1
  <2>2. QED
    BY <2>1
<1>3. PICK r \in R : \A q \in R : r <= q
  <2> HIDE DEF R
  <2>1. QED
    BY <1>2, LeastElement
<1>4. PICK i \in a..b : i \notin S /\ r = b - i
  BY <1>3
<1>5. \A j \in (i + 1)..b : j \in S
  <2>1. ASSUME NEW j \in (i + 1)..b, j \notin S PROVE FALSE
    <3>1. b - j \in R
      BY <2>1
    <3>2. ~(r <= b - j)
      BY <1>4
    <3>3. QED
      BY <1>3, <3>1, <3>2
  <2>2. QED
    BY <2>1
<1>6. QED
  BY <1>4, <1>5

\* What is said of a string from n on, by what is said further on.
EndAt(s, end, n) == IF n = Len(s) + 1 THEN 0
                    ELSE IF s[n] # Quote THEN end[n + 1]
                    ELSE IF n < Len(s) /\ s[n + 1] = Quote THEN end[n + 2] ELSE n
StringEnds(s, end) == \A n \in 1..(Len(s) + 1) : end[n] = EndAt(s, end, n)

LEMMA EndsExist ==
  ASSUME NEW E, NEW s \in Seq(E)
  PROVE  \E end : end = [n \in 1..(Len(s) + 1) |-> EndAt(s, end, n)]
<1> DEFINE N == Len(s)
           Dom == 1..(N + 1)
           Is(end, n) == end[n] = EndAt(s, end, n)
           Good(i) == \E end \in [Dom -> Nat] : \A n \in i..(N + 1) : Is(end, n)
           S == {i \in Dom : Good(i)}
<1>1. N \in Nat /\ Len(s) = N
  OBVIOUS
<1>2. \A i \in Dom : i # N + 1 => i + 1 \in Dom /\ (i < N => i + 2 \in Dom)
  BY <1>1
<1>3. ASSUME NEW g \in [Dom -> Nat], NEW n \in Dom PROVE EndAt(s, g, n) \in Nat
  <2>1. n \in Nat
    BY <1>1
  <2>2. CASE n = N + 1
    BY <1>1, <2>2 DEF EndAt
  <2>3. CASE n # N + 1
    BY <1>1, <1>2, <2>1, <2>3 DEF EndAt
  <2>4. QED
    BY <2>2, <2>3
<1>4. ASSUME NEW g \in [Dom -> Nat], NEW i \in Dom, \A n \in (i + 1)..(N + 1) : Is(g, n) PROVE Good(i)
  <2> DEFINE f == [n \in Dom |-> IF n = i THEN EndAt(s, g, i) ELSE g[n]]
  <2>1. f \in [Dom -> Nat]
    BY <1>3
  <2>2. \A n \in (i + 1)..(N + 1) : n \in Dom /\ f[n] = g[n]
    BY <1>1
  <2>3. f[i] = EndAt(s, g, i)
    OBVIOUS
  <2> HIDE DEF f
  <2>4. \A n \in i..(N + 1) : EndAt(s, f, n) = EndAt(s, g, n)
    <3>1. ASSUME NEW n \in i..(N + 1) PROVE EndAt(s, f, n) = EndAt(s, g, n)
      <4>1. CASE n = N + 1
        BY <1>1, <4>1 DEF EndAt
      <4>2. CASE n # N + 1
        <5>1. n + 1 \in (i + 1)..(N + 1) /\ (n < N => n + 2 \in (i + 1)..(N + 1))
          BY <1>1, <4>2
        <5>2. f[n + 1] = g[n + 1] /\ (n < N => f[n + 2] = g[n + 2])
          BY <2>2, <5>1
        <5> HIDE DEF Dom
        <5>3. QED
          BY <1>1, <4>2, <5>2 DEF EndAt
      <4>3. QED
        BY <4>1, <4>2
    <3>2. QED
      BY <3>1
  <2>5. ASSUME NEW n \in i..(N + 1) PROVE Is(f, n)
    <3>1. n = i \/ n \in (i + 1)..(N + 1)
      BY <1>1
    <3>2. EndAt(s, f, n) = EndAt(s, g, n)
      BY <2>4
    <3>3. QED
      BY <1>4, <2>2, <2>3, <3>1, <3>2
  <2>6. QED
    BY <2>1, <2>5
<1>5. ASSUME NEW i \in Dom, \A j \in (i + 1)..(N + 1) : j \in S PROVE i \in S
  <2>1. CASE i = N + 1
    <3>1. [n \in Dom |-> 0] \in [Dom -> Nat] /\ (i + 1)..(N + 1) = {}
      BY <1>1, <2>1
    <3>2. Good(i)
      BY <1>4, <3>1
    <3>3. QED
      BY <3>2
  <2>2. CASE i # N + 1
    <3>1. i + 1 \in (i + 1)..(N + 1)
      BY <1>1, <2>2
    <3>2. PICK g \in [Dom -> Nat] : \A n \in (i + 1)..(N + 1) : Is(g, n)
      BY <1>5, <3>1
    <3>3. Good(i)
      BY <1>4, <3>2
    <3>4. QED
      BY <3>3
  <2>3. QED
    BY <2>1, <2>2
<1>6. Dom \subseteq S
  <2> HIDE DEF S
  <2>1. N + 1 \in Nat
    BY <1>1
  <2>2. QED
    BY <1>5, <2>1, DownTo
<1>7. PICK end \in [Dom -> Nat] : \A n \in 1..(N + 1) : Is(end, n)
  <2>1. 1 \in Dom
    BY <1>1
  <2>2. QED
    BY <1>6, <2>1
<1>8. end = [n \in Dom |-> EndAt(s, end, n)]
  BY <1>7
<1>9. QED
  BY <1>8

LEMMA StringEndIs ==
  ASSUME NEW E, NEW s \in Seq(E)
  PROVE  \E end : StringEnd(s) = end[2] /\ StringEnds(s, end)
<1> DEFINE Is(end) == end = [n \in 1..(Len(s) + 1) |-> EndAt(s, end, n)]
           end == CHOOSE end : Is(end)
<1>1. Is(end)
  BY EndsExist
<1>2. StringEnd(s) = end[2]
  BY Zenon DEF StringEnd, EndAt
<1> HIDE DEF end
<1>3. StringEnds(s, end)
  BY <1>1 DEF StringEnds
<1>4. QED
  BY <1>2, <1>3

\* A string ends at a quote.
LEMMA EndsAtQuote ==
  ASSUME NEW E, NEW s \in Seq(E), NEW end, StringEnds(s, end), NEW n \in 1..(Len(s) + 1), end[n] # 0
  PROVE  end[n] \in n..Len(s) /\ s[end[n]] = Quote
<1> DEFINE N == Len(s)
           P(k) == end[k] = 0 \/ (end[k] \in k..N /\ s[end[k]] = Quote)
           S == {k \in 1..(N + 1) : P(k)}
<1>1. N \in Nat
  OBVIOUS
<1>2. ASSUME NEW k \in 1..(N + 1), \A j \in (k + 1)..(N + 1) : j \in S PROVE k \in S
  <2>1. end[k] = EndAt(s, end, k)
    BY DEF StringEnds
  <2>2. CASE k = N + 1
    BY <2>1, <2>2 DEF EndAt
  <2>3. CASE k # N + 1 /\ s[k] # Quote
    <3>1. end[k] = end[k + 1]
      BY <2>1, <2>3 DEF EndAt
    <3>2. k + 1 \in (k + 1)..(N + 1)
      BY <1>1, <2>3
    <3>3. P(k + 1)
      BY <1>2, <3>2
    <3>4. P(k)
      BY <1>1, <3>1, <3>3
    <3>5. QED
      BY <3>4
  <2>4. CASE k # N + 1 /\ s[k] = Quote /\ k < N /\ s[k + 1] = Quote
    <3>1. end[k] = end[k + 2]
      BY <2>1, <2>4 DEF EndAt
    <3>2. k + 2 \in (k + 1)..(N + 1)
      BY <1>1, <2>4
    <3>3. P(k + 2)
      BY <1>2, <3>2
    <3>4. P(k)
      BY <1>1, <3>1, <3>3
    <3>5. QED
      BY <3>4
  <2>5. CASE k # N + 1 /\ s[k] = Quote /\ ~(k < N /\ s[k + 1] = Quote)
    <3>1. end[k] = k
      BY <2>1, <2>5 DEF EndAt
    <3>2. P(k)
      BY <1>1, <2>5, <3>1
    <3>3. QED
      BY <3>2
  <2>6. QED
    BY <2>2, <2>3, <2>4, <2>5
<1>3. n \in S
  <2> HIDE DEF S
  <2>1. 1..(N + 1) \subseteq S
    <3>1. N + 1 \in Nat
      BY <1>1
    <3>2. QED
      BY <3>1, <1>2, DownTo
  <2>2. QED
    BY <2>1
<1>4. QED
  BY <1>3

\* A string that ends before the text is cut ends there.
LEMMA StringEndCut ==
  ASSUME NEW E, NEW r \in Seq(E), NEW n \in Nat, Cut(r, n), StringEnd(r) # 0, StringEnd(r) <= n
  PROVE  StringEnd(Part(r, 0, n)) = StringEnd(r)
<1> DEFINE u == Part(r, 0, n)
<1>1. /\ n \in Nat \ {0} /\ n < Len(r) /\ u \in Seq(E) /\ Len(u) = n /\ \A k \in 1..n : u[k] = r[k]
      /\ Len(r) \in Nat
  BY CutFacts
<1>2. r[n + 1] # Quote
  BY Zenon DEF Cut, Stop, Quote
<1> HIDE DEF u
<1>3. PICK e : StringEnd(r) = e[2] /\ StringEnds(r, e)
  BY StringEndIs
<1>4. PICK f : StringEnd(u) = f[2] /\ StringEnds(u, f)
  BY <1>1, StringEndIs
<1> DEFINE P(k) == e[k] # 0 /\ e[k] <= n => f[k] = e[k]
           S == {k \in 1..(n + 1) : P(k)}
<1>5. ASSUME NEW k \in 1..(n + 1), \A j \in (k + 1)..(n + 1) : j \in S PROVE k \in S
  <2>1. k \in 1..(Len(r) + 1) /\ k \in 1..(Len(u) + 1) /\ k # Len(r) + 1
    BY <1>1
  <2>2. e[k] = EndAt(r, e, k) /\ f[k] = EndAt(u, f, k)
    BY <1>3, <1>4, <2>1 DEF StringEnds
  <2>3. CASE k = n + 1
    <3>1. e[k] # 0 => e[k] \in k..Len(r)
      BY <1>3, <2>1, EndsAtQuote
    <3>2. QED
      BY <1>1, <2>3, <3>1
  <2>4. CASE k # n + 1 /\ r[k] # Quote
    <3>1. u[k] = r[k] /\ k + 1 \in (k + 1)..(n + 1) /\ k # Len(u) + 1
      BY <1>1, <2>4
    <3>2. e[k] = e[k + 1] /\ f[k] = f[k + 1]
      BY <2>1, <2>2, <2>4, <3>1 DEF EndAt
    <3>3. P(k + 1)
      BY <1>5, <3>1
    <3>4. P(k)
      BY <3>2, <3>3
    <3>5. QED
      BY <3>4
  <2>5. CASE k # n + 1 /\ r[k] = Quote /\ r[k + 1] = Quote
    <3>1. k < n
      <4>1. k # n
        BY <1>2, <2>5
      <4>2. QED
        BY <1>1, <2>5, <4>1
    <3>2. u[k] = r[k] /\ u[k + 1] = r[k + 1] /\ k + 2 \in (k + 1)..(n + 1) /\ k # Len(u) + 1 /\ k < Len(r) /\ k < Len(u)
      BY <1>1, <3>1
    <3>3. e[k] = e[k + 2] /\ f[k] = f[k + 2]
      BY <2>1, <2>2, <2>5, <3>2 DEF EndAt
    <3>4. P(k + 2)
      BY <1>5, <3>2
    <3>5. P(k)
      BY <3>3, <3>4
    <3>6. QED
      BY <3>5
  <2>6. CASE k # n + 1 /\ r[k] = Quote /\ r[k + 1] # Quote
    <3>1. u[k] = r[k] /\ k # Len(u) + 1 /\ (k < Len(u) => u[k + 1] = r[k + 1])
      BY <1>1, <2>6
    <3>2. e[k] = k /\ f[k] = k
      BY <2>1, <2>2, <2>6, <3>1 DEF EndAt
    <3>3. P(k)
      BY <3>2
    <3>4. QED
      BY <3>3
  <2>7. QED
    BY <2>3, <2>4, <2>5, <2>6
<1>6. 2 \in S
  <2> HIDE DEF S
  <2>1. 1..(n + 1) \subseteq S
    <3>1. n + 1 \in Nat
      BY <1>1
    <3>2. QED
      BY <3>1, <1>5, DownTo
  <2>2. 2 \in 1..(n + 1)
    BY <1>1
  <2>3. QED
    BY <2>1, <2>2
<1>7. QED
  BY <1>3, <1>4, <1>6 DEF u

-----------------------------------------------------------------------------
\* Characters that neither open nor close a string, nor end a statement.
Quiet(s, i, j) == \A k \in i..j : s[k] \notin {Quote, Stop}

LEMMA CharFacts ==
  /\ Quote # Stop
  /\ \A c \in Letter \union Figure \union HexDigit \union OpChar : c \notin {Quote, Stop}
  /\ \A c \in {".", "e", "+", "-", "x", " ", "<", ">", "!", "="} : c \notin {Quote, Stop}
  /\ Stop \in Punct /\ \A c \in Punct : c # Stop => c \notin {Quote, Stop}
<1>1. Quote # Stop
  BY Zenon DEF Quote, Stop
<1>2. \A c \in Letter \union Figure \union HexDigit \union OpChar : c \notin {Quote, Stop}
  BY Zenon, CharAssumption
<1>3. \A c \in {".", "e", "+", "-", "x", " ", "<", ">", "!", "="} : c \notin {Quote, Stop}
  BY Zenon DEF Quote, Stop
<1>4. Stop \in Punct
  BY Zenon DEF Punct
<1>5. \A c \in Punct : c # Stop => c \notin {Quote, Stop}
  BY Zenon DEF Punct, Quote, Stop
<1>6. QED
  BY <1>1, <1>2, <1>3, <1>4, <1>5

\* The parts of First.
Item(r, kind, n) == [kind |-> kind, text |-> SubSeq(r, 1, n), size |-> n]
Second(r, set) == Len(r) > 1 /\ r[2] \in set
NotQuote == STRING \ {Quote}
Blob(r) == EndOf(r, 2, NotQuote)
Bytes(r) == SubSeq(r, 3, Blob(r))
BlobFails(r) == Blob(r) = Len(r) \/ Len(Bytes(r)) % 2 = 1 \/ ~(Range(Bytes(r)) \subseteq HexDigit)
BlobItem(r) == [kind |-> "blob", text |-> Bytes(r), size |-> Blob(r) + 1]
StringItem(r) == [kind |-> "string", text |-> Unquoted(SubSeq(r, 2, StringEnd(r) - 1)), size |-> StringEnd(r)]
OpensBlob(r) == r[1] = "x" /\ Second(r, {Quote})
OpensNumber(r) == r[1] \in Figure \/ (r[1] = "." /\ Second(r, Figure))
Double(r) == \/ r[1] \in {"<", ">", "!", "="} /\ Second(r, {"="})
             \/ r[1] = "<" /\ Second(r, {">"})
IdentEnd(r) == EndOf(r, 1, Letter \union Figure)

LEMMA FirstIs ==
  ASSUME NEW r
  PROVE  First(r) =
           IF OpensBlob(r) THEN IF BlobFails(r) THEN Item(r, "error", 0) ELSE BlobItem(r)
           ELSE IF r[1] = " " THEN Item(r, "blank", 1)
           ELSE IF r[1] = Quote THEN IF StringEnd(r) = 0 THEN Item(r, "error", 0) ELSE StringItem(r)
           ELSE IF OpensNumber(r) THEN Item(r, "number", NumberEnd(r))
           ELSE IF r[1] \in Letter THEN Item(r, "ident", IdentEnd(r))
           ELSE IF r[1] \in Punct THEN Item(r, "punct", 1)
           ELSE IF r[1] \in OpChar THEN Item(r, "op", IF Double(r) THEN 2 ELSE 1)
           ELSE Item(r, "error", 0)
  BY Zenon DEF First, OpensBlob, BlobFails, Item, BlobItem, StringItem, OpensNumber, IdentEnd, Double, Second,
               Blob, Bytes, NotQuote

\* Which of them a text starts with.
Starts(r) ==
  \/ OpensBlob(r) /\ ~BlobFails(r) /\ First(r) = BlobItem(r)
  \/ ~OpensBlob(r) /\ r[1] = " " /\ First(r) = Item(r, "blank", 1)
  \/ ~OpensBlob(r) /\ r[1] # " " /\ r[1] = Quote /\ StringEnd(r) # 0 /\ First(r) = StringItem(r)
  \/ /\ ~OpensBlob(r) /\ r[1] # " " /\ r[1] # Quote /\ OpensNumber(r)
     /\ First(r) = Item(r, "number", NumberEnd(r))
  \/ /\ ~OpensBlob(r) /\ r[1] # " " /\ r[1] # Quote /\ ~OpensNumber(r) /\ r[1] \in Letter
     /\ First(r) = Item(r, "ident", IdentEnd(r))
  \/ /\ ~OpensBlob(r) /\ r[1] # " " /\ r[1] # Quote /\ ~OpensNumber(r) /\ r[1] \notin Letter /\ r[1] \in Punct
     /\ First(r) = Item(r, "punct", 1)
  \/ /\ ~OpensBlob(r) /\ r[1] # " " /\ r[1] # Quote /\ ~OpensNumber(r) /\ r[1] \notin Letter /\ r[1] \notin Punct
     /\ r[1] \in OpChar /\ First(r) = Item(r, "op", IF Double(r) THEN 2 ELSE 1)

LEMMA FirstStarts ==
  ASSUME NEW r, First(r).kind # "error"
  PROVE  Starts(r)
<1>1. Item(r, "error", 0).kind = "error"
  BY DEF Item
<1>2. First(r) # Item(r, "error", 0)
  BY <1>1
<1>3. QED
  BY Zenon, <1>2, FirstIs DEF Starts

LEMMA ItemIs ==
  ASSUME NEW r, NEW kind, NEW n
  PROVE  Item(r, kind, n).size = n /\ Item(r, kind, n).kind = kind
  BY DEF Item

LEMMA ItemSize ==
  ASSUME NEW r
  PROVE  /\ BlobItem(r).size = Blob(r) + 1 /\ BlobItem(r).kind = "blob"
         /\ StringItem(r).size = StringEnd(r) /\ StringItem(r).kind = "string"
  BY DEF BlobItem, StringItem

\* Where a number ends.
LEMMA NumberEnds ==
  ASSUME NEW E, NEW r \in Seq(E), Len(r) > 0
  PROVE  /\ NumberEnd(r) \in 0..Len(r) /\ Quiet(r, 1, NumberEnd(r))
         /\ r[1] \in Figure \union {"."} => NumberEnd(r) # 0
<1> DEFINE chars == Figure \union {"."}
           n == EndOf(r, 0, chars)
           signed == n + 1 < Len(r) /\ r[n + 2] \in {"+", "-"}
           x == IF signed THEN n + 2 ELSE n + 1
           e == EndOf(r, x, Figure)
           powered == n < Len(r) /\ r[n + 1] = "e" /\ e > x
<1>1. Len(r) \in Nat /\ 0 \in 0..Len(r)
  OBVIOUS
<1>2. NumberEnd(r) = IF powered THEN e ELSE n
  BY Zenon DEF NumberEnd
<1>3. Ends(r, 0, chars, n)
  BY <1>1, EndOfIs
<1> HIDE DEF n
<1>4. n \in 0..Len(r) /\ (\A k \in 1..n : r[k] \in chars) /\ (n = Len(r) \/ r[n + 1] \notin chars)
  BY <1>3 DEF Ends
<1>5. n < Len(r) => x \in 0..Len(r) /\ x > n
  <2> HIDE DEF chars
  <2>1. CASE signed
    BY <1>1, <1>4, <2>1
  <2>2. CASE ~signed
    BY <1>1, <1>4, <2>2
  <2>3. QED
    BY <2>1, <2>2
<1>6. n < Len(r) => Ends(r, x, Figure, e)
  <2> HIDE DEF x
  <2>1. QED
    BY <1>5, EndOfIs
<1>7. \A c \in chars \union {"e", "+", "-"} : c \notin {Quote, Stop}
  BY CharFacts
<1>8. Quiet(r, 1, n)
  <2> HIDE DEF chars
  <2>1. QED
    BY <1>4, <1>7 DEF Quiet
<1>9. r[1] \in chars => n # 0
  <2> HIDE DEF chars
  <2>1. QED
    BY <1>4
<1>10. CASE powered
  <2>1. n < Len(r) /\ r[n + 1] = "e" /\ e > x /\ n \in Nat
    BY <1>4, <1>10
  <2>2. e \in x..Len(r) /\ \A k \in (x + 1)..e : r[k] \in Figure
    BY <1>6, <2>1 DEF Ends
  <2>3. r[n + 1] \in chars \union {"e", "+", "-"}
    BY <2>1
  <2>4. x = n + 2 => r[n + 2] \in chars \union {"e", "+", "-"}
    BY <2>1
  <2>5. x = n + 2 \/ x = n + 1
    OBVIOUS
  <2> HIDE DEF x, chars, e
  <2>6. \A k \in 1..e : k \in 1..n \/ k = n + 1 \/ (x = n + 2 /\ k = n + 2) \/ k \in (x + 1)..e
    BY <1>1, <2>1, <2>2, <2>5
  <2>7. Figure \subseteq chars
    BY DEF chars
  <2>8. Quiet(r, 1, e)
    BY <1>7, <1>8, <2>2, <2>3, <2>4, <2>6, <2>7 DEF Quiet
  <2>9. NumberEnd(r) = e
    BY <1>2, <1>10 DEF e
  <2>10. e \in 0..Len(r) /\ e # 0
    BY <1>1, <1>5, <2>1, <2>2
  <2>11. QED
    BY <2>8, <2>9, <2>10
<1>11. CASE ~powered
  <2>1. NumberEnd(r) = n
    BY <1>2, <1>11
  <2>2. QED
    BY <1>4, <1>8, <1>9, <2>1
<1>12. QED
  BY <1>10, <1>11

-----------------------------------------------------------------------------
\* A character that is not in NotQuote is the quote.
LEMMA QuoteOnly == \A c \in Symbol : c \notin NotQuote <=> c = Quote
<1>1. \A c \in Symbol : c \in STRING
  BY Zenon DEF Symbol
<1>2. QED
  BY Zenon, <1>1 DEF NotQuote

\* Where a blob ends, and what it is.
LEMMA BlobParts ==
  ASSUME NEW r \in Seq(Symbol), OpensBlob(r), ~BlobFails(r)
  PROVE  /\ Blob(r) \in 2..(Len(r) - 1) /\ r[1] \notin {Quote, Stop} /\ r[2] = Quote /\ Quiet(r, 3, Blob(r))
         /\ r[Blob(r) + 1] = Quote
<1> DEFINE b == Blob(r)
<1>1. Len(r) \in Nat /\ Len(r) > 1 /\ r[1] = "x" /\ r[2] = Quote /\ 2 \in 0..Len(r)
  BY DEF OpensBlob, Second
<1>2. Ends(r, 2, NotQuote, b)
  BY <1>1, EndOfIs DEF Blob
<1>3. b # Len(r) /\ Range(Bytes(r)) \subseteq HexDigit
  BY DEF BlobFails
<1> HIDE DEF b
<1>4. b \in 2..(Len(r) - 1) /\ r[b + 1] \notin NotQuote
  BY <1>1, <1>2, <1>3 DEF Ends
<1>5. r[b + 1] = Quote
  <2>1. r[b + 1] \in Symbol
    BY <1>1, <1>4
  <2>2. QED
    BY <1>4, <2>1, QuoteOnly
<1>6. ASSUME NEW k \in 3..b PROVE r[k] \in HexDigit
  <2>1. b \in 2..Len(r) /\ 2 \in 0..Len(r) /\ b - 2 \in Nat /\ k - 2 \in 1..(b - 2) /\ 2 + (k - 2) = k
    BY <1>1, <1>4
  <2>2. /\ Part(r, 2, b) \in Seq(Symbol) /\ Len(Part(r, 2, b)) = b - 2
        /\ Part(r, 2, b)[k - 2] = r[2 + (k - 2)]
    BY <2>1, PartFacts
  <2>3. Part(r, 2, b) = Bytes(r)
    BY DEF Part, Bytes, b
  <2>4. Bytes(r)[k - 2] = r[k] /\ k - 2 \in DOMAIN Bytes(r)
    BY <2>1, <2>2, <2>3
  <2>5. QED
    BY <1>3, <2>4 DEF Range
<1>7. Quiet(r, 3, b)
  BY <1>6, CharFacts DEF Quiet
<1>8. r[1] \notin {Quote, Stop}
  BY <1>1, CharFacts
<1>9. QED
  BY <1>1, <1>4, <1>5, <1>7, <1>8 DEF b

\* What a text starts with: a semicolon, characters that are neither that nor quotes, a string or a blob.
Spells(r, k) ==
  \/ r[1] = Stop /\ k = 1 /\ First(r) = Item(r, "punct", 1)
  \/ Quiet(r, 1, k)
  \/ r[1] = Quote /\ k = StringEnd(r) /\ k # 0
  \/ k > 2 /\ r[1] \notin {Quote, Stop} /\ r[2] = Quote /\ Quiet(r, 3, k - 1) /\ r[k] = Quote

LEMMA FirstParts ==
  ASSUME NEW r \in Seq(Symbol), Len(r) > 0, First(r).kind # "error"
  PROVE  First(r).size \in 1..Len(r) /\ Spells(r, First(r).size)
<1> DEFINE k == First(r).size
<1>1. Len(r) \in Nat /\ Len(r) \in Nat \ {0} /\ 1 \in 0..Len(r) /\ r[1] \in Symbol
  OBVIOUS
<1>2. Starts(r)
  BY FirstStarts
<1>3. Quote # Stop
  BY CharFacts
<1>4. \A c : c \notin {Quote, Stop} /\ r[1] = c => Quiet(r, 1, 1)
  <2>1. 1..1 = {1}
    OBVIOUS
  <2>2. QED
    BY <2>1 DEF Quiet
<1>5. CASE OpensBlob(r) /\ ~BlobFails(r) /\ First(r) = BlobItem(r)
  <2>1. k = Blob(r) + 1
    BY <1>5, ItemSize
  <2>2. /\ Blob(r) \in 2..(Len(r) - 1) /\ r[1] \notin {Quote, Stop} /\ r[2] = Quote /\ Quiet(r, 3, Blob(r))
        /\ r[Blob(r) + 1] = Quote
    BY <1>5, BlobParts
  <2> HIDE DEF k
  <2>3. k \in 1..Len(r) /\ k > 2 /\ k - 1 = Blob(r)
    BY <1>1, <2>1, <2>2
  <2>4. Spells(r, k)
    BY <2>1, <2>2, <2>3 DEF Spells
  <2>5. QED
    BY <2>3, <2>4 DEF k
<1>6. CASE r[1] = " " /\ First(r) = Item(r, "blank", 1)
  <2>1. k = 1
    <3>1. First(r) = Item(r, "blank", 1)
      BY <1>6
    <3>2. QED
      BY <3>1, ItemIs
  <2>2. Quiet(r, 1, 1)
    BY <1>4, <1>6, CharFacts
  <2>3. QED
    BY <1>1, <2>1, <2>2 DEF Spells
<1>7. CASE r[1] = Quote /\ StringEnd(r) # 0 /\ First(r) = StringItem(r)
  <2>1. k = StringEnd(r)
    BY <1>7, ItemSize
  <2> HIDE DEF k
  <2>2. PICK e : StringEnd(r) = e[2] /\ StringEnds(r, e)
    BY StringEndIs
  <2>3. 2 \in 1..(Len(r) + 1)
    BY <1>1
  <2>4. e[2] \in 2..Len(r)
    BY <1>7, <2>2, <2>3, EndsAtQuote
  <2>5. k \in 1..Len(r) /\ k # 0
    BY <1>1, <2>1, <2>2, <2>4
  <2>6. Spells(r, k)
    BY <1>7, <2>1, <2>5 DEF Spells
  <2>7. QED
    BY <2>5, <2>6 DEF k
<1>8. CASE OpensNumber(r) /\ First(r) = Item(r, "number", NumberEnd(r))
  <2>1. k = NumberEnd(r)
    <3>1. First(r) = Item(r, "number", NumberEnd(r))
      BY <1>8
    <3>2. QED
      BY <3>1, ItemIs
  <2>2. r[1] \in Figure \union {"."}
    BY <1>8 DEF OpensNumber
  <2>3. NumberEnd(r) \in 0..Len(r) /\ Quiet(r, 1, NumberEnd(r)) /\ NumberEnd(r) # 0
    BY <2>2, NumberEnds
  <2> HIDE DEF k
  <2>4. k \in 1..Len(r)
    BY <1>1, <2>1, <2>3
  <2>5. Spells(r, k)
    BY <2>1, <2>3 DEF Spells
  <2>6. QED
    BY <2>4, <2>5 DEF k
<1>9. CASE r[1] \in Letter /\ First(r) = Item(r, "ident", IdentEnd(r))
  <2>1. k = IdentEnd(r)
    <3>1. First(r) = Item(r, "ident", IdentEnd(r))
      BY <1>9
    <3>2. QED
      BY <3>1, ItemIs
  <2> HIDE DEF k
  <2>2. Ends(r, 1, Letter \union Figure, k)
    BY <1>1, <2>1, EndOfIs DEF IdentEnd
  <2>3. k \in 1..Len(r) /\ \A i \in 2..k : r[i] \in Letter \union Figure
    BY <2>2 DEF Ends
  <2>4. Quiet(r, 1, k)
    <3>1. \A i \in 1..k : i = 1 \/ i \in 2..k
      BY <2>3
    <3>2. \A i \in 1..k : r[i] \in Letter \union Figure
      BY <1>9, <2>3, <3>1
    <3>3. QED
      BY <3>2, CharFacts DEF Quiet
  <2>5. QED
    BY <2>3, <2>4 DEF k, Spells
<1>10. CASE r[1] \in Punct /\ First(r) = Item(r, "punct", 1)
  <2>1. k = 1
    <3>1. First(r) = Item(r, "punct", 1)
      BY <1>10
    <3>2. QED
      BY <3>1, ItemIs
  <2>2. r[1] # Stop => Quiet(r, 1, 1)
    BY <1>4, <1>10, CharFacts
  <2>3. Spells(r, 1)
    BY <1>10, <2>2 DEF Spells
  <2>4. QED
    BY <1>1, <2>1, <2>3
<1>11. CASE r[1] \in OpChar /\ First(r) = Item(r, "op", IF Double(r) THEN 2 ELSE 1)
  <2>1. k = IF Double(r) THEN 2 ELSE 1
    <3>1. First(r) = Item(r, "op", IF Double(r) THEN 2 ELSE 1)
      BY <1>11
    <3>2. QED
      BY <3>1, ItemIs
  <2>2. Quiet(r, 1, 1)
    BY <1>4, <1>11, CharFacts
  <2>3. Double(r) => Len(r) > 1 /\ Quiet(r, 1, 2)
    <3>1. SUFFICES ASSUME Double(r) PROVE Len(r) > 1 /\ Quiet(r, 1, 2)
      OBVIOUS
    <3>2. Len(r) > 1 /\ r[2] \in {"=", ">"}
      BY <3>1 DEF Double, Second
    <3>3. r[2] \notin {Quote, Stop}
      BY <3>2, CharFacts
    <3>4. 1..2 = {1, 2} /\ 1 \in 1..1
      OBVIOUS
    <3>5. r[1] \notin {Quote, Stop}
      BY <2>2, <3>4 DEF Quiet
    <3>6. QED
      BY <3>2, <3>3, <3>4, <3>5 DEF Quiet
  <2> HIDE DEF k
  <2>4. k \in 1..Len(r) /\ Quiet(r, 1, k)
    BY <1>1, <2>1, <2>2, <2>3
  <2>5. QED
    BY <2>4 DEF k, Spells
<1>12. QED
  BY Zenon, <1>2, <1>5, <1>6, <1>7, <1>8, <1>9, <1>10, <1>11 DEF Starts

\* In a text that is cut behind it, a number ends where it did.
LEMMA NumberEndCut ==
  ASSUME NEW E, NEW r \in Seq(E), NEW n \in Nat, Cut(r, n)
  PROVE  NumberEnd(Part(r, 0, n)) = NumberEnd(r)
<1> DEFINE u == Part(r, 0, n)
           chars == Figure \union {"."}
           d == EndOf(r, 0, chars)
           signed == d + 1 < Len(r) /\ r[d + 2] \in {"+", "-"}
           signedU == d + 1 < Len(u) /\ u[d + 2] \in {"+", "-"}
           x == IF signed THEN d + 2 ELSE d + 1
           xU == IF signedU THEN d + 2 ELSE d + 1
           e == EndOf(r, x, Figure)
           eU == EndOf(u, xU, Figure)
           powered == d < Len(r) /\ r[d + 1] = "e" /\ e > x
           poweredU == d < Len(u) /\ u[d + 1] = "e" /\ eU > xU
<1>1. /\ n \in Nat \ {0} /\ n < Len(r) /\ u \in Seq(E) /\ Len(u) = n /\ \A k \in 1..n : u[k] = r[k]
      /\ Len(r) \in Nat
  BY CutFacts
<1>2. r[n + 1] = Stop
  BY DEF Cut
<1>3. Stop \notin chars /\ Stop \notin Figure /\ Stop \notin {"e", "+", "-"}
  BY CharFacts
<1>4. EndOf(u, 0, chars) = d /\ d \in 0..n
  <2>1. 0 \in 0..n
    BY <1>1
  <2> HIDE DEF chars
  <2>2. QED
    BY <1>3, <2>1, EndOfCut
<1>5. NumberEnd(r) = IF powered THEN e ELSE d
  BY Zenon DEF NumberEnd
<1>6. NumberEnd(u) = IF poweredU THEN eU ELSE d
  <2>1. NumberEnd(u) = LET n2 == EndOf(u, 0, Figure \union {"."})
                           x2 == IF n2 + 1 < Len(u) /\ u[n2 + 2] \in {"+", "-"} THEN n2 + 2 ELSE n2 + 1
                       IN  IF n2 < Len(u) /\ u[n2 + 1] = "e" /\ EndOf(u, x2, Figure) > x2
                             THEN EndOf(u, x2, Figure) ELSE n2
    BY Zenon DEF NumberEnd
  <2> HIDE DEF u, d
  <2>2. QED
    BY Zenon, <1>4, <2>1
<1> HIDE DEF u, d, chars
<1>7. CASE d = n
  <2>1. ~powered /\ ~poweredU
    <3> HIDE DEF e, eU, x, xU
    <3>1. QED
      BY <1>1, <1>2, <1>3, <1>7
  <2>2. QED
    BY <1>5, <1>6, <2>1 DEF u
<1>8. CASE d # n
  <2>1. d \in Nat /\ d + 1 \in 1..n /\ u[d + 1] = r[d + 1] /\ d < Len(r) /\ d < Len(u)
    BY <1>1, <1>4, <1>8
  <2>2. signedU <=> signed
    <3>1. CASE d + 1 = n
      <4>1. r[d + 2] = Stop
        <5>1. d + 2 = n + 1
          BY <3>1, <2>1
        <5>2. QED
          BY <1>2, <5>1
      <4>2. QED
        BY <1>1, <1>3, <3>1, <4>1
    <3>2. CASE d + 1 # n
      <4>1. d + 2 \in 1..n
        BY <1>1, <2>1, <3>2
      <4>2. u[d + 2] = r[d + 2] /\ d + 1 < Len(r) /\ d + 1 < Len(u)
        BY <1>1, <2>1, <4>1
      <4>3. QED
        BY <4>2
    <3>3. QED
      BY <3>1, <3>2
  <2>3. xU = x
    BY <2>2
  <2>4. x \in 0..n
    <3>1. signedU => d + 2 \in 0..n
      BY <1>1, <2>1
    <3>2. d + 1 \in 0..n
      BY <2>1
    <3> HIDE DEF signed, signedU
    <3>3. QED
      BY <2>2, <3>1, <3>2
  <2> HIDE DEF x, xU
  <2>5. EndOf(u, x, Figure) = e
    BY <1>3, <2>4, EndOfCut DEF u
  <2>6. eU = e
    BY <2>3, <2>5
  <2> HIDE DEF e, eU
  <2>7. poweredU <=> powered
    BY <2>1, <2>3, <2>6
  <2>8. QED
    BY <1>5, <1>6, <2>6, <2>7 DEF u
<1>9. QED
  BY <1>7, <1>8

\* A text that is cut before a semicolon starts with what it started with, if that is not cut.
LEMMA FirstCut ==
  ASSUME NEW r \in Seq(Symbol), NEW n \in Nat, Cut(r, n), First(r).kind # "error", First(r).size <= n
  PROVE  First(Part(r, 0, n)) = First(r)
<1> DEFINE u == Part(r, 0, n)
<1>1. /\ n \in Nat \ {0} /\ n < Len(r) /\ u \in Seq(Symbol) /\ Len(u) = n /\ \A k \in 1..n : u[k] = r[k]
      /\ Len(r) \in Nat
  BY CutFacts
<1>2. r[n + 1] = Stop
  BY DEF Cut
<1> HIDE DEF u
<1>3. u[1] = r[1]
  BY <1>1
<1>4. ASSUME NEW set, Stop \notin set PROVE Second(u, set) <=> Second(r, set)
  <2>1. CASE n = 1
    <3>1. r[2] = Stop
      <4>1. n + 1 = 2
        BY <2>1
      <4>2. QED
        BY <1>2, <4>1
    <3>2. QED
      BY <1>1, <1>4, <2>1, <3>1 DEF Second
  <2>2. CASE n # 1
    <3>1. u[2] = r[2] /\ Len(u) > 1 /\ Len(r) > 1
      BY <1>1, <2>2
    <3>2. QED
      BY <3>1 DEF Second
  <2>3. QED
    BY <2>1, <2>2
<1>5. Stop \notin {Quote} /\ Stop \notin Figure /\ Stop \notin {"="} /\ Stop \notin {">"} /\ Stop \notin Letter
  BY CharFacts
<1>6. (OpensBlob(u) <=> OpensBlob(r)) /\ (OpensNumber(u) <=> OpensNumber(r)) /\ (Double(u) <=> Double(r))
  <2>1. /\ Second(u, {Quote}) <=> Second(r, {Quote})
        /\ Second(u, Figure) <=> Second(r, Figure)
        /\ Second(u, {"="}) <=> Second(r, {"="})
        /\ Second(u, {">"}) <=> Second(r, {">"})
    BY <1>4, <1>5
  <2>2. QED
    BY Zenon, <1>3, <2>1 DEF OpensBlob, OpensNumber, Double
<1>7. ASSUME NEW i \in 0..n, NEW j \in i..n PROVE SubSeq(u, i + 1, j) = SubSeq(r, i + 1, j)
  <2>1. 0 \in 0..Len(r) /\ n \in 0..Len(r) /\ i \in 0..(n - 0) /\ j \in i..(n - 0) /\ 0 + i = i /\ 0 + j = j
    BY <1>1
  <2>2. Part(u, i, j) = Part(r, 0 + i, 0 + j)
    BY <2>1, PartOfPart DEF u
  <2>3. Part(u, i, j) = Part(r, i, j)
    BY <2>1, <2>2
  <2>4. QED
    BY <2>3 DEF Part
<1>8. ASSUME NEW kind, NEW k \in 0..n PROVE Item(u, kind, k) = Item(r, kind, k)
  <2>1. SubSeq(u, 0 + 1, k) = SubSeq(r, 0 + 1, k)
    BY <1>1, <1>7
  <2>2. 0 + 1 = 1
    OBVIOUS
  <2>3. SubSeq(u, 1, k) = SubSeq(r, 1, k)
    BY <2>1, <2>2
  <2>4. QED
    BY <2>3 DEF Item
<1>9. Starts(r)
  BY FirstStarts
<1>10. CASE OpensBlob(r) /\ ~BlobFails(r) /\ First(r) = BlobItem(r)
  <2>1. First(r).size = Blob(r) + 1
    BY <1>10, ItemSize
  <2>2. Blob(r) \in 2..(Len(r) - 1)
    BY <1>10, BlobParts
  <2>3. Blob(r) \in Nat /\ 2 <= Blob(r) /\ Blob(r) < n /\ 2 \in 0..n /\ Blob(r) \in 2..n
    BY <1>1, <2>1, <2>2
  <2>4. Blob(u) = Blob(r)
    BY <2>3, EndOfCut DEF Blob, u
  <2>5. SubSeq(u, 2 + 1, Blob(r)) = SubSeq(r, 2 + 1, Blob(r))
    BY <1>7, <2>3
  <2>6. Bytes(u) = Bytes(r)
    <3>1. 2 + 1 = 3
      OBVIOUS
    <3>2. SubSeq(u, 3, Blob(r)) = SubSeq(r, 3, Blob(r))
      BY <2>5, <3>1
    <3>3. QED
      BY <2>4, <3>2 DEF Bytes
  <2>7. Blob(u) # Len(u)
    BY <1>1, <2>3, <2>4
  <2>8. ~BlobFails(u)
    <3>1. ~(Len(Bytes(r)) % 2 = 1) /\ Range(Bytes(r)) \subseteq HexDigit
      BY <1>10 DEF BlobFails
    <3>2. QED
      BY Zenon, <2>6, <2>7, <3>1 DEF BlobFails
  <2>9. BlobItem(u) = BlobItem(r)
    BY <2>4, <2>6 DEF BlobItem
  <2>10. First(u) = BlobItem(u)
    BY Zenon, <1>6, <1>10, <2>8, FirstIs
  <2>11. QED
    BY <1>10, <2>9, <2>10 DEF u
<1>11. CASE ~OpensBlob(r) /\ r[1] = " " /\ First(r) = Item(r, "blank", 1)
  <2>1. Item(u, "blank", 1) = Item(r, "blank", 1)
    <3>1. 1 \in 0..n
      BY <1>1
    <3>2. QED
      BY <1>8, <3>1
  <2>2. First(u) = Item(u, "blank", 1)
    BY Zenon, <1>3, <1>6, <1>11, FirstIs
  <2>3. QED
    BY Zenon, <1>11, <2>1, <2>2 DEF u
<1>12. CASE ~OpensBlob(r) /\ r[1] # " " /\ r[1] = Quote /\ StringEnd(r) # 0 /\ First(r) = StringItem(r)
  <2>1. First(r).size = StringEnd(r)
    BY Zenon, <1>12, ItemSize
  <2>2. StringEnd(r) # 0 /\ StringEnd(r) <= n
    BY <1>12, <2>1
  <2>3. StringEnd(u) = StringEnd(r)
    BY <2>2, StringEndCut DEF u
  <2>4. StringEnd(r) - 1 \in 1..n
    <3>1. PICK e : StringEnd(r) = e[2] /\ StringEnds(r, e)
      BY StringEndIs
    <3>2. 2 \in 1..(Len(r) + 1)
      BY <1>1
    <3>3. e[2] \in 2..Len(r)
      BY <2>2, <3>1, <3>2, EndsAtQuote
    <3>4. QED
      BY <1>1, <2>2, <3>1, <3>3
  <2>5. SubSeq(u, 1 + 1, StringEnd(r) - 1) = SubSeq(r, 1 + 1, StringEnd(r) - 1)
    <3>1. 1 \in 0..n
      BY <1>1
    <3>2. QED
      BY <1>7, <2>4, <3>1
  <2>6. SubSeq(u, 2, StringEnd(u) - 1) = SubSeq(r, 2, StringEnd(r) - 1)
    <3>1. 1 + 1 = 2
      OBVIOUS
    <3>2. QED
      BY <2>3, <2>5, <3>1
  <2>7. StringItem(u) = StringItem(r)
    BY <2>3, <2>6 DEF StringItem
  <2>8. First(u) = StringItem(u)
    BY Zenon, <1>3, <1>6, <1>12, <2>3, FirstIs
  <2>9. QED
    BY Zenon, <1>12, <2>7, <2>8 DEF u
<1>13. CASE /\ ~OpensBlob(r) /\ r[1] # " " /\ r[1] # Quote /\ OpensNumber(r)
            /\ First(r) = Item(r, "number", NumberEnd(r))
  <2>1. NumberEnd(u) = NumberEnd(r)
    BY NumberEndCut DEF u
  <2>2. First(r).size = NumberEnd(r)
    <3>1. First(r) = Item(r, "number", NumberEnd(r))
      BY <1>13
    <3>2. QED
      BY <3>1, ItemIs
  <2>3. NumberEnd(r) \in 0..n
    <3>1. NumberEnd(r) \in 0..Len(r)
      BY <1>1, NumberEnds
    <3>2. QED
      BY <1>1, <2>2, <3>1
  <2>4. Item(u, "number", NumberEnd(r)) = Item(r, "number", NumberEnd(r))
    BY <1>8, <2>3
  <2>5. First(u) = Item(u, "number", NumberEnd(u))
    BY Zenon, <1>3, <1>6, <1>13, FirstIs
  <2>6. QED
    BY Zenon, <1>13, <2>1, <2>4, <2>5 DEF u
<1>14. CASE /\ ~OpensBlob(r) /\ r[1] # " " /\ r[1] # Quote /\ ~OpensNumber(r) /\ r[1] \in Letter
            /\ First(r) = Item(r, "ident", IdentEnd(r))
  <2>1. 1 \in 0..n /\ Stop \notin Letter \union Figure
    BY <1>1, <1>5
  <2>2. IdentEnd(u) = IdentEnd(r) /\ IdentEnd(r) \in 1..n
    BY <2>1, EndOfCut DEF u, IdentEnd
  <2>3. Item(u, "ident", IdentEnd(r)) = Item(r, "ident", IdentEnd(r))
    <3>1. IdentEnd(r) \in 0..n
      BY <2>2
    <3>2. QED
      BY <1>8, <3>1
  <2>4. First(u) = Item(u, "ident", IdentEnd(u))
    BY Zenon, <1>3, <1>6, <1>14, FirstIs
  <2>5. QED
    BY Zenon, <1>14, <2>2, <2>3, <2>4 DEF u
<1>15. CASE /\ ~OpensBlob(r) /\ r[1] # " " /\ r[1] # Quote /\ ~OpensNumber(r) /\ r[1] \notin Letter /\ r[1] \in Punct
            /\ First(r) = Item(r, "punct", 1)
  <2>1. Item(u, "punct", 1) = Item(r, "punct", 1)
    <3>1. 1 \in 0..n
      BY <1>1
    <3>2. QED
      BY <1>8, <3>1
  <2>2. First(u) = Item(u, "punct", 1)
    BY Zenon, <1>3, <1>6, <1>15, FirstIs
  <2>3. QED
    BY Zenon, <1>15, <2>1, <2>2 DEF u
<1>16. CASE /\ ~OpensBlob(r) /\ r[1] # " " /\ r[1] # Quote /\ ~OpensNumber(r) /\ r[1] \notin Letter /\ r[1] \notin Punct
            /\ r[1] \in OpChar /\ First(r) = Item(r, "op", IF Double(r) THEN 2 ELSE 1)
  <2> DEFINE k == IF Double(r) THEN 2 ELSE 1
  <2>1. First(r).size = k
    <3>1. First(r) = Item(r, "op", k)
      BY <1>16
    <3> HIDE DEF k
    <3>2. QED
      BY <3>1, ItemIs
  <2>2. k \in 0..n
    BY <1>1, <2>1
  <2>3. First(u) = Item(u, "op", IF Double(u) THEN 2 ELSE 1)
    BY Zenon, <1>3, <1>6, <1>16, FirstIs
  <2>4. (IF Double(u) THEN 2 ELSE 1) = k
    BY <1>6
  <2>5. First(r) = Item(r, "op", k)
    BY <1>16
  <2> HIDE DEF k
  <2>6. Item(u, "op", k) = Item(r, "op", k)
    BY <1>8, <2>2
  <2>7. First(u) = Item(u, "op", k)
    BY Zenon, <2>3, <2>4
  <2>8. QED
    BY Zenon, <2>5, <2>6, <2>7 DEF u
<1>17. QED
  BY Zenon, <1>9, <1>10, <1>11, <1>12, <1>13, <1>14, <1>15, <1>16 DEF Starts

-----------------------------------------------------------------------------
\* The tokens there are, and what is said of those from i on by those further on.
TokenSet == {Token(First(r).kind, First(r).text) : r \in Seq(Symbol)} \union {Semicolon, Token("error", <<>>)}
Emitted(t) == IF t.kind = "blank" THEN <<>> ELSE <<Token(t.kind, t.text)>>
TokensAt(s, tokens, i) == IF i = Len(s) THEN <<>>
                          ELSE IF First(Rest(s, i)).kind = "error" THEN <<Token("error", <<>>)>>
                          ELSE Emitted(First(Rest(s, i))) \o tokens[i + First(Rest(s, i)).size]
TokensOn(s, tokens) == \A i \in 0..Len(s) : tokens[i] = TokensAt(s, tokens, i)

LEMMA RestFacts ==
  ASSUME NEW E, NEW s \in Seq(E)
  PROVE  /\ Rest(s, 0) = s
         /\ \A i \in 0..Len(s) : Rest(s, i) \in Seq(E) /\ Len(Rest(s, i)) = Len(s) - i
         /\ \A i \in 0..Len(s) : \A j \in 0..(Len(s) - i) : Rest(Rest(s, i), j) = Rest(s, i + j)
<1>1. Len(s) \in Nat
  OBVIOUS
<1>2. \A i \in 0..Len(s) : Rest(s, i) = Part(s, i, Len(s)) /\ Rest(s, i) \in Seq(E) /\ Len(Rest(s, i)) = Len(s) - i
  <2>1. ASSUME NEW i \in 0..Len(s)
        PROVE  Rest(s, i) = Part(s, i, Len(s)) /\ Rest(s, i) \in Seq(E) /\ Len(Rest(s, i)) = Len(s) - i
    <3>1. Len(s) \in i..Len(s)
      BY <1>1
    <3>2. IsPart(E, s, i, Len(s))
      BY Zenon, <3>1, PartGiven
    <3>3. QED
      BY Zenon, <3>2 DEF IsPart
  <2>2. QED
    BY <2>1
<1>3. Rest(s, 0) = s
  <2>1. 0 \in 0..Len(s) /\ Len(s) \in 0..Len(s) /\ Len(s) = Len(s) - 0 /\ \A k \in 1..(Len(s) - 0) : s[k] = s[0 + k]
    BY <1>1
  <2>2. s = Part(s, 0, Len(s))
    BY <2>1, PartIs
  <2>3. QED
    BY <1>2, <2>1, <2>2
<1>4. ASSUME NEW i \in 0..Len(s), NEW j \in 0..(Len(s) - i) PROVE Rest(Rest(s, i), j) = Rest(s, i + j)
  <2>1. /\ Len(s) \in i..Len(s) /\ j \in 0..(Len(s) - i) /\ Len(s) - i \in j..(Len(s) - i)
        /\ i + (Len(s) - i) = Len(s) /\ i + j \in 0..Len(s) /\ Len(s) \in (i + j)..Len(s)
    BY <1>1
  <2>2. Part(Part(s, i, Len(s)), j, Len(s) - i) = Part(s, i + j, i + (Len(s) - i))
    BY <2>1, PartOfPart
  <2>3. Rest(Rest(s, i), j) = Part(Rest(s, i), j, Len(s) - i)
    <3>1. Rest(s, i) \in Seq(E) /\ Len(Rest(s, i)) = Len(s) - i
      BY <1>2
    <3>2. j \in 0..Len(Rest(s, i)) /\ Len(Rest(s, i)) \in j..Len(Rest(s, i))
      BY Zenon, <2>1, <3>1
    <3>3. IsPart(E, Rest(s, i), j, Len(Rest(s, i)))
      BY Zenon, <3>1, <3>2, PartGiven
    <3>4. QED
      BY Zenon, <3>1, <3>3 DEF IsPart
  <2>4. Rest(s, i + j) = Part(s, i + j, Len(s))
    BY <1>2, <2>1
  <2>5. Rest(s, i) = Part(s, i, Len(s))
    BY <1>2
  <2> QED
    BY <2>1, <2>2, <2>3, <2>4, <2>5
<1>5. QED
  BY <1>2, <1>3, <1>4

\* An item is behind the text that it is read from.
LEMMA ItemFits ==
  ASSUME NEW s \in Seq(Symbol), NEW i \in 0..Len(s), i # Len(s), First(Rest(s, i)).kind # "error"
  PROVE  i + First(Rest(s, i)).size \in (i + 1)..Len(s)
<1>1. Rest(s, i) \in Seq(Symbol) /\ Len(Rest(s, i)) = Len(s) - i /\ Len(s) - i > 0 /\ Len(s) \in Nat
  BY RestFacts
<1>2. First(Rest(s, i)).size \in 1..(Len(s) - i)
  BY <1>1, FirstParts
<1>3. QED
  BY <1>1, <1>2

LEMMA EmittedIs ==
  ASSUME NEW r \in Seq(Symbol)
  PROVE  Emitted(First(r)) \in Seq(TokenSet) /\ <<Token("error", <<>>)>> \in Seq(TokenSet) /\ Semicolon \in TokenSet
<1> DEFINE t == Token(First(r).kind, First(r).text)
<1>1. t \in TokenSet /\ Token("error", <<>>) \in TokenSet /\ Semicolon \in TokenSet
  BY DEF TokenSet
<1>2. Emitted(First(r)) = IF First(r).kind = "blank" THEN <<>> ELSE <<t>>
  BY DEF Emitted
<1> HIDE DEF t
<1>3. <<t>> \in Seq(TokenSet) /\ <<>> \in Seq(TokenSet) /\ <<Token("error", <<>>)>> \in Seq(TokenSet)
  BY <1>1
<1>4. QED
  BY <1>1, <1>2, <1>3

LEMMA TokensExist ==
  ASSUME NEW s \in Seq(Symbol)
  PROVE  \E tokens \in [0..Len(s) -> Seq(TokenSet)] : TokensOn(s, tokens)
<1> DEFINE N == Len(s)
           Agrees(i, f) == \A n \in i..N : f[n] = TokensAt(s, f, n)
           S == {i \in 0..N : \E f \in [0..N -> Seq(TokenSet)] : Agrees(i, f)}
<1>1. N \in Nat
  OBVIOUS
<1>2. ASSUME NEW f \in [0..N -> Seq(TokenSet)], NEW i \in 0..N PROVE TokensAt(s, f, i) \in Seq(TokenSet)
  <2>1. Rest(s, i) \in Seq(Symbol)
    BY RestFacts
  <2>2. /\ Emitted(First(Rest(s, i))) \in Seq(TokenSet) /\ <<Token("error", <<>>)>> \in Seq(TokenSet)
    BY <2>1, EmittedIs
  <2>3. i # N /\ First(Rest(s, i)).kind # "error" => f[i + First(Rest(s, i)).size] \in Seq(TokenSet)
    <3>1. SUFFICES ASSUME i # N, First(Rest(s, i)).kind # "error" PROVE f[i + First(Rest(s, i)).size] \in Seq(TokenSet)
      OBVIOUS
    <3>2. i + First(Rest(s, i)).size \in (i + 1)..N
      BY <3>1, ItemFits
    <3>3. i + First(Rest(s, i)).size \in 0..N
      BY <1>1, <3>2
    <3>4. QED
      BY <3>3
  <2> DEFINE a == Emitted(First(Rest(s, i)))
             b == f[i + First(Rest(s, i)).size]
  <2>4. a \in Seq(TokenSet) /\ b \in Seq(TokenSet) => a \o b \in Seq(TokenSet)
    <3> HIDE DEF a, b
    <3>1. QED
      OBVIOUS
  <2>5. <<>> \in Seq(TokenSet)
    OBVIOUS
  <2>6. QED
    BY Zenon, <2>2, <2>3, <2>4, <2>5 DEF TokensAt
<1>3. ASSUME NEW i \in 0..N, NEW g \in [0..N -> Seq(TokenSet)], Agrees(i + 1, g) PROVE i \in S
  <2> DEFINE f == [n \in 0..N |-> TokensAt(s, g, n)]
  <2>1. f \in [0..N -> Seq(TokenSet)]
    BY <1>2
  <2>2. \A n \in 0..N : f[n] = TokensAt(s, g, n)
    OBVIOUS
  <2> HIDE DEF f
  <2>3. \A n \in (i + 1)..N : f[n] = g[n]
    BY <1>1, <1>3, <2>2
  <2>4. ASSUME NEW n \in i..N PROVE f[n] = TokensAt(s, f, n)
    <3>1. n \in 0..N
      BY <1>1
    <3>2. n # N /\ First(Rest(s, n)).kind # "error" => f[n + First(Rest(s, n)).size] = g[n + First(Rest(s, n)).size]
      <4>1. SUFFICES ASSUME n # N, First(Rest(s, n)).kind # "error"
                     PROVE  f[n + First(Rest(s, n)).size] = g[n + First(Rest(s, n)).size]
        OBVIOUS
      <4>2. n + First(Rest(s, n)).size \in (n + 1)..N
        BY <3>1, <4>1, ItemFits
      <4>3. n + First(Rest(s, n)).size \in (i + 1)..N
        BY <1>1, <4>2
      <4>4. QED
        BY <2>3, <4>3
    <3>3. TokensAt(s, f, n) = TokensAt(s, g, n)
      BY Zenon, <3>2 DEF TokensAt
    <3>4. QED
      BY <2>2, <3>1, <3>3
  <2>5. QED
    BY <2>1, <2>4
<1>4. ASSUME NEW i \in 0..N, \A j \in (i + 1)..N : j \in S PROVE i \in S
  <2>1. CASE i = N
    <3> DEFINE g == [n \in 0..N |-> <<>>]
    <3>1. g \in [0..N -> Seq(TokenSet)]
      OBVIOUS
    <3>2. (i + 1)..N = {}
      BY <1>1, <2>1
    <3> HIDE DEF g, S
    <3>3. QED
      BY <1>3, <3>1, <3>2
  <2>2. CASE i # N
    <3>1. i + 1 \in (i + 1)..N
      BY <1>1, <2>2
    <3>2. i + 1 \in S
      BY <1>4, <3>1
    <3>3. PICK g \in [0..N -> Seq(TokenSet)] : Agrees(i + 1, g)
      BY <3>2
    <3> HIDE DEF S
    <3>4. QED
      BY <1>3, <3>3
  <2>3. QED
    BY <2>1, <2>2
<1>5. 0 \in S
  <2> HIDE DEF S
  <2>1. 0..N \subseteq S
    BY <1>1, <1>4, DownTo
  <2>2. QED
    BY <1>1, <2>1
<1>6. QED
  BY <1>5 DEF TokensOn

\* The tokens from j on are the tokens of the text behind j.
LEMMA TokensAgree ==
  ASSUME NEW s \in Seq(Symbol), NEW j \in 0..Len(s), NEW f, NEW g, TokensOn(s, f), TokensOn(Rest(s, j), g)
  PROVE  g[0] = f[j]
<1> DEFINE N == Len(s)
           r == Rest(s, j)
           S == {i \in j..N : g[i - j] = f[i]}
<1>1. N \in Nat /\ r \in Seq(Symbol) /\ Len(r) = N - j
  BY RestFacts
<1>2. ASSUME NEW i \in j..N, \A k \in (i + 1)..N : k \in S PROVE i \in S
  <2>1. i \in 0..N /\ i - j \in 0..Len(r) /\ j + (i - j) = i /\ i - j \in 0..(N - j) /\ (i = N <=> i - j = Len(r))
    BY <1>1
  <2>2. Rest(r, i - j) = Rest(s, i)
    <3>1. Rest(r, i - j) = Rest(s, j + (i - j))
      BY <2>1, RestFacts
    <3>2. QED
      BY <2>1, <3>1
  <2>3. f[i] = TokensAt(s, f, i) /\ g[i - j] = TokensAt(r, g, i - j)
    BY <2>1 DEF TokensOn
  <2>4. i # N /\ First(Rest(s, i)).kind # "error"
          => g[(i - j) + First(Rest(s, i)).size] = f[i + First(Rest(s, i)).size]
    <3>1. SUFFICES ASSUME i # N, First(Rest(s, i)).kind # "error"
                   PROVE  g[(i - j) + First(Rest(s, i)).size] = f[i + First(Rest(s, i)).size]
      OBVIOUS
    <3> DEFINE z == First(Rest(s, i)).size
    <3>2. i + z \in (i + 1)..N
      BY <2>1, <3>1, ItemFits
    <3>3. z \in Int
      <4>1. Rest(s, i) \in Seq(Symbol) /\ Len(Rest(s, i)) > 0
        BY <1>1, <2>1, <3>1, RestFacts
      <4>2. z \in 1..Len(Rest(s, i))
        BY <3>1, <4>1, FirstParts
      <4>3. QED
        BY <4>2
    <3> HIDE DEF z
    <3>4. i + z \in S
      BY <1>2, <3>2
    <3>5. (i - j) + z = (i + z) - j
      BY <1>1, <3>3
    <3>6. QED
      BY <3>4, <3>5 DEF z
  <2>5. TokensAt(s, f, i) = TokensAt(r, g, i - j)
    <3> HIDE DEF r
    <3>1. QED
      BY Zenon, <2>1, <2>2, <2>4 DEF TokensAt
  <2>6. QED
    BY <2>3, <2>5
<1>3. j..N \subseteq S
  <2> HIDE DEF S
  <2>1. N \in Nat /\ j \in Nat
    BY <1>1
  <2> HIDE DEF N
  <2>2. QED
    BY <1>2, <2>1, DownTo
<1>4. QED
  <2>1. j \in S
    BY <1>1, <1>3
  <2>2. j - j = 0
    BY <1>1
  <2>3. QED
    BY <2>1, <2>2

LEMMA TokenizeIs ==
  ASSUME NEW s \in Seq(Symbol), NEW j \in 0..Len(s), NEW f, TokensOn(s, f)
  PROVE  Tokenize(Rest(s, j)) = f[j]
<1> DEFINE r == Rest(s, j)
           Is(g) == g = [i \in 0..Len(r) |-> TokensAt(r, g, i)]
           g == CHOOSE g : Is(g)
<1>1. r \in Seq(Symbol)
  BY RestFacts
<1> HIDE DEF r
<1>2. PICK h \in [0..Len(r) -> Seq(TokenSet)] : TokensOn(r, h)
  BY <1>1, TokensExist
<1>3. Is(h)
  BY <1>2 DEF TokensOn
<1>4. Is(g)
  BY Zenon, <1>3
<1>5. Tokenize(r) = g[0]
  BY Zenon DEF Tokenize, TokensAt, Emitted
<1> HIDE DEF g
<1>6. TokensOn(r, g)
  BY <1>4 DEF TokensOn
<1>7. g[0] = f[j]
  BY <1>6, TokensAgree DEF r
<1>8. QED
  BY <1>5, <1>7 DEF r

\* The tokens of a text are the item it starts with, and the tokens of the rest.
LEMMA TokenizeStep ==
  ASSUME NEW s \in Seq(Symbol), NEW i \in 0..Len(s)
  PROVE  /\ Tokenize(Rest(s, i)) \in Seq(TokenSet)
         /\ i = Len(s) => Tokenize(Rest(s, i)) = <<>>
         /\ i # Len(s) /\ First(Rest(s, i)).kind = "error" => Tokenize(Rest(s, i)) = <<Token("error", <<>>)>>
         /\ i # Len(s) /\ First(Rest(s, i)).kind # "error" =>
              Tokenize(Rest(s, i)) = Emitted(First(Rest(s, i))) \o Tokenize(Rest(s, i + First(Rest(s, i)).size))
<1>1. PICK f \in [0..Len(s) -> Seq(TokenSet)] : TokensOn(s, f)
  BY TokensExist
<1>2. \A j \in 0..Len(s) : Tokenize(Rest(s, j)) = f[j]
  BY <1>1, TokenizeIs
<1>3. f[i] = TokensAt(s, f, i) /\ f[i] \in Seq(TokenSet)
  BY <1>1 DEF TokensOn
<1>4. i # Len(s) /\ First(Rest(s, i)).kind # "error"
        => f[i + First(Rest(s, i)).size] = Tokenize(Rest(s, i + First(Rest(s, i)).size))
  <2>1. SUFFICES ASSUME i # Len(s), First(Rest(s, i)).kind # "error"
                 PROVE  i + First(Rest(s, i)).size \in 0..Len(s)
    BY <1>2
  <2>2. i + First(Rest(s, i)).size \in (i + 1)..Len(s)
    BY <2>1, ItemFits
  <2>3. QED
    BY <2>2
<1>5. Tokenize(Rest(s, i)) = f[i]
  BY <1>2
<1>6. QED
  BY Zenon, <1>3, <1>4, <1>5 DEF TokensAt

-----------------------------------------------------------------------------
\* The statements from a state of the loop on, while a string is open and while none is.
Open(G, i, m) == G[<<i, m, TRUE>>]
Shut(G, i, m) == G[<<i, m, FALSE>>]
AtOpen(s, G, i, m) == SplitAt(s, G, i, m, TRUE)
AtShut(s, G, i, m) == SplitAt(s, G, i, m, FALSE)
SplitsFrom(s, G, a) == \A i \in a..Len(s) : \A m \in 0..Len(s) : /\ Open(G, i, m) = AtOpen(s, G, i, m)
                                                               /\ Shut(G, i, m) = AtShut(s, G, i, m)
SplitsOn(s, G) == SplitsFrom(s, G, 0)

SplitMoves(s, G, i, m) ==
  /\ i = Len(s) /\ m = i => AtOpen(s, G, i, m) = <<>> /\ AtShut(s, G, i, m) = <<>>
  /\ i = Len(s) /\ m # i => AtOpen(s, G, i, m) = <<Rest(s, m)>> /\ AtShut(s, G, i, m) = <<Rest(s, m)>>
  /\ i # Len(s) /\ s[i + 1] # Quote => AtOpen(s, G, i, m) = Open(G, i + 1, m)
  /\ i # Len(s) /\ s[i + 1] = Quote /\ i + 1 < Len(s) /\ s[i + 2] = Quote
       => AtOpen(s, G, i, m) = Open(G, i + 2, m)
  /\ i # Len(s) /\ s[i + 1] = Quote /\ ~(i + 1 < Len(s) /\ s[i + 2] = Quote)
       => AtOpen(s, G, i, m) = Shut(G, i + 1, m)
  /\ i # Len(s) /\ s[i + 1] = Stop
       => AtShut(s, G, i, m) = <<Part(s, m, i)>> \o Shut(G, i + 1, i + 1)
  /\ i # Len(s) /\ s[i + 1] = Quote => AtShut(s, G, i, m) = Open(G, i + 1, m)
  /\ i # Len(s) /\ s[i + 1] \notin {Quote, Stop} => AtShut(s, G, i, m) = Shut(G, i + 1, m)

LEMMA SplitCases == ASSUME NEW s, NEW G, NEW i, NEW m PROVE SplitMoves(s, G, i, m)
<1> DEFINE open  == Open(G, i + 1, m)
           shut  == Shut(G, i + 1, m)
           still == G[<<i + 1, m, s[i + 1] # Quote>>]
           now   == G[<<i + 1, m, s[i + 1] = Quote>>]
           twice == Open(G, i + 2, m)
           cut   == <<Part(s, m, i)>> \o Shut(G, i + 1, i + 1)
           rest  == <<Rest(s, m)>>
           double == i + 1 < Len(s) /\ s[i + 2] = Quote
           n == Len(s)
           c == s[i + 1]
           openAt == AtOpen(s, G, i, m)
           shutAt == AtShut(s, G, i, m)
<1>1. /\ openAt = IF i = n THEN IF m = i THEN <<>> ELSE rest
                                     ELSE IF c = Quote /\ double THEN twice ELSE still
      /\ shutAt = IF i = n THEN IF m = i THEN <<>> ELSE rest
                                      ELSE IF c = Stop THEN cut ELSE now
  BY Zenon DEF SplitAt, AtOpen, AtShut, Open, Shut, Part
<1> DEFINE Claim == /\ i = n /\ m = i => openAt = <<>> /\ shutAt = <<>>
                    /\ i = n /\ m # i => openAt = rest /\ shutAt = rest
                    /\ i # n /\ c # Quote => openAt = open
                    /\ i # n /\ c = Quote /\ double => openAt = twice
                    /\ i # n /\ c = Quote /\ ~double => openAt = shut
                    /\ i # n /\ c = Stop => shutAt = cut
                    /\ i # n /\ c = Quote => shutAt = open
                    /\ i # n /\ c \notin {Quote, Stop} => shutAt = shut
<1>2. CASE c = Quote
  <2>1. (s[i + 1] # Quote) = FALSE /\ (s[i + 1] = Quote) = TRUE
    BY Zenon, <1>2
  <2>2. still = shut /\ now = open
    BY Zenon, <2>1 DEF Open, Shut
  <2> HIDE DEF openAt, shutAt, open, shut, still, now, twice, cut, rest, double, n, c
  <2>3. Claim
    BY <1>1, <1>2, <2>2, CharFacts
  <2>4. QED
    BY Zenon, <2>3 DEF openAt, shutAt, open, shut, twice, cut, rest, double, n, c, SplitMoves
<1>3. CASE c # Quote
  <2>1. (s[i + 1] # Quote) = TRUE /\ (s[i + 1] = Quote) = FALSE
    BY Zenon, <1>3
  <2>2. still = open /\ now = shut
    BY Zenon, <2>1 DEF Open, Shut
  <2> HIDE DEF openAt, shutAt, open, shut, still, now, twice, cut, rest, double, n, c
  <2>3. Claim
    BY <1>1, <1>3, <2>2, CharFacts
  <2>4. QED
    BY Zenon, <2>3 DEF openAt, shutAt, open, shut, twice, cut, rest, double, n, c, SplitMoves
<1>4. QED
  BY <1>2, <1>3

\* The statements from a state on are those of the same state, where the same is said of the states behind.
Same(G, H, i, m) == Open(G, i, m) = Open(H, i, m) /\ Shut(G, i, m) = Shut(H, i, m)

LEMMA SplitLocal ==
  ASSUME NEW s \in Seq(Symbol), NEW G, NEW H, NEW i \in 0..Len(s), NEW m \in 0..Len(s),
         \A j \in (i + 1)..Len(s) : \A k \in 0..Len(s) : Same(G, H, j, k)
  PROVE  AtOpen(s, G, i, m) = AtOpen(s, H, i, m) /\ AtShut(s, G, i, m) = AtShut(s, H, i, m)
<1>1. /\ i # Len(s) => i + 1 \in (i + 1)..Len(s) /\ i + 1 \in 0..Len(s)
      /\ i # Len(s) /\ i + 1 < Len(s) => i + 2 \in (i + 1)..Len(s)
  OBVIOUS
<1>2. i # Len(s) => Same(G, H, i + 1, m) /\ Same(G, H, i + 1, i + 1)
  BY Zenon, <1>1
<1>3. i # Len(s) /\ i + 1 < Len(s) => Same(G, H, i + 2, m)
  BY Zenon, <1>1
<1>4. SplitMoves(s, G, i, m) /\ SplitMoves(s, H, i, m)
  BY SplitCases
<1>5. CASE i = Len(s)
  BY Zenon, <1>4, <1>5 DEF SplitMoves
<1>6. CASE i # Len(s)
  <2>1. AtOpen(s, G, i, m) = AtOpen(s, H, i, m)
    <3>1. CASE s[i + 1] # Quote
      BY Zenon, <1>2, <1>4, <1>6, <3>1 DEF Same, SplitMoves
    <3>2. CASE s[i + 1] = Quote /\ i + 1 < Len(s) /\ s[i + 2] = Quote
      BY Zenon, <1>3, <1>4, <1>6, <3>2 DEF Same, SplitMoves
    <3>3. CASE s[i + 1] = Quote /\ ~(i + 1 < Len(s) /\ s[i + 2] = Quote)
      BY Zenon, <1>2, <1>4, <1>6, <3>3 DEF Same, SplitMoves
    <3>4. QED
      BY <3>1, <3>2, <3>3
  <2>2. AtShut(s, G, i, m) = AtShut(s, H, i, m)
    <3>1. CASE s[i + 1] = Stop
      BY Zenon, <1>2, <1>4, <1>6, <3>1 DEF Same, SplitMoves
    <3>2. CASE s[i + 1] = Quote
      BY Zenon, <1>2, <1>4, <1>6, <3>2 DEF Same, SplitMoves
    <3>3. CASE s[i + 1] \notin {Quote, Stop}
      BY Zenon, <1>2, <1>4, <1>6, <3>3 DEF Same, SplitMoves
    <3>4. QED
      BY <3>1, <3>2, <3>3
  <2>3. QED
    BY <2>1, <2>2
<1>7. QED
  BY <1>5, <1>6

LEMMA SplitsExist ==
  ASSUME NEW s \in Seq(Symbol)
  PROVE  \E G : G = [x \in LoopStates(s) |-> SplitAt(s, G, x[1], x[2], x[3])]
<1> DEFINE N == Len(s)
           Step(G) == [x \in LoopStates(s) |-> SplitAt(s, G, x[1], x[2], x[3])]
           S == {i \in 0..N : \E G : SplitsFrom(s, G, i)}
<1>1. N \in Nat
  OBVIOUS
<1>2. ASSUME NEW G, NEW n \in 0..N, NEW m \in 0..N
      PROVE  Open(Step(G), n, m) = AtOpen(s, G, n, m) /\ Shut(Step(G), n, m) = AtShut(s, G, n, m)
  <2>1. ASSUME NEW q \in BOOLEAN PROVE Step(G)[<<n, m, q>>] = SplitAt(s, G, n, m, q)
    <3>1. <<n, m, q>> \in LoopStates(s) /\ <<n, m, q>>[1] = n /\ <<n, m, q>>[2] = m /\ <<n, m, q>>[3] = q
      BY DEF LoopStates
    <3>2. QED
      BY Zenon, <3>1
  <2>2. TRUE \in BOOLEAN /\ FALSE \in BOOLEAN
    OBVIOUS
  <2> HIDE DEF Step
  <2>3. QED
    BY Zenon, <2>1, <2>2 DEF Open, Shut, AtOpen, AtShut
<1> HIDE DEF Step
<1>3. ASSUME NEW i \in 0..N, NEW G, SplitsFrom(s, G, i + 1) PROVE SplitsFrom(s, Step(G), i)
  <2>1. \A j \in (i + 1)..N : \A k \in 0..N : Same(Step(G), G, j, k)
    <3>1. ASSUME NEW j \in (i + 1)..N, NEW k \in 0..N PROVE Same(Step(G), G, j, k)
      <4>1. j \in 0..N
        BY <1>1
      <4>2. QED
        BY Zenon, <1>2, <1>3, <4>1 DEF SplitsFrom, Same
    <3>2. QED
      BY <3>1
  <2>2. ASSUME NEW n \in i..N, NEW m \in 0..N
        PROVE  /\ Open(Step(G), n, m) = AtOpen(s, Step(G), n, m)
               /\ Shut(Step(G), n, m) = AtShut(s, Step(G), n, m)
    <3>1. n \in 0..N /\ \A j \in (n + 1)..N : j \in (i + 1)..N
      BY <1>1
    <3>2. \A j \in (n + 1)..N : \A k \in 0..N : Same(Step(G), G, j, k)
      BY Zenon, <2>1, <3>1
    <3>3. AtOpen(s, Step(G), n, m) = AtOpen(s, G, n, m) /\ AtShut(s, Step(G), n, m) = AtShut(s, G, n, m)
      BY <3>1, <3>2, SplitLocal
    <3>4. QED
      BY Zenon, <1>2, <3>1, <3>3
  <2>3. QED
    BY Zenon, <2>2 DEF SplitsFrom
<1>4. ASSUME NEW i \in 0..N, \A j \in (i + 1)..N : j \in S PROVE i \in S
  <2>1. \E G : SplitsFrom(s, G, i + 1)
    <3>1. CASE i = N
      <4>1. (i + 1)..N = {}
        BY <1>1, <3>1
      <4>2. SplitsFrom(s, <<>>, i + 1)
        BY <4>1 DEF SplitsFrom
      <4>3. QED
        BY <4>2
    <3>2. CASE i # N
      <4>1. i + 1 \in (i + 1)..N
        BY <1>1, <3>2
      <4>2. QED
        BY <1>4, <4>1
    <3>3. QED
      BY <3>1, <3>2
  <2>2. QED
    BY <1>3, <2>1
<1>5. 0 \in S
  <2> HIDE DEF S
  <2>1. 0..N \subseteq S
    BY <1>1, <1>4, DownTo
  <2>2. QED
    BY <1>1, <2>1
<1>6. PICK G : SplitsFrom(s, G, 0)
  BY <1>5
<1>7. \A j \in 0..N : \A k \in 0..N : Same(Step(G), G, j, k)
  BY Zenon, <1>2, <1>6 DEF SplitsFrom, Same
<1>8. ASSUME NEW x \in LoopStates(s) PROVE SplitAt(s, G, x[1], x[2], x[3]) = SplitAt(s, Step(G), x[1], x[2], x[3])
  <2>1. x[1] \in 0..N /\ x[2] \in 0..N /\ (x[3] = TRUE \/ x[3] = FALSE)
    BY DEF LoopStates
  <2>2. \A j \in (x[1] + 1)..N : j \in 0..N
    BY <1>1, <2>1
  <2>3. \A j \in (x[1] + 1)..N : \A k \in 0..N : Same(G, Step(G), j, k)
    BY Zenon, <1>7, <2>2 DEF Same
  <2>4. /\ AtOpen(s, G, x[1], x[2]) = AtOpen(s, Step(G), x[1], x[2])
        /\ AtShut(s, G, x[1], x[2]) = AtShut(s, Step(G), x[1], x[2])
    BY Zenon, <2>1, <2>3, SplitLocal
  <2>5. QED
    BY Zenon, <2>1, <2>4 DEF AtOpen, AtShut
<1>9. Step(G) = [x \in LoopStates(s) |-> SplitAt(s, Step(G), x[1], x[2], x[3])]
  <2>1. Step(G) = [x \in LoopStates(s) |-> SplitAt(s, G, x[1], x[2], x[3])]
    BY DEF Step
  <2>2. QED
    BY Zenon, <1>8, <2>1
<1>10. QED
  BY <1>9

\* A cut is a sequence of texts.
LEMMA SplitsTyped ==
  ASSUME NEW s \in Seq(Symbol), NEW G, SplitsOn(s, G), NEW i \in 0..Len(s), NEW m \in 0..Len(s)
  PROVE  Open(G, i, m) \in Seq(Seq(Symbol)) /\ Shut(G, i, m) \in Seq(Seq(Symbol))
<1> DEFINE N == Len(s)
           Cuts == Seq(Seq(Symbol))
           S == {j \in 0..N : \A k \in 0..N : Open(G, j, k) \in Cuts /\ Shut(G, j, k) \in Cuts}
<1>1. N \in Nat
  OBVIOUS
<1>2. ASSUME NEW j \in 0..N, \A n \in (j + 1)..N : n \in S PROVE j \in S
  <2>1. ASSUME NEW k \in 0..N PROVE Open(G, j, k) \in Cuts /\ Shut(G, j, k) \in Cuts
    <3>1. Open(G, j, k) = AtOpen(s, G, j, k) /\ Shut(G, j, k) = AtShut(s, G, j, k)
      BY Zenon DEF SplitsOn, SplitsFrom
    <3>2. Part(s, k, j) \in Seq(Symbol) /\ Rest(s, k) \in Seq(Symbol)
      <4>1. \A n \in (k + 1)..j : s[n] \in Symbol
        OBVIOUS
      <4>2. k + 1 \in Int /\ j \in Int
        OBVIOUS
      <4>3. SubSeq(s, k + 1, j) \in Seq(Symbol)
        BY <4>1, <4>2, SubSeqProperties
      <4>4. QED
        BY <4>3, RestFacts DEF Part
    <3>3. /\ <<>> \in Cuts /\ <<Rest(s, k)>> \in Cuts /\ <<Part(s, k, j)>> \in Cuts
          /\ \A u \in Cuts, w \in Cuts : u \o w \in Cuts
      BY <3>2
    <3>4. /\ j # N => j + 1 \in (j + 1)..N /\ j + 1 \in 0..N
          /\ j # N /\ j + 1 < N => j + 2 \in (j + 1)..N
      BY <1>1
    <3>5. /\ j # N => Open(G, j + 1, k) \in Cuts /\ Shut(G, j + 1, k) \in Cuts /\ Shut(G, j + 1, j + 1) \in Cuts
          /\ j # N /\ j + 1 < N => Open(G, j + 2, k) \in Cuts
      BY Zenon, <1>2, <3>4
    <3>6. j # N => <<Part(s, k, j)>> \o Shut(G, j + 1, j + 1) \in Cuts
      BY Zenon, <3>3, <3>5
    <3> HIDE DEF S, Cuts
    <3> SplitMoves(s, G, j, k)
      BY SplitCases
    <3>7. AtOpen(s, G, j, k) \in Cuts
      BY Zenon, <3>3, <3>5 DEF SplitMoves
    <3>8. AtShut(s, G, j, k) \in Cuts
      BY Zenon, <3>3, <3>5, <3>6 DEF SplitMoves
    <3>9. QED
      BY <3>1, <3>7, <3>8
  <2>2. QED
    BY <2>1
<1>3. 0..N \subseteq S
  <2> HIDE DEF S
  <2>1. QED
    BY <1>1, <1>2, DownTo
<1>4. QED
  BY <1>3

LEMMA SplitIs ==
  ASSUME NEW s \in Seq(Symbol)
  PROVE  \E G : SplitsOn(s, G) /\ SplitStatements(s) = Shut(G, 0, 0)
<1> DEFINE Is(G) == G = [x \in LoopStates(s) |-> SplitAt(s, G, x[1], x[2], x[3])]
           G == CHOOSE G : Is(G)
<1>1. Is(G)
  BY Zenon, SplitsExist
<1>2. SplitStatements(s) = G[<<0, 0, FALSE>>]
  BY Zenon DEF SplitStatements
<1> HIDE DEF G
<1>3. ASSUME NEW i \in 0..Len(s), NEW m \in 0..Len(s), NEW q \in BOOLEAN PROVE G[<<i, m, q>>] = SplitAt(s, G, i, m, q)
  <2>1. <<i, m, q>> \in LoopStates(s) /\ <<i, m, q>>[1] = i /\ <<i, m, q>>[2] = m /\ <<i, m, q>>[3] = q
    BY DEF LoopStates
  <2>2. QED
    BY Zenon, <1>1, <2>1
<1>4. TRUE \in BOOLEAN /\ FALSE \in BOOLEAN
  OBVIOUS
<1>5. SplitsOn(s, G)
  BY Zenon, <1>3, <1>4 DEF SplitsOn, SplitsFrom, Open, Shut, AtOpen, AtShut
<1>6. QED
  BY Zenon, <1>2, <1>5 DEF Shut

-----------------------------------------------------------------------------
LEMMA Moved ==
  ASSUME NEW s \in Seq(Symbol), NEW G, SplitsOn(s, G), NEW i \in 0..Len(s), NEW m \in 0..Len(s)
  PROVE  /\ Open(G, i, m) = AtOpen(s, G, i, m) /\ Shut(G, i, m) = AtShut(s, G, i, m)
         /\ SplitMoves(s, G, i, m)
<1>1. SplitMoves(s, G, i, m)
  BY SplitCases
<1>2. Open(G, i, m) = AtOpen(s, G, i, m) /\ Shut(G, i, m) = AtShut(s, G, i, m)
  BY Zenon DEF SplitsOn, SplitsFrom
<1>3. QED
  BY <1>1, <1>2

\* Characters that are neither quotes nor semicolons change nothing.
LEMMA QuietMoves ==
  ASSUME NEW s \in Seq(Symbol), NEW G, SplitsOn(s, G), NEW m \in 0..Len(s), NEW i \in 0..Len(s), NEW j \in i..Len(s),
         Quiet(s, i + 1, j)
  PROVE  Open(G, i, m) = Open(G, j, m) /\ Shut(G, i, m) = Shut(G, j, m)
<1> DEFINE S == {k \in i..j : Open(G, k, m) = Open(G, j, m) /\ Shut(G, k, m) = Shut(G, j, m)}
<1>1. Len(s) \in Nat /\ i \in Nat /\ j \in Nat /\ i <= j /\ j <= Len(s)
  OBVIOUS
<1>2. ASSUME NEW k \in i..j, \A n \in (k + 1)..j : n \in S PROVE k \in S
  <2>1. CASE k = j
    BY <2>1
  <2>2. CASE k # j
    <3>1. k \in 0..Len(s) /\ k # Len(s) /\ k + 1 \in (k + 1)..j /\ k + 1 \in (i + 1)..j
      BY <1>1, <2>2
    <3>2. s[k + 1] \notin {Quote, Stop}
      BY <3>1 DEF Quiet
    <3>3. Open(G, k, m) = AtOpen(s, G, k, m) /\ Shut(G, k, m) = AtShut(s, G, k, m) /\ SplitMoves(s, G, k, m)
      BY <3>1, Moved
    <3>4. Open(G, k, m) = Open(G, k + 1, m) /\ Shut(G, k, m) = Shut(G, k + 1, m)
      BY Zenon, <3>1, <3>2, <3>3 DEF SplitMoves
    <3>5. k + 1 \in S
      BY <1>2, <3>1
    <3>6. QED
      BY <3>4, <3>5
  <2>3. QED
    BY <2>1, <2>2
<1>3. i..j \subseteq S
  <2> HIDE DEF S
  <2>1. QED
    BY <1>1, <1>2, DownTo
<1>4. i \in S
  BY <1>1, <1>3
<1>5. QED
  BY <1>4

\* A quote opens or closes a string, also one of two.
LEMMA QuoteMoves ==
  ASSUME NEW s \in Seq(Symbol), NEW G, SplitsOn(s, G), NEW m \in 0..Len(s), NEW i \in 0..Len(s), i # Len(s),
         s[i + 1] = Quote
  PROVE  Shut(G, i, m) = Open(G, i + 1, m) /\ Open(G, i, m) = Shut(G, i + 1, m)
<1>1. Open(G, i, m) = AtOpen(s, G, i, m) /\ Shut(G, i, m) = AtShut(s, G, i, m) /\ SplitMoves(s, G, i, m)
  BY Moved
<1>2. Shut(G, i, m) = Open(G, i + 1, m)
  BY Zenon, <1>1 DEF SplitMoves
<1>3. CASE i + 1 < Len(s) /\ s[i + 2] = Quote
  <2>1. i + 1 \in 0..Len(s) /\ i + 1 # Len(s) /\ (i + 1) + 1 = i + 2
    BY <1>3
  <2>2. Open(G, i, m) = Open(G, i + 2, m)
    BY Zenon, <1>1, <1>3 DEF SplitMoves
  <2>3. Shut(G, i + 1, m) = AtShut(s, G, i + 1, m) /\ SplitMoves(s, G, i + 1, m)
    BY <2>1, Moved
  <2>4. s[(i + 1) + 1] = Quote
    BY <1>3, <2>1
  <2>5. Shut(G, i + 1, m) = Open(G, (i + 1) + 1, m)
    BY Zenon, <2>1, <2>3, <2>4 DEF SplitMoves
  <2>6. QED
    BY <1>2, <2>1, <2>2, <2>5
<1>4. CASE ~(i + 1 < Len(s) /\ s[i + 2] = Quote)
  <2>1. Open(G, i, m) = Shut(G, i + 1, m)
    BY Zenon, <1>1, <1>4 DEF SplitMoves
  <2>2. QED
    BY <1>2, <2>1
<1>5. QED
  BY <1>3, <1>4

LEMMA NotLast == ASSUME NEW N \in Nat, NEW k \in 1..(N + 1), k # N + 1 PROVE k \in 1..N
  OBVIOUS

\* Where the characters of a text behind i are in a text of length L.
InString(L, i, k) == /\ k # (L - i) + 1 /\ i + (k - 1) \in 0..L /\ i + (k - 1) # L
                     /\ (i + (k - 1)) + 1 = i + k /\ i + ((k + 1) - 1) = i + k
                     /\ k + 1 \in (k + 1)..((L - i) + 1)
LEMMA StringPlaces ==
  ASSUME NEW L \in Nat, NEW i \in Nat, NEW k \in 1..(L - i)
  PROVE  InString(L, i, k)
  BY DEF InString

\* A string is behind where tokenize finds its end.
LEMMA StringMoves ==
  ASSUME NEW s \in Seq(Symbol), NEW G, SplitsOn(s, G), NEW m \in 0..Len(s), NEW i \in 0..Len(s),
         NEW e, StringEnds(Rest(s, i), e), NEW n \in 1..(Len(s) - i + 1), e[n] # 0
  PROVE  Open(G, i + (n - 1), m) = Shut(G, i + e[n], m)
<1> DEFINE r == Rest(s, i)
           N == Len(s) - i
           P(k) == e[k] # 0 => Open(G, i + (k - 1), m) = Shut(G, i + e[k], m)
           S == {k \in 1..(N + 1) : P(k)}
<1>1. Len(s) \in Nat /\ i \in Nat /\ N \in Nat /\ r \in Seq(Symbol) /\ Len(r) = N /\ \A k \in 1..N : r[k] = s[i + k]
  <2>1. r \in Seq(Symbol) /\ Len(r) = N
    BY RestFacts
  <2>2. \A k \in 1..N : r[k] = s[i + k]
    <3>1. i \in 0..Len(s) /\ Len(s) \in i..Len(s)
      OBVIOUS
    <3>2. r = Part(s, i, Len(s)) /\ \A j \in 1..N : Part(s, i, Len(s))[j] = s[i + j]
      BY <3>1, PartFacts
    <3> HIDE DEF r
    <3>3. QED
      BY <3>2
  <2>3. Len(s) \in Nat /\ i \in Nat /\ N \in Nat
    OBVIOUS
  <2> HIDE DEF r
  <2>4. QED
    BY <2>1, <2>2, <2>3
<1>2. StringEnds(r, e)
  OBVIOUS
<1> HIDE DEF r
<1>3. ASSUME NEW k \in 1..(N + 1), \A j \in (k + 1)..(N + 1) : j \in S PROVE P(k)
  <2>1. e[k] = EndAt(r, e, k)
    BY <1>1, <1>2 DEF StringEnds
  <2>2. CASE k = N + 1
    BY <1>1, <2>1, <2>2 DEF EndAt
  <2>3. CASE k # N + 1
    <3>1. /\ k \in 1..N /\ r[k] = s[i + k] /\ k # Len(r) + 1 /\ i + (k - 1) \in 0..Len(s) /\ i + (k - 1) # Len(s)
          /\ (i + (k - 1)) + 1 = i + k /\ i + ((k + 1) - 1) = i + k /\ k + 1 \in (k + 1)..(N + 1)
      <4>1. k \in 1..N
        BY Zenon, <1>1, <2>3, NotLast
      <4>2. r[k] = s[i + k] /\ Len(r) = N
        BY Zenon, <1>1, <4>1
      <4>3. Len(s) \in Nat /\ i \in Nat
        BY Zenon, <1>1
      <4>4. /\ k # N + 1 /\ i + (k - 1) \in 0..Len(s) /\ i + (k - 1) # Len(s)
            /\ (i + (k - 1)) + 1 = i + k /\ i + ((k + 1) - 1) = i + k /\ k + 1 \in (k + 1)..(N + 1)
        <5>1. InString(Len(s), i, k)
          BY Zenon, <4>1, <4>3, StringPlaces
        <5>2. QED
          BY Zenon, <5>1 DEF InString
      <4>5. QED
        BY Zenon, <4>1, <4>2, <4>4
    <3> DEFINE p == i + (k - 1)
    <3>2. Open(G, p, m) = AtOpen(s, G, p, m) /\ SplitMoves(s, G, p, m)
      BY <3>1, Moved
    <3>3. p + 1 = i + k /\ p # Len(s) /\ p \in 0..Len(s)
      BY <3>1
    <3> HIDE DEF p
    <3>4. CASE r[k] # Quote
      <4>1. s[p + 1] # Quote
        BY <3>1, <3>3, <3>4
      <4>2. Open(G, p, m) = Open(G, p + 1, m)
        BY Zenon, <3>2, <3>3, <4>1 DEF SplitMoves
      <4>3. e[k] = e[k + 1]
        BY <2>1, <3>1, <3>4 DEF EndAt
      <4>4. P(k + 1)
        BY <1>3, <3>1
      <4>5. e[k + 1] # 0 => Open(G, i + k, m) = Shut(G, i + e[k + 1], m)
        BY <3>1, <4>4
      <4>6. QED
        BY <3>3, <4>2, <4>3, <4>5 DEF p
    <3>5. CASE r[k] = Quote /\ k < N /\ r[k + 1] = Quote
      <4>0. /\ k \in Nat /\ p \in Nat /\ k + 1 \in 1..N /\ i + k < Len(s)
            /\ k + 2 \in (k + 1)..(N + 1) /\ i + ((k + 2) - 1) = (i + k) + 1
            /\ i + (k + 1) = (i + k) + 1
        BY <1>1, <3>1, <3>3, <3>5
      <4>1. r[k + 1] = s[i + (k + 1)] /\ p + 2 = i + (k + 1) /\ p + 1 < Len(s) /\ k + 2 \in (k + 1)..(N + 1)
            /\ i + ((k + 2) - 1) = p + 2
        <5>1. r[k + 1] = s[i + (k + 1)]
          BY <1>1, <4>0
        <5>2. p + 2 = (p + 1) + 1
          BY <4>0
        <5>3. QED
          BY <3>3, <4>0, <5>1, <5>2
      <4>2. s[p + 1] = Quote /\ s[p + 2] = Quote
        BY <3>1, <3>3, <3>5, <4>1
      <4>3. Open(G, p, m) = Open(G, p + 2, m)
        BY Zenon, <3>2, <3>3, <4>1, <4>2 DEF SplitMoves
      <4>4. e[k] = e[k + 2]
        BY <1>1, <2>1, <3>1, <3>5 DEF EndAt
      <4>5. P(k + 2)
        BY <1>3, <4>1
      <4>6. e[k + 2] # 0 => Open(G, p + 2, m) = Shut(G, i + e[k + 2], m)
        BY <4>1, <4>5
      <4>7. QED
        BY <4>3, <4>4, <4>6 DEF p
    <3>6. CASE r[k] = Quote /\ ~(k < N /\ r[k + 1] = Quote)
      <4>1. s[p + 1] = Quote
        BY <3>1, <3>3, <3>6
      <4>2. Open(G, p, m) = Shut(G, p + 1, m)
        BY <3>3, <4>1, QuoteMoves
      <4>3. e[k] = k
        BY <1>1, <2>1, <3>1, <3>6 DEF EndAt
      <4>4. QED
        BY <3>3, <4>2, <4>3 DEF p
    <3>7. QED
      BY <3>4, <3>5, <3>6
  <2>4. QED
    BY <2>2, <2>3
<1>4. n \in S
  <2>1. ASSUME NEW k \in 1..(N + 1), \A j \in (k + 1)..(N + 1) : j \in S PROVE k \in S
    BY <1>3, <2>1
  <2> HIDE DEF S
  <2>2. 1..(N + 1) \subseteq S
    <3>1. N + 1 \in Nat
      BY <1>1
    <3> HIDE DEF N
    <3>2. QED
      BY <2>1, <3>1, DownTo
  <2>3. QED
    BY <2>2
<1>5. QED
  BY <1>4

\* Where the characters of a blob of length k behind i are in a text of length L.
InBlob(L, i, k) == LET N == L - i IN
  /\ 2 \in 1..N /\ 3 \in 1..N /\ 1 \in (1 - 1)..N /\ k - 1 \in (3 - 1)..N /\ i + (1 - 1) = i
  /\ i + (3 - 1) = (i + 1) + 1 /\ i + 2 = (i + 1) + 1 /\ (i + (k - 1)) + 1 = i + k
  /\ i + 1 \in 0..L /\ i + 1 # L /\ i + (k - 1) \in 0..L /\ i + (k - 1) # L
LEMMA BlobPlaces ==
  ASSUME NEW L \in Nat, NEW i \in Nat, NEW k \in Nat, k > 2, k <= L - i
  PROVE  InBlob(L, i, k)
  BY DEF InBlob

\* Behind a token that is not a semicolon, the same statement is read, and no string is open.
LEMMA TokenMoves ==
  ASSUME NEW s \in Seq(Symbol), NEW G, SplitsOn(s, G), NEW m \in 0..Len(s), NEW i \in 0..Len(s), i # Len(s),
         NEW k \in 1..(Len(s) - i), Spells(Rest(s, i), k), s[i + 1] # Stop
  PROVE  Shut(G, i, m) = Shut(G, i + k, m) /\ s[i + k] # Stop
<1> DEFINE r == Rest(s, i)
           N == Len(s) - i
<1>1. Len(s) \in Nat /\ i \in Nat /\ N \in Nat /\ r \in Seq(Symbol) /\ Len(r) = N /\ \A j \in 1..N : r[j] = s[i + j]
  <2>1. r \in Seq(Symbol) /\ Len(r) = N
    BY RestFacts
  <2>2. \A j \in 1..N : r[j] = s[i + j]
    <3>1. i \in 0..Len(s) /\ Len(s) \in i..Len(s)
      OBVIOUS
    <3>2. r = Part(s, i, Len(s)) /\ \A j \in 1..N : Part(s, i, Len(s))[j] = s[i + j]
      BY <3>1, PartFacts
    <3> HIDE DEF r
    <3>3. QED
      BY <3>2
  <2>3. Len(s) \in Nat /\ i \in Nat /\ N \in Nat
    OBVIOUS
  <2> HIDE DEF r
  <2>4. QED
    BY <2>1, <2>2, <2>3
<1>2. Spells(r, k)
  OBVIOUS
<1> HIDE DEF r
<1>3. /\ k \in 1..N /\ k \in Nat /\ 1 \in 1..N /\ r[1] # Stop
      /\ r[k] = s[i + k] /\ i + k \in i..Len(s) /\ i + k \in 0..Len(s)
  BY <1>1
<1>4. Quote # Stop
  BY CharFacts
<1>5. ASSUME NEW a \in 1..N, NEW b \in (a - 1)..N, Quiet(r, a, b)
      PROVE  Shut(G, i + (a - 1), m) = Shut(G, i + b, m) /\ Open(G, i + (a - 1), m) = Open(G, i + b, m)
  <2>1. i + (a - 1) \in 0..Len(s) /\ i + b \in (i + (a - 1))..Len(s)
    BY <1>1
  <2>2. ASSUME NEW j \in ((i + (a - 1)) + 1)..(i + b) PROVE s[j] \notin {Quote, Stop}
    <3>1. j - i \in a..b /\ j - i \in 1..N /\ i + (j - i) = j
      BY <1>1
    <3>2. r[j - i] \notin {Quote, Stop} /\ r[j - i] = s[i + (j - i)]
      BY <1>1, <1>5, <3>1 DEF Quiet
    <3>3. QED
      BY <3>1, <3>2
  <2>3. Quiet(s, (i + (a - 1)) + 1, i + b)
    BY <2>2 DEF Quiet
  <2>4. QED
    BY <2>1, <2>3, QuietMoves
<1>6. CASE Quiet(r, 1, k)
  <2>1. k \in (1 - 1)..N /\ i + (1 - 1) = i
    BY <1>1, <1>3
  <2>2. Shut(G, i + (1 - 1), m) = Shut(G, i + k, m)
    BY <1>3, <1>5, <1>6, <2>1
  <2>3. r[k] # Stop
    BY <1>3, <1>6 DEF Quiet
  <2>4. QED
    BY <1>3, <2>1, <2>2, <2>3
<1>7. CASE r[1] = Quote /\ k = StringEnd(r) /\ k # 0
  <2>1. PICK e : StringEnd(r) = e[2] /\ StringEnds(r, e)
    BY <1>1, StringEndIs
  <2>2. s[i + 1] = Quote
    BY <1>1, <1>3, <1>7
  <2>3. Shut(G, i, m) = Open(G, i + 1, m)
    BY <2>2, QuoteMoves
  <2>4. 2 \in 1..(Len(s) - i + 1) /\ i + (2 - 1) = i + 1 /\ e[2] = k /\ e[2] # 0 /\ 2 \in 1..(Len(r) + 1)
    BY <1>1, <1>3, <1>7, <2>1
  <2>5. StringEnds(Rest(s, i), e)
    BY <2>1 DEF r
  <2>6. Open(G, i + (2 - 1), m) = Shut(G, i + e[2], m)
    BY <2>4, <2>5, StringMoves
  <2>7. r[k] = Quote
    <3>1. r \in Seq(Symbol) /\ StringEnds(r, e) /\ 2 \in 1..(Len(r) + 1) /\ e[2] # 0
      BY <1>1, <2>1, <2>4
    <3>2. r[e[2]] = Quote
      BY <3>1, EndsAtQuote
    <3>3. QED
      BY <2>4, <3>2
  <2>8. QED
    BY <1>3, <1>4, <2>3, <2>4, <2>6, <2>7
<1>8. CASE k > 2 /\ r[1] \notin {Quote, Stop} /\ r[2] = Quote /\ Quiet(r, 3, k - 1) /\ r[k] = Quote
  <2>1. /\ 2 \in 1..N /\ 3 \in 1..N /\ 1 \in (1 - 1)..N /\ k - 1 \in (3 - 1)..N /\ i + (1 - 1) = i
        /\ i + (3 - 1) = (i + 1) + 1 /\ i + 2 = (i + 1) + 1 /\ (i + (k - 1)) + 1 = i + k
        /\ i + 1 \in 0..Len(s) /\ i + 1 # Len(s) /\ i + (k - 1) \in 0..Len(s) /\ i + (k - 1) # Len(s)
    <3>1. k \in Nat /\ k > 2 /\ k <= N /\ N = Len(s) - i
      BY <1>3, <1>8
    <3>2. Len(s) \in Nat /\ i \in Nat
      OBVIOUS
    <3>3. InBlob(Len(s), i, k)
      BY Zenon, <3>1, <3>2, BlobPlaces
    <3>4. QED
      BY Zenon, <3>1, <3>3 DEF InBlob
  <2>2. Quiet(r, 1, 1)
    <3>1. 1..1 = {1}
      OBVIOUS
    <3>2. QED
      BY <1>8, <3>1 DEF Quiet
  <2>3. Shut(G, i + (1 - 1), m) = Shut(G, i + 1, m)
    BY <1>3, <1>5, <2>1, <2>2
  <2>4. s[(i + 1) + 1] = Quote /\ s[(i + (k - 1)) + 1] = Quote
    <3>1. r[2] = s[i + 2]
      BY <1>1, <2>1
    <3>2. QED
      BY <1>3, <1>8, <2>1, <3>1
  <2>5. Shut(G, i + 1, m) = Open(G, (i + 1) + 1, m)
    BY <2>1, <2>4, QuoteMoves
  <2>6. Open(G, i + (3 - 1), m) = Open(G, i + (k - 1), m)
    BY <1>5, <1>8, <2>1
  <2>7. Open(G, i + (k - 1), m) = Shut(G, (i + (k - 1)) + 1, m)
    BY <2>1, <2>4, QuoteMoves
  <2>8. QED
    BY <1>3, <1>4, <1>8, <2>1, <2>3, <2>5, <2>6, <2>7
<1>9. QED
  BY <1>2, <1>3, <1>6, <1>7, <1>8 DEF Spells

-----------------------------------------------------------------------------
\* TokensOf, text by text.
Tokens == Seq(TokenSet)
TextStep(ts, t) == ts \o Tokenize(t) \o <<Semicolon>>
Reader == [x \in Tokens \X Seq(Symbol) |-> TextStep(x[1], x[2])]

LEMMA ReaderTypes ==
  /\ \A t \in Seq(Symbol) : Tokenize(t) \in Tokens
  /\ <<>> \in Tokens /\ <<Semicolon>> \in Tokens /\ \A u \in Tokens, w \in Tokens : u \o w \in Tokens
  /\ Reader \in [Tokens \X Seq(Symbol) -> Tokens] /\ Steps(Tokens, Seq(Symbol), <<>>, Reader)
<1>1. ASSUME NEW t \in Seq(Symbol) PROVE Tokenize(t) \in Tokens
  <2>1. 0 \in 0..Len(t) /\ Rest(t, 0) = t
    BY RestFacts
  <2>2. QED
    BY <2>1, TokenizeStep DEF Tokens
<1>2. Semicolon \in TokenSet
  BY Zenon DEF TokenSet
<1>3. <<>> \in Tokens /\ <<Semicolon>> \in Tokens /\ \A u \in Tokens, w \in Tokens : u \o w \in Tokens
  <2>1. \A S, x : x \in S => <<>> \in Seq(S) /\ <<x>> \in Seq(S) /\ \A u \in Seq(S), w \in Seq(S) : u \o w \in Seq(S)
    OBVIOUS
  <2>2. QED
    BY <1>2, <2>1 DEF Tokens
<1>4. ASSUME NEW ts \in Tokens, NEW t \in Seq(Symbol) PROVE TextStep(ts, t) \in Tokens
  BY <1>1, <1>3 DEF TextStep
<1>5. QED
  BY <1>1, <1>3, <1>4 DEF Reader, Steps

\* However tokens are put together, what comes out is the same.
Grouped(u, v, w) == (u \o v) \o w = u \o (v \o w)
LEMMA Joins ==
  ASSUME NEW u \in Tokens, NEW v \in Tokens, NEW w \in Tokens
  PROVE  Grouped(u, v, w)
<1>1. u \in Seq(TokenSet) /\ v \in Seq(TokenSet) /\ w \in Seq(TokenSet)
  BY DEF Tokens
<1>2. (u \o v) \o w = u \o (v \o w)
  BY <1>1, ConcatAssociative
<1>3. QED
  BY Zenon, <1>2 DEF Grouped

LEMMA JoinsNothing ==
  ASSUME NEW u \in Tokens
  PROVE  u \o <<>> = u /\ <<>> \o u = u
<1>1. u \in Seq(TokenSet)
  BY DEF Tokens
<1>2. QED
  BY <1>1, ConcatEmptySeq

LEMMA TokensFold ==
  ASSUME NEW s \in Seq(Seq(Symbol))
  PROVE  TokensOf(s) = Folded(Tokens, <<>>, Reader, s)
<1> DEFINE Recursive(iter) == iter = [t \in SUBSET (DOMAIN s) |->
             IF t = {} THEN <<>> ELSE TextStep(iter[t \ {Max(t)}], s[Max(t)])]
<1>1. /\ Len(s) \in Nat /\ DOMAIN s = 1..Len(s)
      /\ <<>> \in Tokens /\ Reader \in [Tokens \X Seq(Symbol) -> Tokens]
  BY ReaderTypes
<1>2. TokensOf(s) = (CHOOSE iter : Recursive(iter))[DOMAIN s]
  BY Zenon DEF TokensOf, FoldLeft, MapThenFoldSet, TextStep
<1>3. PICK iter \in [SUBSET (1..Len(s)) -> Tokens] : IsFold(iter, <<>>, Reader, s)
  BY <1>1, FoldExists
<1>4. \A t \in SUBSET (1..Len(s)) : iter[t] =
        IF t = {} THEN <<>> ELSE TextStep(iter[t \ {Max(t)}], s[Max(t)])
  <2>1. ASSUME NEW t \in SUBSET (1..Len(s))
        PROVE  iter[t] = IF t = {} THEN <<>> ELSE TextStep(iter[t \ {Max(t)}], s[Max(t)])
    <3>1. t # {} => iter[t \ {Max(t)}] \in Tokens /\ s[Max(t)] \in Seq(Symbol)
      BY <1>1, FoldMeets
    <3>2. iter[t] = IF t = {} THEN <<>> ELSE Reader[<<iter[t \ {Max(t)}], s[Max(t)]>>]
      BY <1>3 DEF IsFold
    <3>3. QED
      BY <3>1, <3>2 DEF Reader
  <2>2. QED
    BY <2>1
<1>5. Recursive(iter)
  BY <1>1, <1>3, <1>4
<1>6. PICK fold : Recursive(fold) /\ TokensOf(s) = fold[1..Len(s)]
  BY <1>1, <1>2, <1>5
<1>7. fold[{}] = <<>>
  BY <1>6
<1>8. ASSUME NEW m \in 1..Len(s), NEW x \in Tokens, fold[1..(m - 1)] = x
      PROVE  fold[1..m] = Reader[<<x, s[m]>>]
  <2>1. fold[1..m] = TextStep(fold[(1..m) \ {Max(1..m)}], s[Max(1..m)])
    BY <1>1, <1>6, PositionsBefore
  <2>2. fold[1..m] = TextStep(x, s[m])
    BY <1>1, <1>8, <2>1, PositionsBefore
  <2>3. s[m] \in Seq(Symbol)
    BY <1>1
  <2>4. QED
    BY <2>2, <2>3 DEF Reader
<1>9. StepsBy(fold, Tokens, <<>>, Reader, s)
  BY <1>7, <1>8 DEF StepsBy
<1>10. OnAll(fold, s) = Folded(Tokens, <<>>, Reader, s)
  BY ONLY <1>1, s \in Seq(Seq(Symbol)), <1>9, FoldComesTo, ZenonT(60)
<1>11. QED
  BY <1>6, <1>10 DEF OnAll

LEMMA TokensSteps ==
  /\ TokensOf(<<>>) = <<>>
  /\ \A r \in Seq(Seq(Symbol)), t \in Seq(Symbol) :
       /\ TokensOf(r) \in Tokens
       /\ TokensOf(Append(r, t)) = TokensOf(r) \o Tokenize(t) \o <<Semicolon>>
<1>1. TokensOf(<<>>) = <<>>
  <2>1. <<>> \in Seq(Seq(Symbol))
    OBVIOUS
  <2>2. Folded(Tokens, <<>>, Reader, <<>>) = <<>>
    BY ReaderTypes, FoldedEmpty
  <2>3. QED
    BY <2>1, <2>2, TokensFold
<1>2. ASSUME NEW r \in Seq(Seq(Symbol)), NEW t \in Seq(Symbol)
      PROVE  TokensOf(r) \in Tokens /\ TokensOf(Append(r, t)) = TokensOf(r) \o Tokenize(t) \o <<Semicolon>>
  <2>1. Append(r, t) \in Seq(Seq(Symbol))
    OBVIOUS
  <2>2. Folded(Tokens, <<>>, Reader, r) \in Tokens
    BY ReaderTypes, FoldedIs
  <2>3. Folded(Tokens, <<>>, Reader, Append(r, t)) = Reader[<<Folded(Tokens, <<>>, Reader, r), t>>]
    BY ReaderTypes, FoldedStep
  <2>4. /\ TokensOf(r) = Folded(Tokens, <<>>, Reader, r)
        /\ TokensOf(Append(r, t)) = Folded(Tokens, <<>>, Reader, Append(r, t))
    BY <2>1, TokensFold
  <2>5. TokensOf(r) \in Tokens /\ TokensOf(Append(r, t)) = TextStep(TokensOf(r), t)
    BY <2>2, <2>3, <2>4 DEF Reader
  <2>6. QED
    BY <2>5 DEF TextStep
<1>3. QED
  BY <1>1, <1>2

LEMMA AppendedLast ==
  ASSUME NEW E, NEW x \in Seq(E), NEW q \in Seq(E), NEW t \in E
  PROVE  x \o Append(q, t) = Append(x \o q, t) /\ x \o q \in Seq(E) /\ Append(q, t) \in Seq(E)
  OBVIOUS

\* The tokens of the first text come first.
LEMMA TokensFirst ==
  ASSUME NEW a \in Seq(Symbol), NEW r \in Seq(Seq(Symbol))
  PROVE  TokensOf(<<a>> \o r) = Tokenize(a) \o (<<Semicolon>> \o TokensOf(r))
<1> DEFINE S == {q \in Seq(Seq(Symbol)) : TokensOf(<<a>> \o q) = Tokenize(a) \o (<<Semicolon>> \o TokensOf(q))}
<1>1. Tokenize(a) \in Tokens /\ <<Semicolon>> \in Tokens /\ <<>> \in Tokens
  BY ReaderTypes
<1>2. <<>> \in S
  <2>1. <<a>> \o <<>> = Append(<<>>, a) /\ <<>> \in Seq(Seq(Symbol))
    OBVIOUS
  <2>2. TokensOf(<<a>> \o <<>>) = (<<>> \o Tokenize(a)) \o <<Semicolon>>
    BY <2>1, TokensSteps
  <2>3. <<>> \o Tokenize(a) = Tokenize(a) /\ <<Semicolon>> \o <<>> = <<Semicolon>>
    BY <1>1, JoinsNothing
  <2>4. QED
    BY <2>1, <2>2, <2>3, TokensSteps
<1>3. ASSUME NEW q \in Seq(Seq(Symbol)), NEW t \in Seq(Symbol), q \in S PROVE Append(q, t) \in S
  <2>1. /\ <<a>> \o Append(q, t) = Append(<<a>> \o q, t) /\ <<a>> \o q \in Seq(Seq(Symbol))
        /\ Append(q, t) \in Seq(Seq(Symbol))
    <3>1. <<a>> \in Seq(Seq(Symbol))
      OBVIOUS
    <3>2. QED
      BY Zenon, <3>1, AppendedLast
  <2> DEFINE x == Tokenize(a)
             y == TokensOf(q)
             z == Tokenize(t)
             e == <<Semicolon>>
  <2>2. TokensOf(<<a>> \o Append(q, t)) = (TokensOf(<<a>> \o q) \o z) \o e /\ TokensOf(Append(q, t)) = (y \o z) \o e
    BY <2>1, TokensSteps
  <2>3. TokensOf(<<a>> \o q) = x \o (e \o y)
    BY <1>3
  <2>4. x \in Tokens /\ y \in Tokens /\ z \in Tokens /\ e \in Tokens
    BY <1>1, TokensSteps, ReaderTypes
  <2> HIDE DEF x, y, z, e
  <2>5. ((x \o (e \o y)) \o z) \o e = x \o (e \o ((y \o z) \o e))
    <3>1. e \o y \in Tokens /\ y \o z \in Tokens /\ (e \o y) \o z \in Tokens
      BY <2>4, ReaderTypes
    <3>2. Grouped(x, e \o y, z) /\ Grouped(x, (e \o y) \o z, e) /\ Grouped(e, y, z) /\ Grouped(e, y \o z, e)
      BY Zenon, <2>4, <3>1, Joins
    <3>3. QED
      BY Zenon, <3>2 DEF Grouped
  <2>6. TokensOf(<<a>> \o Append(q, t)) = x \o (e \o TokensOf(Append(q, t)))
    BY Zenon, <2>2, <2>3, <2>5
  <2>7. QED
    BY Zenon, <2>1, <2>6 DEF x, e
<1>4. Seq(Seq(Symbol)) \subseteq S
  <2> HIDE DEF S
  <2>1. QED
    BY <1>2, <1>3, ByAppend
<1>5. QED
  BY <1>4

\* The tokens of a piece that ends at the end of a statement.
LEMMA PieceStep ==
  ASSUME NEW s \in Seq(Symbol), NEW i \in 0..Len(s), i # Len(s), First(Rest(s, i)).kind # "error",
         NEW c \in (i + First(Rest(s, i)).size)..Len(s), c = Len(s) \/ s[c + 1] = Stop
  PROVE  Tokenize(Part(s, i, c)) = Emitted(First(Rest(s, i))) \o Tokenize(Part(s, i + First(Rest(s, i)).size, c))
<1> DEFINE r == Rest(s, i)
           k == First(r).size
           u == Part(s, i, c)
           n == c - i
<1>1. /\ r \in Seq(Symbol) /\ Len(r) = Len(s) - i /\ Len(r) > 0 /\ Len(s) \in Nat /\ i \in Nat
      /\ r = Part(s, i, Len(s))
  <2>1. i \in 0..Len(s) /\ Len(s) \in i..Len(s)
    OBVIOUS
  <2>2. r = Part(s, i, Len(s))
    BY <2>1, PartFacts
  <2>3. r \in Seq(Symbol) /\ Len(r) = Len(s) - i
    BY RestFacts
  <2> HIDE DEF r
  <2>4. QED
    BY <2>2, <2>3
<1>2. k \in 1..(Len(s) - i) /\ First(r).kind # "error"
  <2>1. First(r).kind # "error"
    OBVIOUS
  <2> HIDE DEF r
  <2>2. k \in 1..Len(r)
    BY <1>1, <2>1, FirstParts
  <2>3. QED
    BY <1>1, <2>1, <2>2
<1>3. c \in (i + k)..Len(s)
  OBVIOUS
<1> HIDE DEF r, k, n
<1>4. c \in i..Len(s) /\ n \in k..(Len(s) - i) /\ i + n = c /\ n \in Nat /\ k \in Nat /\ k # 0 /\ k <= n
  BY <1>1, <1>2, <1>3 DEF n
<1>5. u \in Seq(Symbol) /\ Len(u) = n
  BY <1>4, PartFacts DEF n
<1>6. u = Part(r, 0, n)
  <2>1. 0 \in 0..(Len(s) - i) /\ n \in 0..(Len(s) - i) /\ i + 0 = i /\ Len(s) \in i..Len(s)
    BY <1>1, <1>4
  <2>2. Part(Part(s, i, Len(s)), 0, n) = Part(s, i + 0, i + n)
    BY <2>1, PartOfPart
  <2>3. QED
    BY <1>1, <1>4, <2>1, <2>2
<1>7. First(u) = First(r)
  <2>1. CASE c = Len(s)
    BY <1>1, <2>1
  <2>2. CASE c # Len(s)
    <3>1. r[n + 1] = s[c + 1]
      <4>1. n + 1 \in 1..(Len(s) - i) /\ i + (n + 1) = c + 1 /\ Len(s) \in i..Len(s)
        BY <1>1, <1>4, <2>2
      <4>2. IsPart(Symbol, s, i, Len(s))
        BY Zenon, <4>1, PartGiven
      <4>3. Part(s, i, Len(s))[n + 1] = s[i + (n + 1)]
        BY Zenon, <4>1, <4>2 DEF IsPart
      <4>4. QED
        BY Zenon, <1>1, <4>1, <4>3
    <3>2. n < Len(r) /\ 0 < n
      BY <1>1, <1>4, <2>2
    <3>3. Cut(r, n)
      BY <2>2, <3>1, <3>2 DEF Cut
    <3>4. First(r).size <= n
      BY <1>4 DEF k
    <3>5. First(Part(r, 0, n)) = First(r)
      BY <1>1, <1>2, <1>4, <3>3, <3>4, FirstCut
    <3>6. QED
      BY <1>6, <3>5
  <2>3. QED
    BY <2>1, <2>2
<1>8. Rest(u, 0) = u /\ Rest(u, k) = Part(s, i + k, c)
  <2>1. Rest(u, 0) = u
    BY <1>5, RestFacts
  <2>2. k \in 0..Len(u) /\ Len(u) \in k..Len(u) /\ k \in 0..(c - i) /\ n \in k..(c - i)
    BY <1>4, <1>5 DEF n
  <2>3. Rest(u, k) = Part(u, k, n)
    BY <1>5, <2>2, PartFacts
  <2>4. Part(u, k, n) = Part(s, i + k, i + n)
    BY <1>4, <2>2, PartOfPart
  <2>5. QED
    BY <1>4, <2>1, <2>3, <2>4
<1> HIDE DEF u
<1>9. Tokenize(u) = Emitted(First(r)) \o Tokenize(Rest(u, k))
  <2>1. 0 \in 0..Len(u) /\ 0 # Len(u) /\ First(Rest(u, 0)).kind # "error" /\ 0 + First(Rest(u, 0)).size = k
    <3>1. 0 + k = k
      BY <1>4
    <3>2. QED
      BY <1>2, <1>4, <1>5, <1>7, <1>8, <3>1 DEF k
  <2>2. Tokenize(Rest(u, 0)) = Emitted(First(Rest(u, 0))) \o Tokenize(Rest(u, 0 + First(Rest(u, 0)).size))
    BY <1>5, <2>1, TokenizeStep
  <2>3. QED
    BY <1>7, <1>8, <2>1, <2>2
<1>10. QED
  BY <1>8, <1>9 DEF u, k, r

-----------------------------------------------------------------------------
\* Where a text starts with a semicolon, that is its first token.
LEMMA StopFirst ==
  ASSUME NEW s \in Seq(Symbol), NEW i \in 0..Len(s), i # Len(s), s[i + 1] = Stop, First(Rest(s, i)).kind # "error"
  PROVE  First(Rest(s, i)).size = 1 /\ Emitted(First(Rest(s, i))) = <<Semicolon>>
<1> DEFINE r == Rest(s, i)
           k == First(r).size
<1>1. r \in Seq(Symbol) /\ Len(r) > 0 /\ r[1] = Stop /\ First(r).kind # "error"
  <2>1. i \in 0..Len(s) /\ Len(s) \in i..Len(s) /\ 1 \in 1..(Len(s) - i)
    OBVIOUS
  <2>2. r = Part(s, i, Len(s)) /\ Part(s, i, Len(s))[1] = s[i + 1] /\ r \in Seq(Symbol) /\ Len(r) = Len(s) - i
    <3>1. IsPart(Symbol, s, i, Len(s))
      BY Zenon, <2>1, PartGiven
    <3>2. QED
      BY Zenon, <2>1, <3>1 DEF IsPart
  <2>3. First(r).kind # "error"
    OBVIOUS
  <2> HIDE DEF r
  <2>4. QED
    BY <2>2, <2>3
<1> HIDE DEF r
<1>2. k \in 1..Len(r) /\ Spells(r, k)
  BY <1>1, FirstParts
<1>3. First(r) = Item(r, "punct", 1)
  <2>1. ~Quiet(r, 1, k)
    <3>1. 1 \in 1..k
      BY <1>2
    <3>2. QED
      BY <1>1, <3>1 DEF Quiet
  <2>2. r[1] # Quote
    BY <1>1, CharFacts
  <2>3. r[1] \in {Quote, Stop}
    BY <1>1
  <2>4. QED
    BY Zenon, <1>2, <2>1, <2>2, <2>3 DEF Spells
<1>4. First(r).size = 1 /\ First(r).kind = "punct" /\ First(r).text = SubSeq(r, 1, 1)
  BY <1>3 DEF Item
<1>5. SubSeq(r, 1, 1) = <<Stop>>
  <2> DEFINE t == <<r[1]>>
  <2>1. /\ t \in Seq(Symbol) /\ Len(t) = 1 - 0 /\ t[1] = r[0 + 1] /\ 1..(1 - 0) = {1}
        /\ 0 \in 0..Len(r) /\ 1 \in 0..Len(r) /\ 0 + 1 = 1
    BY <1>1
  <2>2. t = <<Stop>>
    BY <1>1
  <2> HIDE DEF t
  <2>3. t = Part(r, 0, 1)
    BY <1>1, <2>1, PartIs
  <2>4. QED
    BY <2>1, <2>2, <2>3 DEF Part
<1>6. Emitted(First(r)) = <<Token("punct", <<Stop>>)>>
  BY <1>4, <1>5 DEF Emitted
<1>7. QED
  BY <1>4, <1>6 DEF Semicolon, r

\* The tokens of the statement that is read begin with X, and end with those behind i.
Begun(s, m, i, X) == \A c \in i..Len(s) : c = Len(s) \/ s[c + 1] = Stop
                       => Tokenize(Part(s, m, c)) = X \o Tokenize(Part(s, i, c))
\* What is added at the end.
Closing(s, m) == IF m < Len(s) /\ s[Len(s)] # Stop THEN <<Semicolon>> ELSE <<>>

LEMMA EmptyPart ==
  ASSUME NEW s \in Seq(Symbol), NEW i \in 0..Len(s)
  PROVE  Part(s, i, i) = <<>> /\ Tokenize(Part(s, i, i)) = <<>> /\ Part(s, i, i) \in Seq(Symbol)
<1>1. i \in i..Len(s)
  OBVIOUS
<1>2. Part(s, i, i) \in Seq(Symbol) /\ Len(Part(s, i, i)) = i - i
  BY <1>1, PartFacts
<1>3. \A S : \A q \in Seq(S) : Len(q) = 0 => q = <<>>
  OBVIOUS
<1>4. i - i = 0
  OBVIOUS
<1>5. Part(s, i, i) = <<>>
  BY <1>2, <1>3, <1>4
<1>6. Tokenize(<<>>) = <<>>
  <2>1. <<>> \in Seq(Symbol) /\ Len(<<>>) = 0 /\ 0 \in 0..Len(<<>>)
    OBVIOUS
  <2>2. Rest(<<>>, 0) = <<>> /\ Tokenize(Rest(<<>>, 0)) = <<>>
    BY <2>1, RestFacts, TokenizeStep
  <2>3. QED
    BY <2>2
<1>7. QED
  BY <1>2, <1>5, <1>6

\* Tokens that follow tokens without an error have none.
LEMMA ErrsBehind ==
  ASSUME NEW u \in Tokens, NEW w \in Tokens, ~Errs(u \o w)
  PROVE  ~Errs(w)
<1>1. u \in Seq(TokenSet) /\ w \in Seq(TokenSet)
  BY DEF Tokens
<1>2. ASSUME NEW k \in DOMAIN w PROVE w[k] = (u \o w)[Len(u) + k] /\ Len(u) + k \in DOMAIN (u \o w)
  <2>1. Len(u) \in Nat /\ Len(w) \in Nat /\ k \in 1..Len(w)
    BY <1>1
  <2>2. /\ u \o w \in Seq(TokenSet) /\ Len(u \o w) = Len(u) + Len(w)
        /\ \A j \in 1..(Len(u) + Len(w)) : (u \o w)[j] = IF j <= Len(u) THEN u[j] ELSE w[j - Len(u)]
    BY <1>1, ConcatProperties
  <2>3. Len(u) + k \in 1..(Len(u) + Len(w)) /\ ~(Len(u) + k <= Len(u)) /\ (Len(u) + k) - Len(u) = k
    BY <2>1
  <2> DEFINE x == u \o w
  <2> HIDE DEF x
  <2>4. QED
    BY <2>2, <2>3 DEF x
<1>3. QED
  BY Zenon, <1>2 DEF Errs

\* Of the rest of a script, from every state of the loop where no string is open.
LEMMA CutFrom ==
  ASSUME NEW s \in Seq(Symbol), NEW G, SplitsOn(s, G), NEW i \in 0..Len(s), NEW m \in 0..i, NEW X \in Tokens,
         ~Errs(Tokenize(Rest(s, i))), m = i \/ s[i] # Stop, Begun(s, m, i, X)
  PROVE  TokensOf(Shut(G, i, m)) = X \o (Tokenize(Rest(s, i)) \o Closing(s, m))
<1> DEFINE N == Len(s)
           T(j) == Tokenize(Rest(s, j))
           P(j) == \A n \in 0..j : \A Y \in Tokens :
                     ~Errs(T(j)) /\ (n = j \/ s[j] # Stop) /\ Begun(s, n, j, Y)
                       => TokensOf(Shut(G, j, n)) = Y \o (T(j) \o Closing(s, n))
           S == {j \in 0..N : P(j)}
<1>1. N \in Nat /\ \A j \in 0..N : T(j) \in Tokens
  <2>1. \A j \in 0..N : Rest(s, j) \in Seq(Symbol)
    BY RestFacts
  <2>2. QED
    BY <2>1, ReaderTypes
<1>2. <<>> \in Tokens /\ <<Semicolon>> \in Tokens /\ \A n : Closing(s, n) \in Tokens
  BY ReaderTypes DEF Closing
<1>3. ASSUME NEW j \in 0..N, NEW n \in 0..j, NEW Y \in Tokens, ~Errs(T(j)), n = j \/ s[j] # Stop, Begun(s, n, j, Y),
             \A h \in (j + 1)..N : P(h)
      PROVE  TokensOf(Shut(G, j, n)) = Y \o (T(j) \o Closing(s, n))
  <2>1. n \in 0..N /\ j \in Nat /\ n <= j /\ j <= N
    BY <1>1
  <2>2. Shut(G, j, n) = AtShut(s, G, j, n) /\ SplitMoves(s, G, j, n)
    BY <2>1, Moved
  <2>3. CASE j = N
    <3>1. T(j) = <<>>
      BY <2>3, TokenizeStep
    <3>2. Tokenize(Part(s, n, N)) = Y
      <4>1. N \in j..N
        BY <1>1, <2>3
      <4>2. Tokenize(Part(s, n, N)) = Y \o Tokenize(Part(s, j, N))
        BY <1>3, <4>1 DEF Begun
      <4>3. Tokenize(Part(s, j, N)) = <<>>
        BY <2>3, EmptyPart
      <4>4. QED
        BY <4>2, <4>3, JoinsNothing
    <3>3. CASE n = j
      <4>1. Shut(G, j, n) = <<>>
        BY Zenon, <2>2, <2>3, <3>3 DEF SplitMoves
      <4>2. Y = <<>>
        BY <2>3, <3>2, <3>3, EmptyPart
      <4>3. Closing(s, n) = <<>>
        BY <1>1, <2>3, <3>3 DEF Closing
      <4>4. <<>> \o (<<>> \o <<>>) = <<>>
        BY <1>2, JoinsNothing
      <4>5. QED
        BY <3>1, <4>1, <4>2, <4>3, <4>4, TokensSteps
    <3>4. CASE n # j
      <4>1. Shut(G, j, n) = <<Rest(s, n)>>
        BY Zenon, <2>2, <2>3, <3>4 DEF SplitMoves
      <4>2. Rest(s, n) \in Seq(Symbol) /\ Tokenize(Rest(s, n)) = Y
        <5>1. N \in n..N
          BY <1>1, <2>1
        <5>2. Rest(s, n) = Part(s, n, N) /\ Rest(s, n) \in Seq(Symbol)
          BY <2>1, <5>1, PartFacts, RestFacts
        <5>3. QED
          BY <3>2, <5>2
      <4>3. <<Rest(s, n)>> = Append(<<>>, Rest(s, n)) /\ <<>> \in Seq(Seq(Symbol))
        BY <4>2
      <4>4. TokensOf(<<Rest(s, n)>>) = (<<>> \o Y) \o <<Semicolon>>
        BY <4>2, <4>3, TokensSteps
      <4>5. Closing(s, n) = <<Semicolon>>
        BY <1>3, <2>1, <2>3, <3>4 DEF Closing
      <4>6. (<<>> \o Y) \o <<Semicolon>> = Y \o (<<>> \o <<Semicolon>>)
        BY <1>2, JoinsNothing
      <4>7. QED
        BY <3>1, <4>1, <4>4, <4>5, <4>6
    <3>5. QED
      BY <3>3, <3>4
  <2>4. CASE j # N
    <3> DEFINE r == Rest(s, j)
               k == First(r).size
               e == Emitted(First(r))
               h == j + k
    <3>1. First(r).kind # "error"
      <4>1. SUFFICES ASSUME First(r).kind = "error" PROVE FALSE
        OBVIOUS
      <4>2. T(j) = <<Token("error", <<>>)>>
        BY <2>4, <4>1, TokenizeStep
      <4>3. 1 \in DOMAIN <<Token("error", <<>>)>> /\ <<Token("error", <<>>)>>[1].kind = "error"
        BY DEF Token
      <4>4. Errs(T(j))
        BY Zenon, <4>2, <4>3 DEF Errs
      <4>5. QED
        BY <1>3, <4>4
    <3>2. h \in (j + 1)..N
      BY <2>4, <3>1, ItemFits
    <3>3. T(j) = e \o T(h)
      BY <2>4, <3>1, TokenizeStep
    <3>4. r \in Seq(Symbol) /\ Len(r) = N - j /\ e \in Tokens /\ k \in 1..(N - j) /\ Spells(r, k)
      <4>1. r \in Seq(Symbol) /\ Len(r) = N - j
        BY RestFacts
      <4>2. e \in Tokens
        BY <4>1, EmittedIs DEF Tokens
      <4>3. k \in 1..Len(r) /\ Spells(r, k)
        <5>1. Len(r) > 0
          BY <2>1, <2>4, <4>1
        <5> HIDE DEF r
        <5>2. QED
          BY <3>1, <4>1, <5>1, FirstParts
      <4> HIDE DEF r, k, e
      <4>4. QED
        BY <4>1, <4>2, <4>3
    <3> HIDE DEF T
    <3>5. h \in 0..N /\ T(h) \in Tokens /\ T(j) \in Tokens
      BY <1>1, <3>2
    <3>6. ~Errs(T(h))
      <4> HIDE DEF e, h
      <4>1. QED
        BY <1>3, <3>3, <3>4, <3>5, ErrsBehind
    <3>7. P(h)
      BY <1>3, <3>2
    <3>8. CASE s[j + 1] = Stop
      <4>1. k = 1 /\ e = <<Semicolon>>
        BY <2>4, <3>1, <3>8, StopFirst
      <4>2. h = j + 1
        BY <4>1
      <4> HIDE DEF k, e, h, r, P
      <4>3. Shut(G, j, n) = <<Part(s, n, j)>> \o Shut(G, h, h)
        BY Zenon, <2>2, <2>4, <3>8, <4>2 DEF SplitMoves
      <4>4. Part(s, n, j) \in Seq(Symbol) /\ Tokenize(Part(s, n, j)) = Y
        <5>1. j \in n..N /\ j \in j..N
          BY <2>1
        <5>2. Part(s, n, j) \in Seq(Symbol)
          BY <2>1, <5>1, PartFacts
        <5>3. Tokenize(Part(s, n, j)) = Y \o Tokenize(Part(s, j, j))
          BY <1>3, <3>8, <5>1 DEF Begun
        <5>4. Tokenize(Part(s, j, j)) = <<>>
          BY EmptyPart
        <5>5. QED
          BY <5>2, <5>3, <5>4, JoinsNothing
      <4>5. Shut(G, h, h) \in Seq(Seq(Symbol))
        BY <3>5, SplitsTyped
      <4>6. TokensOf(Shut(G, j, n)) = Y \o (<<Semicolon>> \o TokensOf(Shut(G, h, h)))
        BY <4>3, <4>4, <4>5, TokensFirst
      <4>7. TokensOf(Shut(G, h, h)) = T(h) \o Closing(s, h)
        <5>1. Begun(s, h, h, <<>>)
          <6>1. ASSUME NEW c \in h..N PROVE Tokenize(Part(s, h, c)) = <<>> \o Tokenize(Part(s, h, c))
            <7>1. Part(s, h, c) \in Seq(Symbol)
              BY <3>5, PartFacts
            <7>2. QED
              BY <7>1, JoinsNothing, ReaderTypes
          <6>2. QED
            BY <6>1 DEF Begun
        <5>2. h \in 0..h
          BY <3>5
        <5>3. TokensOf(Shut(G, h, h)) = <<>> \o (T(h) \o Closing(s, h))
          BY <1>2, <3>6, <3>7, <5>1, <5>2 DEF P
        <5>4. T(h) \o Closing(s, h) \in Tokens
          BY <1>2, <3>5, ReaderTypes
        <5>5. QED
          BY <5>3, <5>4, JoinsNothing
      <4>8. Closing(s, h) = Closing(s, n)
        <5>1. n < N /\ (h < N \/ (h = N /\ s[N] = Stop))
          BY <2>1, <2>4, <3>2, <3>8, <4>2
        <5>2. QED
          BY <5>1 DEF Closing
      <4>9. <<Semicolon>> \o (T(h) \o Closing(s, n)) = (<<Semicolon>> \o T(h)) \o Closing(s, n)
        <5>1. <<Semicolon>> \in Tokens /\ T(h) \in Tokens /\ Closing(s, n) \in Tokens
          BY <1>2, <3>5
        <5>2. Grouped(<<Semicolon>>, T(h), Closing(s, n))
          BY Zenon, <5>1, Joins
        <5>3. QED
          BY Zenon, <5>2 DEF Grouped
      <4>10. QED
        BY Zenon, <3>3, <4>1, <4>6, <4>7, <4>8, <4>9
    <3>9. CASE s[j + 1] # Stop
      <4>1. Shut(G, j, n) = Shut(G, h, n) /\ s[h] # Stop
        BY <2>1, <2>4, <3>4, <3>9, TokenMoves
      <4>2. Y \o e \in Tokens
        BY <3>4, ReaderTypes
      <4>3. Begun(s, n, h, Y \o e)
        <5>1. ASSUME NEW c \in h..N, c = N \/ s[c + 1] = Stop
              PROVE  Tokenize(Part(s, n, c)) = (Y \o e) \o Tokenize(Part(s, h, c))
          <6>1. Tokenize(Part(s, j, c)) = e \o Tokenize(Part(s, h, c))
            BY <2>4, <3>1, <5>1, PieceStep
          <6> HIDE DEF e, h
          <6>2. c \in j..N
            BY <2>1, <3>2
          <6>3. Tokenize(Part(s, n, c)) = Y \o Tokenize(Part(s, j, c))
            BY <1>3, <5>1, <6>2 DEF Begun
          <6>4. Tokenize(Part(s, h, c)) \in Tokens
            <7>1. Part(s, h, c) \in Seq(Symbol)
              BY <3>5, PartFacts
            <7>2. QED
              BY <7>1, ReaderTypes
          <6>5. Grouped(Y, e, Tokenize(Part(s, h, c)))
            BY Zenon, <3>4, <6>4, Joins
          <6>6. QED
            BY Zenon, <6>1, <6>3, <6>5 DEF Grouped
        <5> HIDE DEF e, h
        <5>2. QED
          BY <5>1 DEF Begun
      <4> HIDE DEF e, h, k, r, P
      <4>4. n \in 0..h
        BY <2>1, <3>2
      <4>5. TokensOf(Shut(G, h, n)) = (Y \o e) \o (T(h) \o Closing(s, n))
        BY <3>6, <3>7, <4>1, <4>2, <4>3, <4>4 DEF P
      <4>6. (Y \o e) \o (T(h) \o Closing(s, n)) = Y \o ((e \o T(h)) \o Closing(s, n))
        <5>1. T(h) \o Closing(s, n) \in Tokens
          BY <1>2, <3>5, ReaderTypes
        <5>2. e \in Tokens /\ T(h) \in Tokens /\ Closing(s, n) \in Tokens
          BY <1>2, <3>4, <3>5
        <5>3. Grouped(Y, e, T(h) \o Closing(s, n)) /\ Grouped(e, T(h), Closing(s, n))
          BY Zenon, <5>1, <5>2, Joins
        <5>4. QED
          BY Zenon, <5>3 DEF Grouped
      <4>7. QED
        BY Zenon, <3>3, <4>1, <4>5, <4>6
    <3>10. QED
      BY <3>8, <3>9
  <2>5. QED
    BY <2>3, <2>4
<1>4. ASSUME NEW j \in 0..N, \A h \in (j + 1)..N : h \in S PROVE j \in S
  <2>1. \A h \in (j + 1)..N : P(h)
    BY <1>4
  <2>2. P(j)
    <3> HIDE DEF T
    <3>1. QED
      BY Zenon, <1>3, <2>1
  <2>3. QED
    BY <2>2
<1>5. 0..N \subseteq S
  <2> HIDE DEF S
  <2>1. QED
    BY <1>1, <1>4, DownTo
<1>6. P(i)
  BY <1>5
<1>7. QED
  BY <1>6

(* cmd/sqldb cuts a script at the semicolons that are tokens, wherever strings *)
(* and blobs begin and end: the statements it runs one by one have the tokens  *)
(* that the whole script has, for every script that can be tokenized, however  *)
(* long (splitStatements against tokenize).                                   *)
THEOREM ScriptsAreCut == Spec => []ScriptsAreCutAtTokens
<1>1. ASSUME NEW s \in Seq(Symbol) PROVE SplitsAtTokens(s)
  <2>1. SUFFICES ASSUME ~Errs(Tokenize(s))
                 PROVE  TokensOf(SplitStatements(s)) = IF s # <<>> /\ Last(s) # Stop THEN Append(Tokenize(s), Semicolon)
                                                       ELSE Tokenize(s)
    BY Zenon DEF SplitsAtTokens
  <2>2. PICK G : SplitsOn(s, G) /\ SplitStatements(s) = Shut(G, 0, 0)
    BY SplitIs
  <2>3. Rest(s, 0) = s /\ 0 \in 0..Len(s) /\ 0 \in 0..0 /\ Tokenize(s) \in Tokens /\ <<>> \in Tokens
    BY RestFacts, ReaderTypes
  <2>4. Begun(s, 0, 0, <<>>)
    <3>1. ASSUME NEW c \in 0..Len(s) PROVE Tokenize(Part(s, 0, c)) = <<>> \o Tokenize(Part(s, 0, c))
      <4>1. Part(s, 0, c) \in Seq(Symbol)
        BY <2>3, PartFacts
      <4>2. QED
        BY <4>1, JoinsNothing, ReaderTypes
    <3>2. QED
      BY <3>1 DEF Begun
  <2>5. TokensOf(Shut(G, 0, 0)) = <<>> \o (Tokenize(s) \o Closing(s, 0))
    <3>1. ~Errs(Tokenize(Rest(s, 0)))
      BY Zenon, <2>1, <2>3
    <3>2. TokensOf(Shut(G, 0, 0)) = <<>> \o (Tokenize(Rest(s, 0)) \o Closing(s, 0))
      BY Zenon, <2>2, <2>3, <2>4, <3>1, CutFrom
    <3>3. QED
      BY Zenon, <2>3, <3>2
  <2>6. Closing(s, 0) = IF s # <<>> /\ Last(s) # Stop THEN <<Semicolon>> ELSE <<>>
    <3>1. s # <<>> <=> 0 < Len(s)
      OBVIOUS
    <3>2. QED
      BY <3>1 DEF Closing, Last
  <2>7. Closing(s, 0) \in Tokens
    BY ReaderTypes DEF Closing
  <2>8. TokensOf(SplitStatements(s)) = Tokenize(s) \o Closing(s, 0)
    <3>1. Tokenize(s) \o Closing(s, 0) \in Tokens
      BY <2>3, <2>7, ReaderTypes
    <3>2. QED
      BY <2>2, <2>5, <3>1, JoinsNothing
  <2>9. Tokenize(s) \o <<>> = Tokenize(s) /\ Tokenize(s) \o <<Semicolon>> = Append(Tokenize(s), Semicolon)
    <3>1. Tokenize(s) \in Seq(TokenSet) /\ Semicolon \in TokenSet
      BY <2>3 DEF Tokens, TokenSet
    <3>2. QED
      BY <3>1, ConcatEmptySeq, AppendIsConcat
  <2>10. QED
    BY Zenon, <2>6, <2>8, <2>9
<1>2. TextType => ScriptsAreCutAtTokens
  BY <1>1 DEF TextType, ScriptsAreCutAtTokens
<1>3. QED
  BY <1>2, TextsTyped, PTL
=============================================================================

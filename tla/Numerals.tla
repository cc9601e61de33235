------------------------------- MODULE Numerals ------------------------------
(***************************************************************************)
(* The numeral at the start of a text: parseLeadingInt and                  *)
(* parseLeadingNumber of internal/engine/value.go.  A text is a sequence of *)
(* characters; the numbers are those of module Numbers, with MaxPower for   *)
(* the limit of 10000 that the code sets to an exponent and for the powers   *)
(* of ten that math.Pow10 has.                                              *)
(***************************************************************************)
EXTENDS Numbers, SequencesExt

CONSTANT MaxPower  \* bound: the largest power of ten

ASSUME PowerAssumption == MaxPower \in Nat /\ 10^MaxPower > Infinity

Numeral == <<"0", "1", "2", "3", "4", "5", "6", "7", "8", "9">>
DigitOf == [c \in {Numeral[k] : k \in 1..10} |-> (CHOOSE k \in 1..10 : Numeral[k] = c) - 1]
Digit == DOMAIN DigitOf
Space == {" "}

\* How many characters at the start of s are in chars.
Span(s, chars) == CHOOSE n \in 0..Len(s) : /\ \A k \in 1..n : s[k] \in chars
                                           /\ n = Len(s) \/ s[n + 1] \notin chars
From(s, n) == SubSeq(s, n + 1, Len(s))
Unsigned(s) == IF s # <<>> /\ Head(s) \in {"-", "+"} THEN Tail(s) ELSE s
Negative(s) == s # <<>> /\ Head(s) = "-"
Decimal(digits) == FoldLeft(LAMBDA n, c : 10 * n + DigitOf[c], 0, digits)

(* parseLeadingInt: -1 no digits, 0 an integer, 1 one and more text, 2 out  *)
(* of range, 3 just out of range.                                          *)
ParseLeadingInt_Slip(s) ==
  LET t == From(s, Span(s, Space))
      u == Unsigned(t)
      k == Span(u, Digit)
      n == Decimal(SubSeq(u, 1, k))
  IN  IF n > MaxInt THEN [int |-> IF Negative(t) THEN MinInt ELSE MaxInt, status |-> 2]
      ELSE [int |-> IF Negative(t) THEN -n ELSE n, status |-> IF k = 0 THEN -1 ELSE 0]
ParseLeadingInt(s) ==
  LET t == From(s, Span(s, Space))
      u == Unsigned(t)
      k == Span(u, Digit)
      n == Decimal(SubSeq(u, 1, k))
      fits == IF k = 0 THEN -1 ELSE IF Range(From(u, k)) \subseteq Space THEN 0 ELSE 1
  IN  IF Negative(t)
        THEN IF -n >= MinInt THEN [int |-> -n, status |-> fits] ELSE [int |-> MinInt, status |-> 2]
        ELSE IF n <= MaxInt THEN [int |-> n, status |-> fits]
             ELSE [int |-> MaxInt, status |-> IF n = MaxInt + 1 THEN 3 ELSE 2]

(* The digits that are kept, up to what a uint64 holds, and the power of   *)
(* ten they are to be multiplied by.                                       *)
Kept(sig) == sig < (2^Bits - 1 - 9) \div 10
Significand_Slip(whole, fraction) ==
  [sig |-> FoldLeft(LAMBDA sig, c : IF Kept(sig) THEN 10 * sig + DigitOf[c] ELSE sig, 0, whole \o fraction),
   power |-> -Len(fraction)]
Significand(whole, fraction) ==
  LET more(acc, c, dropped, kept) ==
        IF Kept(acc.sig) THEN [sig |-> 10 * acc.sig + DigitOf[c], power |-> acc.power + kept]
                         ELSE [acc EXCEPT !.power = @ + dropped]
      w == FoldLeft(LAMBDA acc, c : more(acc, c, 1, 0), [sig |-> 0, power |-> 0], whole)
  IN  FoldLeft(LAMBDA acc, c : more(acc, c, 0, -1), w, fraction)

\* An exponent that is written, before the digits shift it.
Limited(exponent) == IF exponent > MaxPower THEN MaxPower ELSE exponent

\* math.Pow10: a real, for a negative power the nearest multiple of a small 2^-k,
\* and 0 below the last.
TenTo(power) ==
  LET k == CHOOSE k \in 0..(4 * MaxPower + Mantissa) : 10^(-power) * 2^(Mantissa - 1) <= 2^k
                                                       /\ 2^k < 10^(-power) * 2^Mantissa
  IN  IF power >= 0 THEN [times |-> Nearest(One * 10^power, 1), over |-> One]
      ELSE IF power < -MaxPower THEN [times |-> 0, over |-> One]
      ELSE [times |-> (2 * 2^k + 10^(-power)) \div (2 * 10^(-power)), over |-> 2^k]

\* float64(sig) * math.Pow10(power): every one of the three is rounded.
Scaled(sig, power) ==
  LET ten == TenTo(power)
  IN  IF sig = 0 THEN 0
      ELSE IF ten.times = Infinity THEN Infinity
      ELSE Nearest(Nearest(One * sig, 1) * ten.times, ten.over)

\* A numeral has digits, a fraction and an exponent; each leaves the rest of the text.
Digits(s) == [digits |-> SubSeq(s, 1, Span(s, Digit)), rest |-> From(s, Span(s, Digit)),
              there |-> TRUE, down |-> FALSE]
Missing(s) == [digits |-> <<>>, rest |-> s, there |-> FALSE, down |-> FALSE]
Fraction(s) == IF s # <<>> /\ Head(s) = "." THEN Digits(Tail(s)) ELSE Missing(s)
Exponent(s) == IF s # <<>> /\ Head(s) = "e"
                 THEN [Digits(Unsigned(Tail(s))) EXCEPT !.down = Negative(Tail(s))] ELSE Missing(s)

(* parseLeadingNumber: 0 not a number, 1 an integer, 2 or 3 a real, -1 a    *)
(* real and more text.                                                      *)
RealOf(sign, number, power) == sign * Scaled(number.sig, power + number.power)
StatusOf(whole, fraction, exponent) ==
  LET type  == (IF fraction.there THEN 1 ELSE 0) + (IF exponent.there THEN 1 ELSE 0)
      valid == exponent.there => exponent.digits # <<>>
  IN  IF whole = <<>> /\ fraction.digits = <<>> THEN 0
      ELSE IF valid /\ Range(exponent.rest) \subseteq Space THEN 1 + type
      ELSE IF type = 2 \/ (type = 1 /\ valid) THEN -1 ELSE 0
NumberOf(sign, whole, fraction, exponent) ==
  LET status == StatusOf(whole, fraction, exponent)
  IN  [status |-> status,
       real |-> IF status = 0 THEN 0
                ELSE RealOf(sign, Significand(whole, fraction.digits),
                            (IF exponent.down THEN -1 ELSE 1) * Limited(Decimal(exponent.digits)))]
ParseLeadingNumber(s) ==
  LET t        == From(s, Span(s, Space))
      whole    == Digits(Unsigned(t))
      fraction == Fraction(whole.rest)
  IN  NumberOf(IF Negative(t) THEN -1 ELSE 1, whole.digits, fraction, Exponent(fraction.rest))

\* strconv.FormatInt.
DigitsOf[n \in 0..(-MinInt)] == IF n < 10 THEN <<Numeral[n + 1]>>
                                ELSE Append(DigitsOf[n \div 10], Numeral[(n % 10) + 1])
FormatInt(i) == (IF i < 0 THEN <<"-">> ELSE <<>>) \o DigitsOf[Abs(i)]

-----------------------------------------------------------------------------
(* The grammar of numerals: blanks, a sign, digits with or without a point, *)
(* an exponent, blanks; and what a numeral says.                            *)
Moves == {<<"start", "blank", "start">>, <<"start", "sign", "signed">>,
          <<"e", "sign", "esign">>, <<"whole", "point", "fraction">>}
  \union {<<p, "digit", "whole">> : p \in {"start", "signed", "whole"}}
  \union {<<p, "point", "point">> : p \in {"start", "signed"}}
  \union {<<p, "digit", "fraction">> : p \in {"point", "fraction"}}
  \union {<<p, "e", "e">> : p \in {"whole", "fraction"}}
  \union {<<p, "digit", "power">> : p \in {"e", "esign", "power"}}
  \union {<<p, "blank", "end">> : p \in {"whole", "fraction", "power", "end"}}
ClassOf(c) == IF c \in Digit THEN "digit"
              ELSE CASE c \in {"-", "+"} -> "sign" [] c = "." -> "point" [] c = "e" -> "e"
                     [] c \in Space -> "blank" [] OTHER -> "other"
Onward(at, class) ==
  LET to == {m[3] : m \in {mv \in Moves : mv[1] = at /\ mv[2] = class}}
  IN  IF to = {} THEN "none" ELSE CHOOSE p \in to : TRUE
ReadOn(r, c) ==
  LET at == Onward(r.at, ClassOf(c))
  IN  CASE at = "signed" -> [r EXCEPT !.at = at, !.negative = c = "-"]
        [] at = "esign" -> [r EXCEPT !.at = at, !.down = c = "-"]
        [] at = "power" -> [r EXCEPT !.at = at, !.power = Append(@, c)]
        [] at = "fraction" /\ c \in Digit ->
             [r EXCEPT !.at = at, !.digits = Append(@, c), !.places = @ + 1]
        [] at = "whole" -> [r EXCEPT !.at = at, !.digits = Append(@, c)]
        [] OTHER -> [r EXCEPT !.at = at, !.integer = @ /\ at \in {"start", "end"}]
Unread == [at |-> "start", negative |-> FALSE, digits |-> <<>>, places |-> 0,
           power |-> <<>>, down |-> FALSE, integer |-> TRUE]
Reading(s) == FoldLeft(ReadOn, Unread, s)
IsNumeral(r) == r.at \in {"whole", "fraction", "power", "end"}
Said(r) == (IF r.negative THEN -1 ELSE 1) * Decimal(r.digits)
SaidRounded(r) ==
  LET power == (IF r.down THEN -1 ELSE 1) * Limited(Decimal(r.power)) - r.places
  IN  IF power >= 0 THEN Nearest(One * Said(r) * 10^power, 1) ELSE Nearest(One * Said(r), 10^(-power))
=============================================================================

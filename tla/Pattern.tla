------------------------------- MODULE Pattern -------------------------------
(***************************************************************************)
(* LIKE and GLOB: patternCompare of internal/engine/value.go.  Patterns and *)
(* strings are sequences of characters, of which those up to a position have *)
(* been read.                                                               *)
(***************************************************************************)
EXTENDS Integers, Sequences, FiniteSets

CONSTANTS
  Code(_),   \* the code point of a character
  Lower(_)   \* toLower

None == "no character"
\* likeMatch and globMatch: the wildcards, case folding, the escape or "[".
Like(escape) == [all |-> "%", one |-> "_", noCase |-> TRUE, other |-> escape, class |-> FALSE]
Glob == [all |-> "*", one |-> "?", noCase |-> FALSE, other |-> "[", class |-> TRUE]

\* runeEqual
RuneEqual(l, a, b) == a = b \/ (l.noCase /\ Lower(a) = Lower(b))

ClassStep(st, cc, c, ahead) ==
  IF st.range THEN [seen |-> st.seen \/ (Code(st.prior) <= Code(cc) /\ Code(cc) <= Code(c)),
                    prior |-> None, range |-> FALSE]
  ELSE IF c = "-" /\ st.prior # None /\ ahead \notin {None, "]"} THEN [st EXCEPT !.range = TRUE]
  ELSE [st EXCEPT !.seen = @ \/ cc = c, !.prior = c]
Class(p, i, cc) ==
  LET invert == i < Len(p) /\ p[i + 1] = "^"
      start  == IF invert THEN i + 1 ELSE i
      first  == start < Len(p) /\ p[start + 1] = "]"
      from   == IF first THEN start + 1 ELSE start
      scan[k \in from..Len(p)] ==
        IF k = from THEN [seen |-> first /\ cc = "]", prior |-> None, range |-> FALSE]
        ELSE ClassStep(scan[k - 1], cc, p[k], IF k = Len(p) THEN None ELSE p[k + 1])
      closing == {k \in (from + 1)..Len(p) : p[k] = "]"}
      close   == CHOOSE k \in closing : \A m \in closing : k <= m
  IN  [at |-> IF closing = {} THEN Len(p) ELSE close - 1,
       matches |-> closing # {} /\ scan[close - 1].seen # invert]

\* The wildcards of p behind i: they stand for at least this many characters.
Wildcards(l, p, i) == CHOOSE n \in 0..(Len(p) - i) :
                        /\ \A k \in 1..n : p[i + k] \in {l.all, l.one}
                        /\ i + n = Len(p) \/ p[i + n + 1] \notin {l.all, l.one}
Ones(l, p, i) == Cardinality({k \in 1..Wildcards(l, p, i) : p[i + k] = l.one})

(* patternCompare of what is behind i in p and behind j in s, by what it     *)
(* says of the rest.  The character after an escape that follows a wildcard *)
(* is searched for and then compared as any other; after a class the        *)
(* comparison goes on at the closing bracket.                               *)
AfterAll_Slip(l, p, s, matches, i, j) ==
  LET next == i + Wildcards(l, p, i)
  IN  next = Len(p) \/ \E k \in j..(Len(s) - 1) : /\ RuneEqual(l, s[k + 1], p[next + 1])
                                                 /\ matches[<<next, k>>]
AfterAll(l, p, s, matches, i, j) ==
  LET n    == j + Ones(l, p, i)
      next == i + Wildcards(l, p, i)
      from == IF next < Len(p) /\ p[next + 1] = l.other /\ ~l.class THEN next + 1 ELSE next
  IN  /\ n <= Len(s)
      /\ \/ next = Len(p)
         \/ /\ from < Len(p)
            /\ \E k \in n..(Len(s) - 1) :
                 /\ \/ l.class /\ p[from + 1] = l.other
                    \/ RuneEqual(l, s[k + 1], p[from + 1])
                 /\ matches[<<from, k>>]
CompareAt(l, p, s, matches, i, j) ==
  IF i = Len(p) THEN j = Len(s)
  ELSE IF p[i + 1] = l.all THEN AfterAll(l, p, s, matches, i + 1, j)
  ELSE IF j = Len(s) THEN FALSE
  ELSE IF p[i + 1] = l.other /\ l.class
    THEN LET class == Class(p, i + 1, s[j + 1])
         IN  class.matches /\ matches[<<class.at, j + 1>>]
  ELSE IF p[i + 1] = l.other
    THEN i + 1 < Len(p) /\ RuneEqual(l, p[i + 2], s[j + 1]) /\ matches[<<i + 2, j + 1>>]
  ELSE (RuneEqual(l, p[i + 1], s[j + 1]) \/ p[i + 1] = l.one) /\ matches[<<i + 1, j + 1>>]
Positions(p, s) == (0..Len(p)) \X (0..Len(s))
PatternCompare(l, p, s) ==
  LET matches[x \in Positions(p, s)] == CompareAt(l, p, s, matches, x[1], x[2])
  IN  matches[<<0, 0>>]

-----------------------------------------------------------------------------
(* What a pattern means.  Its items take any number of characters or one,   *)
(* of those that the item at i has; the item ends at ItemEnd.               *)
ClassEnds(p, i) == {k \in (i + 3)..Len(p) : p[k] = "]" /\ (p[i + 2] # "^" \/ k > i + 3)}
ItemEnd(l, p, i) ==
  IF p[i + 1] # l.other THEN i + 1
  ELSE IF l.class
    THEN IF ClassEnds(p, i) = {} THEN i + 1 ELSE CHOOSE k \in ClassEnds(p, i) : \A m \in ClassEnds(p, i) : k <= m
  ELSE IF i + 1 = Len(p) THEN i + 1 ELSE i + 2
\* A dash between two characters is a range, unless a range or "]" is before it.
Lists(inside, d) ==
  LET range[k \in 0..Len(inside)] ==
        /\ 1 < k /\ k < Len(inside) /\ inside[k] = "-"
        /\ inside[1] = "]" => k > 2
        /\ ~range[k - 1] /\ ~range[k - 2]
  IN  \E k \in DOMAIN inside :
        \/ inside[k] = d /\ ~range[k] /\ ~range[k - 1]
        \/ range[k] /\ Code(inside[k - 1]) <= Code(d) /\ Code(d) <= Code(inside[k + 1])
Takes(l, p, i, d) ==
  IF p[i + 1] = l.one THEN TRUE
  ELSE IF p[i + 1] # l.other THEN RuneEqual(l, p[i + 1], d)
  ELSE IF l.class
    THEN /\ ClassEnds(p, i) # {}
         /\ Lists(SubSeq(p, IF p[i + 2] = "^" THEN i + 3 ELSE i + 2, ItemEnd(l, p, i) - 1), d) # (p[i + 2] = "^")
  ELSE i + 1 < Len(p) /\ RuneEqual(l, p[i + 2], d)

MeansAt(l, p, s, means, i, j) ==
  IF i = Len(p) THEN j = Len(s)
  ELSE IF p[i + 1] = l.all THEN \E k \in j..Len(s) : means[<<i + 1, k>>]
  ELSE j < Len(s) /\ Takes(l, p, i, s[j + 1]) /\ means[<<ItemEnd(l, p, i), j + 1>>]
Means(l, p, s) ==
  LET means[x \in Positions(p, s)] == MeansAt(l, p, s, means, x[1], x[2])
  IN  means[<<0, 0>>]

\* The same, if the closing bracket of a class stood for itself, too.
MeansWithBrackets(p, s) ==
  LET class(i) == i < Len(p) /\ p[i + 1] = "[" /\ ClassEnds(p, i) # {}
      means[x \in Positions(p, s)] ==
        IF ~class(x[1]) THEN MeansAt(Glob, p, s, means, x[1], x[2])
        ELSE /\ x[2] < Len(s) /\ Takes(Glob, p, x[1], s[x[2] + 1])
             /\ means[<<ItemEnd(Glob, p, x[1]) - 1, x[2] + 1>>]
  IN  means[<<0, 0>>]
=============================================================================

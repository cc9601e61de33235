------------------------------- MODULE MCTexts -------------------------------
(* Small alphabets and lengths for every language; integers of 8 bits and    *)
(* reals of 3.                                                              *)
EXTENDS Grammars

MCCode(c) == CASE c = "%" -> 37 [] c = "*" -> 42 [] c = "-" -> 45 [] c = "?" -> 63 [] c = "A" -> 65
               [] c = "[" -> 91 [] c = "\\" -> 92 [] c = "]" -> 93 [] c = "^" -> 94 [] c = "_" -> 95
               [] c = "a" -> 97
MCLower(c) == IF c = "A" THEN "a" ELSE c
MCSubject == UNION {[1..n -> {"a", "A", "%"}] : n \in 0..3}
  \union {s \o <<"]">> : s \in UNION {[1..n -> {"a", "A", "-", "]"}] : n \in 1..2}}

MCAtom == {"a", "1", "NULL", "2^63", "9.22e18", "2^64", "1.84e19", "0.30000000000000004", "0.3"}
MCPrinted == [c \in MCAtom \ {"a"} |->
  CASE c = "2^63" -> "9.22e18" [] c = "2^64" -> "1.84e19" [] c = "0.30000000000000004" -> "0.3"
    [] OTHER -> c]

MCLetter == {"a", "e", "x"}
MCFigure == {"1"}
MCHexDigit == {"a", "e", "1"}
MCOpChar == {"<", "=", "-"}

Statement(wantsError) == [kind |-> "statement", wantsError |-> wantsError]
Query(wantsError, sort) == [kind |-> "query", wantsError |-> wantsError, sort |-> sort, columns |-> 1]
MCHeader == [h \in {"statement ok", "statement error", "query T", "query T rowsort", "query error"} |->
  CASE h = "statement ok" -> Statement(FALSE)
    [] h = "statement error" -> Statement(TRUE)
    [] h = "query T" -> Query(FALSE, "nosort")
    [] h = "query T rowsort" -> Query(FALSE, "rowsort")
    [] h = "query error" -> Query(TRUE, "nosort")]
MCAnswer == [sql \in {<<"two">>} |-> <<<<"2">>, <<"1">>>>]
MCUnsupported == {<<"join">>}
MCHashOf == [h \in {"hash"} |-> <<"1", "2">>]
MCBefore(a, b) == a = "1" /\ b = "2"

MCSeed == [l \in Language |-> IF l = "expression"
  THEN {<<"a">>, <<"TRUE">>, <<"2^63">>, <<"2^64">>, <<"0.30000000000000004">>} ELSE {<<>>}]
Symbols(chars) == {<<<<>>, <<c>>>> : c \in chars}
MCPiece == [l \in Language |->
  CASE l = "numeral" -> Symbols({" ", "-", "0", "1", "2", "8", ".", "e", "x"})
    [] l = "like" -> Symbols({"a", "A", "%", "_", "\\"})
    [] l = "glob" -> Symbols({"a", "A", "*", "?", "[", "]", "-", "^"})
    [] l = "statements" -> Symbols({"a", "x", "e", "1", ".", "'", ";", " ", "<", "="})
    [] l = "expression" ->
         {<<<<>>, <<op, "1">>>> : op \in {"OR", "AND", "=", "IS", "+", "*", "LIKE"}}
         \union {<<<<"1", op>>, <<>>>> : op \in {"OR", "AND", "<", "-", "/", "GLOB"}}
         \union {<<<<op>>, <<>>>> : op \in {"NOT", "-", "+"}}
         \union {<<<<>>, <<"IS", "NOT", "NULL">>>>, <<<<"(">>, <<")">>>>,
                 <<<<>>, <<"NOT", "IN", "(", "1", ",", "a", ")">>>>, <<<<"a", "IN", "(">>, <<")">>>>,
                 <<<<>>, <<"BETWEEN", "a", "AND", "1">>>>, <<<<"a", "NOT", "BETWEEN">>, <<"AND", "1">>>>,
                 <<<<"a", "BETWEEN", "1", "AND">>, <<>>>>, <<<<>>, <<"NOT", "LIKE", "a", "ESCAPE", "1">>>>,
                 <<<<"CAST", "(">>, <<"AS", "TEXT", ")">>>>, <<<<"CAST", "(">>, <<"AS", "NUMERIC", ")">>>>,
                 <<<<"SUM", "(", "DISTINCT">>, <<")">>>>, <<<<"COUNT", "(", "*", ")", "+">>, <<>>>>}
    [] l = "file" ->
         {<<<<>>, t>> : t \in {<<"">>, <<"#">>, <<"halt">>, <<"skipif">>, <<"two">>, <<"hash">>,
           <<"----", "1", "2">>, <<"----">>,
           <<"statement ok", "two">>, <<"statement ok", "bad">>, <<"statement ok", "join">>,
           <<"statement error", "bad">>, <<"statement error", "two">>, <<"query T", "two">>,
           <<"query T rowsort", "two">>, <<"query error", "bad">>, <<"query error", "join">>}}]
MCMaxPieces == [l \in Language |-> CASE l \in {"numeral", "like", "glob", "statements"} -> 5
                                     [] l = "file" -> 4
                                     [] l = "expression" -> 3]

\* Expressions only, of few pieces.
ColumnSeed == [l \in Language |-> IF l = "expression" THEN {<<"a">>} ELSE {}]
NotPiece == [l \in Language |->
  {<<<<"NOT">>, <<>>>>, <<<<"(">>, <<")">>>>, <<<<"1", "=">>, <<>>>>}]
=============================================================================

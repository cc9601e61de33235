------------------------------ MODULE Statements -----------------------------
(***************************************************************************)
(* The text of statements: tokenize of internal/engine/parser.go, and       *)
(* splitStatements of cmd/sqldb/main.go, which cuts a script into the       *)
(* statements before any of them is tokenized.                              *)
(***************************************************************************)
EXTENDS Integers, SequencesExt

CONSTANTS Letter, Figure, HexDigit, OpChar   \* sets of characters

Quote == "'"
Stop == ";"
Punct == {"(", ")", ",", ".", Stop}
ASSUME CharAssumption == (Letter \union Figure \union HexDigit \union OpChar) \cap {Quote, Stop} = {}

Token(kind, text) == [kind |-> kind, text |-> text]
Rest(s, n) == SubSeq(s, n + 1, Len(s))
\* The last position from i on up to which all characters behind i are in chars.
EndOf(s, i, chars) == CHOOSE n \in i..Len(s) : /\ \A k \in (i + 1)..n : s[k] \in chars
                                               /\ n = Len(s) \/ s[n + 1] \notin chars

\* The closing quote of a string, 0 if there is none; '' stands for a quote.
StringEnd(s) ==
  LET end[n \in 1..(Len(s) + 1)] == IF n = Len(s) + 1 THEN 0
                                    ELSE IF s[n] # Quote THEN end[n + 1]
                                    ELSE IF n < Len(s) /\ s[n + 1] = Quote THEN end[n + 2] ELSE n
  IN  end[2]
Unquoted(s) ==
  LET text[n \in 1..(Len(s) + 1)] == IF n = Len(s) + 1 THEN <<>>
                                     ELSE <<s[n]>> \o text[IF s[n] = Quote THEN n + 2 ELSE n + 1]
  IN  text[1]

\* The characters of a number: digits and points, and an exponent with digits.
NumberEnd(s) ==
  LET n == EndOf(s, 0, Figure \union {"."})
      x == IF n + 1 < Len(s) /\ s[n + 2] \in {"+", "-"} THEN n + 2 ELSE n + 1
  IN  IF n < Len(s) /\ s[n + 1] = "e" /\ EndOf(s, x, Figure) > x THEN EndOf(s, x, Figure) ELSE n

\* What a text starts with: a blank, an error or a token.
First(s) ==
  LET item(kind, n) == [kind |-> kind, text |-> SubSeq(s, 1, n), size |-> n]
      error     == item("error", 0)
      next(set) == Len(s) > 1 /\ s[2] \in set
      blob      == EndOf(s, 2, STRING \ {Quote})
      bytes     == SubSeq(s, 3, blob)
      string    == StringEnd(s)
  IN  IF s[1] = "x" /\ next({Quote})
        THEN IF blob = Len(s) \/ Len(bytes) % 2 = 1 \/ ~(Range(bytes) \subseteq HexDigit) THEN error
             ELSE [kind |-> "blob", text |-> bytes, size |-> blob + 1]
      ELSE IF s[1] = " " THEN item("blank", 1)
      ELSE IF s[1] = Quote
        THEN IF string = 0 THEN error
             ELSE [kind |-> "string", text |-> Unquoted(SubSeq(s, 2, string - 1)), size |-> string]
      ELSE IF s[1] \in Figure \/ (s[1] = "." /\ next(Figure)) THEN item("number", NumberEnd(s))
      ELSE IF s[1] \in Letter THEN item("ident", EndOf(s, 1, Letter \union Figure))
      ELSE IF s[1] \in Punct THEN item("punct", 1)
      ELSE IF s[1] \in OpChar
        THEN item("op", IF \/ s[1] \in {"<", ">", "!", "="} /\ next({"="})
                           \/ s[1] = "<" /\ next({">"}) THEN 2 ELSE 1)
      ELSE error

\* tokenize: the tokens, or a last one of kind "error".
Tokenize(s) ==
  LET tokens[i \in 0..Len(s)] ==
        LET t == First(Rest(s, i))
        IN  IF i = Len(s) THEN <<>>
            ELSE IF t.kind = "error" THEN <<Token("error", <<>>)>>
            ELSE (IF t.kind = "blank" THEN <<>> ELSE <<Token(t.kind, t.text)>>) \o tokens[i + t.size]
  IN  tokens[0]

(* splitStatements behind i: the statement being read begins behind from,   *)
(* inStr is whether a string is open.                                        *)
LoopStates(s) == (0..Len(s)) \X (0..Len(s)) \X BOOLEAN
SplitAt_Slip(s, statements, i, from, inStr) ==
  IF i = Len(s) THEN IF from = i THEN <<>> ELSE <<Rest(s, from)>>
  ELSE IF s[i + 1] = Stop THEN <<SubSeq(s, from + 1, i)>> \o statements[<<i + 1, i + 1, inStr>>]
  ELSE statements[<<i + 1, from, inStr>>]
SplitAt(s, statements, i, from, inStr) ==
  IF i = Len(s) THEN IF from = i THEN <<>> ELSE <<Rest(s, from)>>
  ELSE IF inStr
    THEN IF s[i + 1] = Quote /\ i + 1 < Len(s) /\ s[i + 2] = Quote THEN statements[<<i + 2, from, TRUE>>]
         ELSE statements[<<i + 1, from, s[i + 1] # Quote>>]
  ELSE IF s[i + 1] = Stop THEN <<SubSeq(s, from + 1, i)>> \o statements[<<i + 1, i + 1, FALSE>>]
  ELSE statements[<<i + 1, from, s[i + 1] = Quote>>]
SplitStatements(s) ==
  LET statements[x \in LoopStates(s)] == SplitAt(s, statements, x[1], x[2], x[3])
  IN  statements[<<0, 0, FALSE>>]

-----------------------------------------------------------------------------
(* Every statement of a script that can be tokenized as a whole has exactly *)
(* the tokens that it has in the script.                                    *)
Semicolon == Token("punct", <<Stop>>)
Errs(tokens) == \E k \in DOMAIN tokens : tokens[k].kind = "error"
TokensOf(texts) == FoldLeft(LAMBDA ts, t : ts \o Tokenize(t) \o <<Semicolon>>, <<>>, texts)
SplitsAtTokens(s) ==
  ~Errs(Tokenize(s)) =>
    TokensOf(SplitStatements(s)) = IF s # <<>> /\ Last(s) # Stop THEN Append(Tokenize(s), Semicolon)
                                   ELSE Tokenize(s)
=============================================================================

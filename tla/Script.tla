-------------------------------- MODULE Script -------------------------------
(***************************************************************************)
(* The sqllogictest runner (internal/sqllogictest): ParseFile cuts a file    *)
(* into records, runRecord judges each of them by what the engine answers,  *)
(* RunFile counts the verdicts.  A line is one of a few kinds; the md5 of a  *)
(* hash line is the values it is the md5 of.                                 *)
(***************************************************************************)
EXTENDS Integers, SequencesExt

CONSTANTS
  Header,       \* first lines of records -> kind, wantsError, sort mode, number of columns
  Answer,       \* SQL texts that succeed -> the rows of their result
  Unsupported,  \* SQL texts refused with an UnsupportedError; any other fails
  HashOf,       \* hash lines -> the values they stand for
  Before(_, _)  \* the order of rendered values

Blank == ""
Separator == "----"
Ignored == {Blank, "#", "hash-threshold", "forget"}
Conditional == {"skipif", "onlyif"}

\* The end of the lines from i on that are not blank, nor a separator if there is one to stop at.
EndOfLines(lines, i, stops) ==
  CHOOSE j \in i..(Len(lines) + 1) : /\ \A k \in i..(j - 1) : lines[k] \notin stops
                                     /\ j = Len(lines) + 1 \/ lines[j] \in stops

\* One record, which starts at line i; next is the line after it.
RecordAt(lines, i) ==
  LET query == Header[lines[i]].kind = "query"
      j == EndOfLines(lines, i + 1, IF query THEN {Blank, Separator} ELSE {Blank})
      k == IF query /\ j <= Len(lines) /\ lines[j] = Separator THEN j + 1 ELSE j
      next == EndOfLines(lines, k, {Blank})
  IN  [line |-> i, header |-> Header[lines[i]], sql |-> SubSeq(lines, i + 1, j - 1),
       expected |-> SubSeq(lines, k, next - 1), next |-> next]

\* ParseFile: the records, the last one being "unknown" if the file is refused.
Refusal == [line |-> 0, header |-> [kind |-> "unknown"], sql |-> <<>>, expected |-> <<>>, next |-> 0]
RECURSIVE ParseFrom(_, _)
SkippedTo_Slip(lines, i) == EndOfLines(lines, i + 1, {Blank} \union DOMAIN Header)
SkippedTo(lines, i) == EndOfLines(lines, i + 1, {Blank})
ParseFrom(lines, i) ==
  IF i > Len(lines) THEN <<>>
  ELSE CASE lines[i] \in Ignored -> ParseFrom(lines, i + 1)
         [] lines[i] = "halt" -> <<>>
         [] lines[i] \in Conditional -> ParseFrom(lines, SkippedTo(lines, i))
         [] lines[i] \in DOMAIN Header -> LET r == RecordAt(lines, i)
                                          IN  <<r>> \o ParseFrom(lines, r.next)
         [] OTHER -> <<Refusal>>
ParseFile(lines) == ParseFrom(lines, 1)
IsRefused(records) == \E k \in DOMAIN records : records[k] = Refusal

-----------------------------------------------------------------------------
Flat(rows) == FoldLeft(LAMBDA vals, row : vals \o row, <<>>, rows)

\* sortRows: whole rows of nCol values, what is left over stays at the end.
RowBefore(a, b) == \E i \in DOMAIN a : a[i] # b[i] /\ Before(a[i], b[i]) /\ \A j \in 1..(i - 1) : a[j] = b[j]
SortRows(vals, nCol) ==
  LET nRows == Len(vals) \div nCol
      rows  == [r \in 1..nRows |-> SubSeq(vals, (r - 1) * nCol + 1, r * nCol)]
  IN  Flat(SortSeq(rows, RowBefore)) \o SubSeq(vals, nRows * nCol + 1, Len(vals))

Sorted(vals, header) == CASE header.sort = "rowsort" -> SortRows(vals, header.columns)
                          [] header.sort = "valuesort" -> SortSeq(vals, Before)
                          [] OTHER -> vals

\* runRecord
RunRecord(rec) ==
  LET fails == rec.sql \notin DOMAIN Answer
      vals  == Sorted(Flat(Answer[rec.sql]), rec.header)
      wanted == IF Len(rec.expected) = 1 /\ rec.expected[1] \in DOMAIN HashOf
                  THEN HashOf[rec.expected[1]] ELSE rec.expected
  IN  IF rec.header.kind = "statement" /\ rec.header.wantsError THEN IF fails THEN "pass" ELSE "fail"
      ELSE IF rec.sql \in Unsupported THEN "waive"
      ELSE IF rec.header.kind = "statement" \/ rec.header.wantsError
        THEN IF fails <=> rec.header.wantsError THEN "pass" ELSE "fail"
      ELSE IF ~fails /\ vals = wanted THEN "pass" ELSE "fail"

\* RunFile: the verdicts, counted; a refused file has none.
RunFile(lines, strict) ==
  LET records == ParseFile(lines)
      count(verdict) == Cardinality({k \in DOMAIN records : RunRecord(records[k]) = verdict})
      failed == count("fail") + (IF strict THEN count("waive") ELSE 0)
  IN  IF IsRefused(records) THEN [total |-> 0, passed |-> 0, failed |-> 0, waived |-> 0, refused |-> TRUE]
      ELSE [total |-> Len(records), passed |-> count("pass"), failed |-> failed,
            waived |-> IF strict THEN 0 ELSE count("waive"), refused |-> FALSE]

-----------------------------------------------------------------------------
(* What a file says: its paragraphs are the runs of lines between blank     *)
(* ones, and the first line of each that is not ignored decides what it is. *)
Paragraphs(lines) ==
  LET starts == {i \in DOMAIN lines : lines[i] # Blank /\ (i = 1 \/ lines[i - 1] = Blank)}
      para(i) == SubSeq(lines, i, EndOfLines(lines, i, {Blank}) - 1)
      first(p) == CHOOSE k \in 1..(Len(p) + 1) :
                    (\A j \in 1..(k - 1) : p[j] \in Ignored) /\ (k = Len(p) + 1 \/ p[k] \notin Ignored)
      body(p) == SubSeq(p, first(p), Len(p))
  IN  {[at |-> i, body |-> body(para(i))] : i \in starts}
Reached(lines) == {p \in Paragraphs(lines) : \A q \in Paragraphs(lines) :
                     (q.body # <<>> /\ Head(q.body) = "halt") => p.at < q.at}
SaidToRun(lines) == {p \in Reached(lines) : p.body # <<>> /\ Head(p.body) \in DOMAIN Header}
SaysNothing(lines) == \E p \in Reached(lines) :
  p.body # <<>> /\ Head(p.body) \notin (DOMAIN Header \union Conditional)

(* What a record asks for: an error; success; or these values, in the order *)
(* of the rows, or sorted.                                                  *)
Agrees(body) ==
  LET h     == Header[Head(body)]
      lines == Tail(body)
      seps  == {k \in DOMAIN lines : h.kind = "query" /\ lines[k] = Separator}
      cut   == IF seps = {} THEN Len(lines) + 1 ELSE CHOOSE k \in seps : \A j \in seps : k <= j
      sql   == SubSeq(lines, 1, cut - 1)
      said  == SubSeq(lines, cut + 1, Len(lines))
      values == IF Len(said) = 1 /\ said[1] \in DOMAIN HashOf THEN HashOf[said[1]] ELSE said
  IN  IF sql \in Unsupported THEN IF h.kind = "statement" /\ h.wantsError THEN "pass" ELSE "waive"
      ELSE IF \/ sql \notin DOMAIN Answer /\ h.wantsError
              \/ /\ sql \in DOMAIN Answer /\ ~h.wantsError
                 /\ \/ h.kind = "statement"
                    \/ \E p \in [DOMAIN Answer[sql] -> DOMAIN Answer[sql]] :
                         LET rows == [k \in DOMAIN Answer[sql] |-> Answer[sql][p[k]]]
                         IN  /\ Range(p) = DOMAIN Answer[sql]
                             /\ Flat(rows) = values
                             /\ IF h.sort = "nosort" THEN rows = Answer[sql]
                                ELSE \A k \in 1..(Len(rows) - 1) : ~RowBefore(rows[k + 1], rows[k])
        THEN "pass" ELSE "fail"

(* Every record that a file reaches is judged once, by what it says itself, *)
(* whatever conditional, commented or halting lines surround it; --strict    *)
(* turns the waived ones into failures and nothing else.                    *)
JudgedAsSaid(lines) ==
  LET said(verdict) == Cardinality({p \in SaidToRun(lines) : Agrees(p.body) = verdict})
      run == RunFile(lines, FALSE)
      strict == RunFile(lines, TRUE)
  IN  /\ run.refused <=> SaysNothing(lines)
      /\ ~run.refused => /\ run.passed = said("pass") /\ run.failed = said("fail")
                         /\ run.waived = said("waive")
                         /\ run.total = run.passed + run.failed + run.waived
                         /\ strict.passed = run.passed /\ strict.failed = run.failed + run.waived
=============================================================================

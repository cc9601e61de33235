-------------------------------- MODULE Trees ---------------------------------
(***************************************************************************)
(* Expression trees (internal/engine/expr.go): an operator and its operands. *)
(* The operators are named by their tokens.                                 *)
(***************************************************************************)
EXTENDS Sequences

Tree(op, args) == [op |-> op, args |-> args]
Leaf(token) == Tree(token, <<>>)

Aggregate == {"COUNT", "SUM", "AVG", "MIN", "MAX"}
Distinct == [op \in {"COUNT DISTINCT", "SUM DISTINCT", "AVG DISTINCT", "MIN DISTINCT", "MAX DISTINCT"} |->
               CASE op = "COUNT DISTINCT" -> "COUNT"
                 [] op = "SUM DISTINCT" -> "SUM"
                 [] op = "AVG DISTINCT" -> "AVG"
                 [] op = "MIN DISTINCT" -> "MIN"
                 [] op = "MAX DISTINCT" -> "MAX"]

CompareOp == {"=", "!=", "<>", "<", ">", "<=", ">="}

\* CAST to an affinity.
Casts == {"CAST INTEGER", "CAST REAL", "CAST TEXT", "CAST BLOB", "CAST NUMERIC"}
CastType(op) == CASE op = "CAST INTEGER" -> "INTEGER"
                  [] op = "CAST REAL" -> "REAL"
                  [] op = "CAST TEXT" -> "TEXT"
                  [] op = "CAST BLOB" -> "BLOB"
                  [] op = "CAST NUMERIC" -> "NUMERIC"
=============================================================================

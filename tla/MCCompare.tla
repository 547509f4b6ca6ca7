------------------------------ MODULE MCCompare ------------------------------
(* Comparisons of strings, numbers and nil. *)
EXTENDS ExprCorrect, MCTokens

MCLexemes == {Id("s"), Id("n"), Word("nil"), Op("<"), Op("=="), Word("then")}
MCVarType == [s |-> "STRING", n |-> "INTEGER"]
=============================================================================

----------------------------- MODULE MCCollect -----------------------------
(* What ends an expression: keywords, datatypes, commas, calls and the next *)
(* statement; and the tokens no column of the table stands for.             *)
EXTENDS ExprCorrect, MCTokens

MCLexemes == {Id("n"), Lit("STRING", "text"), Word("nil"), Word("then"), Word("integer"),
              Comma, Colon, Assign, Op("+"), Op("("), Op(")")}
MCVarType == [n |-> "INTEGER"]
=============================================================================

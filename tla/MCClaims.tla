------------------------------ MODULE MCClaims ------------------------------
(* Items and conditions with the length operator. *)
EXTENDS Expression, MCTokens

MCLexemes == {Id("n"), Lit("INTEGER", "1"), Id("s"), Op("-"), Op("#"), Word("then"), Word("end")}
MCVarType == [n |-> "INTEGER", s |-> "STRING"]
=============================================================================

------------------------------ MODULE MCTokens ------------------------------
(* Names for the tokens the model-checking modules choose their lexemes from. *)
EXTENDS Tokens

Op(s)      == [type |-> "OPERATOR", spec |-> s, attr |-> s]
Id(n)      == [type |-> "IDENTIFIER", spec |-> "i", attr |-> n]
Lit(ty, a) == [type |-> ty, spec |-> "i", attr |-> a]
Word(w)    == [type |-> IF w \in Keywords THEN "KEYWORD" ELSE "DATATYPE", spec |-> w, attr |-> w]
Comma      == [type |-> "OPERATOR", spec |-> "others", attr |-> ","]
Colon      == [type |-> "OPERATOR", spec |-> "others", attr |-> ":"]
Assign     == [type |-> "ASSIGNMENT", spec |-> "others", attr |-> "="]
=============================================================================

--------------------------- MODULE MCExpressions ---------------------------
(* Expressions over three alphabets; the state constraint Alphabets keeps a *)
(* tape within one of them.                                                 *)
EXTENDS ExprCorrect, MCTokens

(* One operator of each row class of the table. *)
Syntax == {Id("n"), Id("s"), Op("-"), Op("*"), Op("<"), Op(".."), Op("#"), Op("("), Op(")")}

(* Operands of every type under every kind of operator: arithmetic, division *)
(* that forces a decimal or an integer, concatenation, length, comparison.   *)
Typing == {Id("n"), Id("s"), Lit("DECIMAL", "1.5"), Word("nil"), Op("+"), Op("/"), Op("//"),
           Op(".."), Op("#"), Op("<"), Op("==")}

(* Divisors built from a literal zero. *)
Zeros == {Id("n"), Lit("INTEGER", "0"), Op("-"), Op("*"), Op("//"), Op("("), Op(")")}

MCLexemes == Syntax \cup Typing \cup Zeros
MCVarType == [n |-> "INTEGER", s |-> "STRING"]

(* No string in a comparison: there the type rules are known not to be the  *)
(* documented ones (RelationsAsDocumented); for "<" only on the right.        *)
StringsNotCompared ==
    LET Occurs(S) == \E i \in DOMAIN got : got[i].spec \in S \/ got[i].attr \in S
    IN ~(Occurs({"s"}) /\ Occurs(RelOps))

NoStringOnTheRight ==
    \A i, k \in DOMAIN got : i < k /\ got[i].spec = "<" /\ got[k].attr = "s" => got[k - 1].spec = "#"

(* No two operands and no two operators in a row: they end in error(2). *)
Alternating ==
    \A i \in 1..(Len(got) - 1) :
        /\ ~(got[i].spec \in {"i", ")"} /\ got[i + 1].spec \in {"i", "("})
        /\ ~(got[i].spec \in BinaryOps \cup {"("} /\ got[i + 1].spec \in BinaryOps \cup {")"})

Over(lexemes, n) == Len(got) <= n /\ \A i \in DOMAIN got : got[i] \in lexemes

Alphabets ==
    \/ Over(Syntax, 5) /\ NoStringOnTheRight
    \/ Over(Typing, 5) /\ StringsNotCompared
    \/ Over(Zeros, 7) /\ Alternating
=============================================================================

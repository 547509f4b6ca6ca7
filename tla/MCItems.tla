------------------------------ MODULE MCItems ------------------------------
(* Conditions and item lists over two alphabets; the state constraint Tapes  *)
(* keeps the tape of one DLL_parse within one of them.                        *)
EXTENDS Expression, MCTokens

(* What can begin, separate and end an item, around short expressions. *)
Around == {Id("n"), Lit("INTEGER", "1"), Op("-"), Op("*"), Op("("), Op(")"), Comma, Word("then"), Word("end")}

(* Expressions with an operator below an operator, on either side of it:      *)
(* n - 1 * n, (n - 1) * n, n * (n - 1).                                       *)
Nested == {Id("n"), Lit("INTEGER", "1"), Op("-"), Op("*"), Op("("), Op(")"), Word("then"), Word("end")}

MCLexemes == Around
MCVarType == [n |-> "INTEGER"]

(* No two operands and no two operators in a row: they end in error(2). *)
Alternating ==
    \A i \in 1..(Len(got) - 1) :
        /\ ~(got[i].spec \in {"i", ")"} /\ got[i + 1].spec \in {"i", "("})
        /\ ~(got[i].spec \in BinaryOps \cup {"("} /\ got[i + 1].spec \in BinaryOps \cup {")"})

Over(lexemes, n) == Len(got) <= n /\ \A i \in DOMAIN got : got[i] \in lexemes

(* At most one pair of parentheses. *)
OnePair ==
    \A i, j \in DOMAIN got :
        /\ got[i].spec = got[j].spec /\ got[i].spec \in {"(", ")"} => i = j
        /\ got[j].spec = ")" => \E k \in 1..j : got[k].spec = "("

(* A word ends the expression and is the last token; the file does not end   *)
(* before it.                                                                *)
EndsWithWord ==
    \A i \in DOMAIN got :
        IF got[i].spec \in {"then", "end"} THEN i = Len(got)
        ELSE i = Len(got) => token # EofToken

InFirstItem == IF phase = "call" THEN parent_node = <<>> ELSE Len(parent_node) = 1

Tapes ==
    \/ Over(Around, 4)
    \/ Over(Nested, 8) /\ Alternating /\ OnePair /\ EndsWithWord /\ InFirstItem
=============================================================================

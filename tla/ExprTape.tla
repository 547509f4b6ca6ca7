------------------------------ MODULE ExprTape ------------------------------
(***************************************************************************)
(* Where DLL_parse (precedence_parser.c:545-577) cuts an expression off    *)
(* the tokens that follow: the conditions of its collecting loop, and what *)
(* the loop leaves behind as a function of all the tokens to come.         *)
(***************************************************************************)
EXTENDS Tokens, Naturals, Sequences

(* "nil" is an operand for the precedence parser. *)
Retag(t) == IF t.spec = "nil" THEN [t EXCEPT !.spec = "i", !.type = "NIL"] ELSE t

EndsTape(t) == t.type \in {"KEYWORD", "DATATYPE"} \/ t.attr = ","

(* Mutant: an identifier begins the next statement only after ")". *)
BeginsStatementAfterParen(tape, t) ==
    /\ tape # <<>>
    /\ t.type = "IDENTIFIER"
    /\ tape[Len(tape)].spec = ")"

(* Two operands in a row: the second one begins the next statement. *)
BeginsStatement(tape, t) ==
    /\ tape # <<>>
    /\ t.type = "IDENTIFIER"
    /\ tape[Len(tape)].spec \in {"i", ")"}

(* Mutant: any operand before "(" is taken for the name of a function. *)
BeginsCallAfterOperand(tape, t) ==
    /\ tape # <<>>
    /\ t.spec = "("
    /\ tape[Len(tape)].spec = "i"

BeginsCall(tape, t) ==
    /\ tape # <<>>
    /\ t.spec = "("
    /\ tape[Len(tape)].type = "IDENTIFIER"

(* Token i of s joins the tape of those before it; only the last one counts. *)
Joins(s, i) ==
    LET t == Retag(s[i])
        last == IF i = 1 THEN <<>> ELSE <<Retag(s[i - 1])>>
    IN ~EndsTape(t) /\ ~BeginsStatement(last, t) /\ ~BeginsCall(last, t)

(* What the loop makes of the tokens s up to the end of the file: the tape,  *)
(* the tokens given back, how many it took from the scanner.                 *)
Cut(s) ==
    LET n == CHOOSE n \in 0..Len(s) :
                 /\ n < Len(s) => ~Joins(s, n + 1)
                 /\ \A i \in 1..n : Joins(s, i)
        r == [i \in 1..n |-> Retag(s[i])]
        over == Retag(s[n + 1])
    IN IF n = Len(s) THEN [tape |-> r, list |-> <<>>, taken |-> n]
       ELSE IF ~EndsTape(over) /\ BeginsCall(r, over)
       THEN [tape |-> SubSeq(r, 1, n - 1), list |-> <<r[n], over>>, taken |-> n + 1]
       ELSE [tape |-> r, list |-> <<over>>, taken |-> n + 1]
=============================================================================

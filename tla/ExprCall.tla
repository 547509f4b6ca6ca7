------------------------------ MODULE ExprCall ------------------------------
(***************************************************************************)
(* What DLL_parse promises its callers, as one step: tokens arrive from    *)
(* the scanner; some time later the call comes back with the postfix form  *)
(* of the expression they begin with, its type and the tokens handed back, *)
(* or the compiler stops with the error of the expression.  No tape, table *)
(* or stack.                                                               *)
(***************************************************************************)
EXTENDS ExprTape, ExprReference

CONSTANTS Lexemes, VarType

VARIABLES got, status, list, postfix, type, exit_code

vars == <<got, status, list, postfix, type, exit_code>>

AnyType == {"NIL", "INTEGER", "DECIMAL", "STRING", "UNDEF", "BOOL"}

Init ==
    /\ got \in {<<>>} \cup {<<t>> : t \in Lexemes}
    /\ status = "running"
    /\ list = <<>> /\ postfix = <<>> /\ type = "UNDEF" /\ exit_code = 0

Deliver ==
    /\ status = "running"
    /\ \E t \in Lexemes : got' = Append(got, t)
    /\ UNCHANGED <<status, list, postfix, type, exit_code>>

Tape == Cut(got).tape

OnTable == \A i \in DOMAIN Tape : Tape[i].spec \in TableSymbols

Operand(t) == IF t.type = "IDENTIFIER" THEN VarType[t.attr] ELSE t.type

TypeOf(p) == Evaluate(p, Operand, DocLength, DocType)[1]

(* An empty tape has no postfix form; its type is anything. *)
Return ==
    /\ status = "running" /\ OnTable
    /\ \/ Tape = <<>> /\ postfix' = <<>> /\ type' \in AnyType
       \/ /\ Tape # <<>> /\ Postfix(Tape) # NoParse
          /\ postfix' = Postfix(Tape) /\ type' = TypeOf(postfix') /\ type' # "NONE"
    /\ list' = Cut(got).list
    /\ status' = "return"
    /\ UNCHANGED <<got, exit_code>>

Stop(code) ==
    /\ status' = "exit" /\ exit_code' = code
    /\ UNCHANGED <<got, list, postfix, type>>

SyntaxError == status = "running" /\ Tape # <<>> /\ Postfix(Tape) = NoParse /\ Stop(2)

(* In a tape that is no expression either, an operation before the fault. *)
TypeError ==
    /\ status = "running"
    /\ Postfix(Tape) = NoParse \/ TypeOf(Postfix(Tape)) = "NONE"
    /\ Stop(6)

ZeroDivision ==
    /\ status = "running"
    /\ \E i \in DOMAIN Tape : Tape[i].spec \in {"/", "//"}
    /\ Stop(9)

(* A token without a column in the table: nothing is promised. *)
Unspecified ==
    /\ status = "running" /\ ~OnTable
    /\ status' = "undefined"
    /\ UNCHANGED <<got, list, postfix, type, exit_code>>

Next == Deliver \/ Return \/ SyntaxError \/ TypeError \/ ZeroDivision \/ Unspecified

Spec == Init /\ [][Next]_vars
=============================================================================

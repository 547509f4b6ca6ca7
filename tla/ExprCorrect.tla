----------------------------- MODULE ExprCorrect -----------------------------
(***************************************************************************)
(* What the precedence parser promises its callers, stated with the        *)
(* reference definitions of ExprReference.                                 *)
(***************************************************************************)
EXTENDS PrecedenceParser, ExprReference

(* An expression that DLL_parse accepts is a sentence of the rules, and     *)
(* AST_list is its postfix form under the declared precedences and          *)
(* associativities (parse_expression, reduce).                              *)
PostfixIsReference ==
    pc = "return" => AST_list = IF Expression = <<>> THEN <<>> ELSE Postfix(Expression)

(* error(2) is raised only for a tape that is not an expression.            *)
RejectsOnlyNonSentences ==
    exit_code = 2 => Postfix(Expression) = NoParse

Types(postfix) == Evaluate(postfix, OperandType, DocLength, DocType)

(* The type DLL_parse returns, and whether error(6) is raised at all, are   *)
(* what the comments of reduce document for the whole expression.           *)
TypedAsDocumented ==
    /\ pc = "return" /\ AST_list # <<>> => Types(AST_list) = <<ret_code>> /\ ret_code # "NONE"
    /\ exit_code = 6 /\ Postfix(Expression) # NoParse => Types(Postfix(Expression)) = <<"NONE">>

(* error(9) is raised only when the divisor is zero whatever the variables  *)
(* hold: the last subexpression written to AST_list evaluates to zero, or   *)
(* to no value, under every valuation.                                      *)
Valuations == {<<-2, 1>>, <<1, 1>>, <<3, 1>>}
ZeroDivisionIsReal ==
    exit_code = 9 => \A v \in Valuations :
        LET Operand(t) == IF t.attr = "0" THEN <<0, 1>> ELSE v
            Length(a) == Undefined
        IN Last(Evaluate(AST_list, Operand, Length, Value))[1] = 0

(* The whole call is one step to its caller: what comes back is a function   *)
(* of the tokens the scanner delivers (Cut, Postfix, the documented type),   *)
(* and the errors are those of the expression.                               *)
Running == pc \notin Outcomes
Call == INSTANCE ExprCall WITH
    got <- got,
    status <- IF Running THEN "running" ELSE pc,
    list <- IF pc = "return" THEN list ELSE <<>>,
    postfix <- IF pc = "return" THEN AST_list ELSE <<>>,
    type <- IF pc = "return" THEN ret_code ELSE "UNDEF",
    exit_code <- exit_code
ImplementsCall == Call!Spec

(* The parser never hangs: every call ends in a return or an error.         *)
Terminates == <>(pc \in Outcomes)

-----------------------------------------------------------------------------
(* A claim of the repository's comments that the code does not keep.        *)

(* precedence_parser.c:261: "string < string = bool, else error": the type  *)
(* reduce gives a comparison is the one its comment names.                  *)
RelationsAsDocumented ==
    LET r == Rhs(stack) IN
    Cell(">") /\ IsBinary(r) /\ r[1].spec \in {"<", "<=", ">", ">="} =>
        NontBinary(r).type = DocType(r[1].spec, r[0].type, r[2].type)
=============================================================================

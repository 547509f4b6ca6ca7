-------------------------- MODULE PrecedenceParser --------------------------
(***************************************************************************)
(* One call of DLL_parse (precedence_parser.c): the recursive-descent      *)
(* parser has just seen "if", "while", "return" or "=" and hands over its  *)
(* lookahead token.  DLL_parse collects tokens on a tape until one cannot  *)
(* belong to the expression, gives the tokens it should not have taken     *)
(* back in "list", and runs parse_expression: an operator-precedence       *)
(* automaton that writes the expression in postfix order to AST_list and   *)
(* checks operand types and division by a zero constant on the way.        *)
(*                                                                         *)
(* Every doubly linked list and the linked stack are sequences (the top of *)
(* the stack is its last element).  The scanner is the environment: it may *)
(* deliver any lexeme of Lexemes, or the end of the file, which it then    *)
(* repeats for ever.  An allocation failure (error 99) is left out.        *)
(***************************************************************************)
EXTENDS ExprTape, Integers

CONSTANTS
    Lexemes,    \* the tokens the scanner may deliver
    VarType,    \* name |-> what get_var_datatype(symtable, name) returns
    MaxTokens   \* bound: how many tokens come before the end of the file

VarTypes == {"NIL", "INTEGER", "DECIMAL", "STRING", "UNDEF"}

ASSUME LexemesAssumption == Lexemes \subseteq Scanned
ASSUME VarTypeAssumption ==
    \A t \in Lexemes : t.type = "IDENTIFIER" =>
        t.attr \in DOMAIN VarType /\ VarType[t.attr] \in VarTypes
ASSUME MaxTokensAssumption == MaxTokens \in Nat

VARIABLES
    pc,         \* "collect" | "expr" | "parse" | "return" | "exit" | "undefined"
    token,      \* the caller's token_lookahead, filled by get_token
    pp_list,    \* the tape of the expression
    list,       \* the tokens given back to the recursive-descent parser
    stack,      \* the stack of parse_expression
    element,    \* the position on the tape of the current input token
    AST_list,   \* the expression in postfix order
    ret_code,   \* the type DLL_parse returns
    exit_code,  \* the argument of error(), 0 while the compiler runs
    got         \* history: every token the scanner delivered but the end of the file

vars == <<pc, token, pp_list, list, stack, element, AST_list, ret_code, exit_code, got>>

-----------------------------------------------------------------------------
(* DLL_parse, lines 545-577: collecting the tape.                          *)

Delivered(n) == IF n < MaxTokens THEN Lexemes \cup {EofToken} ELSE {EofToken}

Record(t) == IF t.type = "EOF" THEN <<>> ELSE <<t>>

Init ==
    /\ pc = "collect"
    /\ token \in Delivered(0)
    /\ got = Record(token)
    /\ pp_list = <<>> /\ list = <<>> /\ stack = <<>> /\ element = 1
    /\ AST_list = <<>> /\ ret_code = "UNDEF" /\ exit_code = 0

(* The token joins the tape and the scanner is asked for the next one. *)
Collect ==
    LET t == Retag(token) IN
    /\ pc = "collect" /\ token.type # "EOF"
    /\ ~EndsTape(t) /\ ~BeginsStatement(pp_list, t) /\ ~BeginsCall(pp_list, t)
    /\ pp_list' = Append(pp_list, t)
    /\ \E next \in Delivered(Len(got)) :
          token' = next /\ got' = got \o Record(next)
    /\ UNCHANGED <<pc, list, stack, element, AST_list, ret_code, exit_code>>

(* The token goes back to the caller and the tape is complete. *)
GiveBack ==
    LET t == Retag(token) IN
    /\ pc = "collect" /\ token.type # "EOF"
    /\ EndsTape(t) \/ BeginsStatement(pp_list, t)
    /\ list' = <<t>> /\ token' = t /\ pc' = "expr"
    /\ UNCHANGED <<pp_list, stack, element, AST_list, ret_code, exit_code, got>>

(* Mutant: the name is inserted last. *)
GiveBackCallSwapped ==
    LET name == pp_list[Len(pp_list)] IN
    /\ pc = "collect" /\ token.type # "EOF"
    /\ ~EndsTape(token) /\ BeginsCall(pp_list, token)
    /\ list' = <<token, name>> /\ token' = name
    /\ pp_list' = SubSeq(pp_list, 1, Len(pp_list) - 1)
    /\ pc' = "expr"
    /\ UNCHANGED <<stack, element, AST_list, ret_code, exit_code, got>>

(* A call: "(" and then the name before it go to the front of list. *)
GiveBackCall ==
    LET name == pp_list[Len(pp_list)] IN
    /\ pc = "collect" /\ token.type # "EOF"
    /\ ~EndsTape(token) /\ BeginsCall(pp_list, token)
    /\ list' = <<name, token>> /\ token' = name
    /\ pp_list' = SubSeq(pp_list, 1, Len(pp_list) - 1)
    /\ pc' = "expr"
    /\ UNCHANGED <<stack, element, AST_list, ret_code, exit_code, got>>

EndOfFile ==
    /\ pc = "collect" /\ token.type = "EOF"
    /\ pc' = "expr"
    /\ UNCHANGED <<token, pp_list, list, stack, element, AST_list, ret_code, exit_code, got>>

(* No token was an expression's: ret_code is returned uninitialised. *)
ReturnEmpty ==
    /\ pc = "expr" /\ pp_list = <<>>
    /\ ret_code' \in VarTypes \cup {"BOOL"}
    /\ pc' = "return"
    /\ UNCHANGED <<token, pp_list, list, stack, element, AST_list, exit_code, got>>

(* "$" closes the tape and lies at the bottom of the stack. *)
BeginExpression ==
    LET dollar == [token EXCEPT !.spec = "$", !.attr = "$"] IN
    /\ pc = "expr" /\ pp_list # <<>>
    /\ token' = dollar
    /\ pp_list' = Append(pp_list, dollar)
    /\ stack' = <<DollarToken>> /\ element' = 1
    /\ pc' = "parse"
    /\ UNCHANGED <<list, AST_list, ret_code, exit_code, got>>

-----------------------------------------------------------------------------
(* The precedence table: per row, the columns that hold "<" and ">".       *)

(* Mutant: "+" and "-" associate to the right. *)
ShiftsRightAssociative(r) ==
    CASE r \in AddOps -> AddOps \cup MulOps \cup {"#", "i", "("}
      [] r \in MulOps -> {"#", "i", "("}
      [] r \in RelOps -> AddOps \cup MulOps \cup {"#", "i", "("}
      [] r \in {"..", "#"} -> {"..", "i", "("}
      [] r \in {"(", "$"} -> BinaryOps \cup {"#", "i", "("}
      [] OTHER -> {}

(* Mutant: the row of the multiplicative operators lacks "#". *)
ShiftsNoLengthFactor(r) ==
    CASE r \in AddOps -> MulOps \cup {"#", "i", "("}
      [] r \in MulOps -> {"i", "("}
      [] r \in RelOps -> AddOps \cup MulOps \cup {"#", "i", "("}
      [] r \in {"..", "#"} -> {"..", "i", "("}
      [] r \in {"(", "$"} -> BinaryOps \cup {"#", "i", "("}
      [] OTHER -> {}

Shifts(r) ==
    CASE r \in AddOps -> MulOps \cup {"#", "i", "("}
      [] r \in MulOps -> {"#", "i", "("}
      [] r \in RelOps -> AddOps \cup MulOps \cup {"#", "i", "("}
      [] r \in {"..", "#"} -> {"..", "i", "("}
      [] r \in {"(", "$"} -> BinaryOps \cup {"#", "i", "("}
      [] OTHER -> {}

Reduces(r) ==
    CASE r \in AddOps -> AddOps \cup RelOps \cup {")", "$"}
      [] r \in MulOps \cup {"#"} -> AddOps \cup MulOps \cup RelOps \cup {")", "$"}
      [] r \in RelOps -> RelOps \cup {")", "$"}
      [] r = ".." -> {")", "$"}
      [] r \in {"i", ")"} -> BinaryOps \cup {")", "$"}
      [] OTHER -> {}

(* Mutant: the "=" of an open parenthesis stands in the column of "$" too. *)
pp_tableClosesAtEnd(r, c) ==
    IF c \in Shifts(r) THEN "<"
    ELSE IF c \in Reduces(r) THEN ">"
    ELSE IF r = "(" /\ c \in {")", "$"} THEN "="
    ELSE IF r = "$" /\ c = "$" THEN "#"
    ELSE "_"

pp_table(r, c) ==
    IF c \in Shifts(r) THEN "<"
    ELSE IF c \in Reduces(r) THEN ">"
    ELSE IF r = "(" /\ c = ")" THEN "="
    ELSE IF r = "$" /\ c = "$" THEN "#"
    ELSE "_"

-----------------------------------------------------------------------------
(* The stack.                                                              *)

TopTermAt(s) == CHOOSE i \in DOMAIN s :
    s[i].spec # "E" /\ \A j \in DOMAIN s : j > i => s[j].spec = "E"

stack_top_term(s) == s[TopTermAt(s)]

(* Mutant: no mark is set under a nonterminal. *)
stack_markOnTopOnly(s) == IF TopTermAt(s) = Len(s) THEN Append(s, MarkToken) ELSE s

(* "[<]" lands above the topmost element that is not a nonterminal. *)
stack_mark(s) ==
    SubSeq(s, 1, TopTermAt(s)) \o <<MarkToken>> \o SubSeq(s, TopTermAt(s) + 1, Len(s))

MarkAt(s) == CHOOSE i \in DOMAIN s :
    s[i].spec = "MARK" /\ \A j \in DOMAIN s : j > i => s[j].spec # "MARK"

(* What reduce pops into token[2], token[1], token[0]: the rest is SPEC_EMPTY. *)
Handle(s) == SubSeq(s, MarkAt(s) + 1, Len(s))
Rhs(s) == LET h == Handle(s) IN
    [k \in 0..2 |-> IF k + Len(h) < 3 THEN EmptyToken ELSE h[k + Len(h) - 2]]

-----------------------------------------------------------------------------
(* The rules of reduce.                                                    *)

IsBinary(r) == r[0].spec = "E" /\ r[1].spec \in BinaryOps /\ r[2].spec = "E"
IsLength(r) == r[0].spec = "EMPTY" /\ r[1].spec = "#" /\ r[2].spec = "E"
IsOperand(r) == r[0].spec = "EMPTY" /\ r[1].spec = "EMPTY" /\ r[2].spec = "i"
IsParens(r) == r[0].spec = "(" /\ r[1].spec = "E" /\ r[2].spec = ")"

Numeric == {"INTEGER", "DECIMAL"}

(* Mutant: the right operand's type is not looked at. *)
ArithmeticTypeOfLeft(a, b) == IF a \in Numeric /\ b \in Numeric THEN a ELSE "NONE"

ArithmeticType(a, b) ==
    IF a = "INTEGER" /\ b = "INTEGER" THEN "INTEGER"
    ELSE IF a \in Numeric /\ b \in Numeric THEN "DECIMAL" ELSE "NONE"

RelationOk(a, b) ==
    \/ a \in Numeric /\ b \in Numeric
    \/ a = "INTEGER" /\ b = "STRING"

EqualityOk(a, b) ==
    \/ a \in Numeric \cup {"NIL"} /\ b \in Numeric \cup {"NIL"}
    \/ a \in {"INTEGER", "NIL"} /\ b \in {"STRING", "NIL"}

(* The type of a binary expression; "NONE" is error 6. *)
BinaryType(op, a, b) ==
    CASE op \in {"+", "-", "*"} -> ArithmeticType(a, b)
      [] op = "/" -> IF a \in Numeric /\ b \in Numeric THEN "DECIMAL" ELSE "NONE"
      [] op = "//" -> IF a = "INTEGER" /\ b = "INTEGER" THEN "INTEGER" ELSE "NONE"
      [] op \in {"<", "<=", ">", ">="} -> IF RelationOk(a, b) THEN "BOOL" ELSE "NONE"
      [] op \in {"==", "~="} -> IF EqualityOk(a, b) THEN "BOOL" ELSE "NONE"
      [] op = ".." -> IF a = "STRING" /\ b = "STRING" THEN "STRING" ELSE "NONE"

(* Mutant: one zero operand is enough for "+" and "-" as well. *)
KnownZeroOfEither(op, a, b) ==
    \/ op \in {"+", "-", "*"} /\ (a = "0" \/ b = "0")
    \/ op \in {"/", "//"} /\ a = "0"

(* The attribute "0" follows a subexpression whose value must be zero. *)
KnownZero(op, a, b) ==
    \/ op \in {"+", "-", "*"} /\ a = "0" /\ b = "0"
    \/ op = "*" /\ (a = "0" \/ b = "0")
    \/ op \in {"/", "//"} /\ a = "0"

(* Mutant: the rule for "//" lacks the check. *)
DividesByZeroOnce(r) == r[1].spec = "/" /\ r[2].attr = "0"

DividesByZero(r) == r[1].spec \in {"/", "//"} /\ r[2].attr = "0"

OperandType(t) == IF t.type = "IDENTIFIER" THEN VarType[t.attr] ELSE t.type

(* The nonterminal each rule pushes. *)
NontBinary(r) ==
    [type |-> BinaryType(r[1].spec, r[0].type, r[2].type), spec |-> "E",
     attr |-> IF KnownZero(r[1].spec, r[0].attr, r[2].attr) THEN "0" ELSE "E"]

NontOperand(r) ==
    [type |-> OperandType(r[2]), spec |-> "E",
     attr |-> IF r[2].attr = "0" THEN "0" ELSE "E"]

NontLength(r) == [r[2] EXCEPT !.type = "INTEGER"]

(* Mutant: the mark stays. *)
ReplacedOnMark(s, nont) == Append(SubSeq(s, 1, MarkAt(s)), nont)

(* The handle and its mark are popped and the nonterminal is pushed. *)
Replaced(s, nont) == Append(SubSeq(s, 1, MarkAt(s) - 1), nont)

-----------------------------------------------------------------------------
(* parse_expression, lines 460-503.                                        *)

stack_n == stack_top_term(stack).spec
input == pp_list[element].spec

Parsing == pc = "parse" /\ input \in TableSymbols

Cell(c) == Parsing /\ pp_table(stack_n, input) = c

error(code) ==
    /\ pc' = "exit" /\ exit_code' = code
    /\ UNCHANGED <<token, pp_list, list, stack, element, AST_list, ret_code, got>>

Advance(s) ==
    /\ stack' = Append(s, pp_list[element])
    /\ element' = element + 1
    /\ UNCHANGED <<pc, token, pp_list, list, AST_list, ret_code, exit_code, got>>

Shift == Cell("=") /\ Advance(stack)

MarkAndShift == Cell("<") /\ Advance(stack_mark(stack))

Push(nont, postfix) ==
    /\ stack' = Replaced(stack, nont)
    /\ AST_list' = AST_list \o postfix
    /\ UNCHANGED <<pc, token, pp_list, list, element, ret_code, exit_code, got>>

ReduceOperand ==
    /\ Cell(">") /\ IsOperand(Rhs(stack))
    /\ Push(NontOperand(Rhs(stack)), <<Rhs(stack)[2]>>)

(* Mutant: the first symbol of the handle is listed for every rule. *)
ReduceParensListed ==
    /\ Cell(">") /\ IsParens(Rhs(stack))
    /\ Push(Rhs(stack)[1], <<Rhs(stack)[0]>>)

ReduceParens ==
    /\ Cell(">") /\ IsParens(Rhs(stack))
    /\ Push(Rhs(stack)[1], <<>>)

ReduceLength ==
    /\ Cell(">") /\ IsLength(Rhs(stack)) /\ Rhs(stack)[2].type = "STRING"
    /\ Push(NontLength(Rhs(stack)), <<Rhs(stack)[1]>>)

ReduceBinary ==
    LET r == Rhs(stack) IN
    /\ Cell(">") /\ IsBinary(r)
    /\ NontBinary(r).type # "NONE" /\ ~DividesByZero(r)
    /\ Push(NontBinary(r), <<r[1]>>)

TypeError ==
    LET r == Rhs(stack) IN
    /\ Cell(">")
    /\ \/ IsLength(r) /\ r[2].type # "STRING"
       \/ IsBinary(r) /\ NontBinary(r).type = "NONE"
    /\ error(6)

ZeroDivision ==
    LET r == Rhs(stack) IN
    /\ Cell(">") /\ IsBinary(r)
    /\ NontBinary(r).type # "NONE" /\ DividesByZero(r)
    /\ error(9)

NoRule ==
    LET r == Rhs(stack) IN
    /\ Cell(">")
    /\ ~IsOperand(r) /\ ~IsParens(r) /\ ~IsLength(r) /\ ~IsBinary(r)
    /\ error(2)

(* Mutant: the loop does not end. *)
AcceptLoops == Cell("#") /\ UNCHANGED vars

(* The expression is complete; DLL_parse disposes of the tape and returns. *)
Accept ==
    /\ Cell("#")
    /\ ret_code' = stack[Len(stack)].type
    /\ stack' = <<>> /\ pp_list' = <<>>
    /\ pc' = "return"
    /\ UNCHANGED <<token, list, element, AST_list, exit_code, got>>

Reject == Cell("_") /\ error(2)

(* ":" and "=" index pp_table beyond its columns (SPEC_OTHERS is 35): what is *)
(* read there decides, and nothing is known of the steps that follow.         *)
OffTable ==
    /\ pc = "parse" /\ input \notin TableSymbols
    /\ \/ error(2)
       \/ /\ pc' = "undefined"
          /\ UNCHANGED <<token, pp_list, list, stack, element, AST_list, ret_code, exit_code, got>>

Halted == pc \in {"return", "exit", "undefined"} /\ UNCHANGED vars

Next ==
    \/ Collect \/ GiveBack \/ GiveBackCall \/ EndOfFile
    \/ ReturnEmpty \/ BeginExpression
    \/ Shift \/ MarkAndShift
    \/ ReduceOperand \/ ReduceParens \/ ReduceLength \/ ReduceBinary
    \/ TypeError \/ ZeroDivision \/ NoRule
    \/ Accept \/ Reject \/ OffTable
    \/ Halted

(* One thread runs the parser and get_token always comes back. *)
Spec == Init /\ [][Next]_vars /\ WF_vars(Next)
-----------------------------------------------------------------------------
(* Correctness.                                                            *)

Outcomes == {"return", "exit", "undefined"}

StackSymbols == TableSymbols \cup {"MARK", "E"}

(* Every variable keeps its type; while the automaton runs, the current      *)
(* element is on the tape (the list walk of parse_expression never follows a *)
(* NULL next pointer) and the stack has a bottom.                            *)
TypeOK ==
    /\ pc \in {"collect", "expr", "parse"} \cup Outcomes
    /\ token \in TokenSet
    /\ pp_list \in Seq(TokenSet) /\ list \in Seq(TokenSet) /\ AST_list \in Seq(TokenSet)
    /\ stack \in Seq(TokenSet) /\ \A i \in DOMAIN stack : stack[i].spec \in StackSymbols
    /\ got \in Seq(Lexemes)
    /\ ret_code \in VarTypes \cup {"BOOL"}
    /\ exit_code \in {0, 2, 6, 9}
    /\ element \in Nat
    /\ pc = "parse" => element \in DOMAIN pp_list /\ stack # <<>>

(* Whenever the table says reduce, there is a mark on the stack and at most  *)
(* three elements above it: the pop loop of reduce (precedence_parser.c:163) *)
(* has no bound of its own, and a fourth element would be stored to          *)
(* token[-1], a missing mark would pop the stack empty.                      *)
HandleFits ==
    Cell(">") => \E m \in DOMAIN stack :
        /\ stack[m].spec = "MARK"
        /\ \A i \in DOMAIN stack : i > m => stack[i].spec # "MARK"
        /\ Len(stack) \in (m + 1)..(m + 3)

(* When the table accepts, the stack is exactly "$ E": the type that         *)
(* parse_expression returns is that of an expression, never the type field   *)
(* of the bottom "$", which is not initialised.                              *)
AcceptsOneExpression ==
    Cell("#") => Len(stack) = 2 /\ stack[2].spec = "E" /\ stack[2].type \in VarTypes \cup {"BOOL"}

(* The tokens DLL_parse took from the scanner are the tape followed by list, *)
(* in source order: no token is lost, duplicated or handed back out of order.*)
Tape == IF pp_list # <<>> /\ pp_list[Len(pp_list)].spec = "$"
        THEN SubSeq(pp_list, 1, Len(pp_list) - 1) ELSE pp_list
Taken == [i \in DOMAIN got |-> Retag(got[i])]
TokensConserved ==
    /\ pc = "collect" => Taken = pp_list \o Record(Retag(token))
    /\ pc \in {"expr", "parse", "exit", "undefined"} => Taken = Tape \o list

(* The part of the delivered tokens that was not given back. *)
Expression == SubSeq(Taken, 1, Len(Taken) - Len(list))

(* What list holds when DLL_parse returns is what the caller can rely on to *)
(* go on: nothing only at the end of the file, a call as name and "(", else *)
(* a single token that ends the expression.  An accepted expression holds   *)
(* none of the tokens that end one.                                         *)
ReturnContract ==
    pc = "return" =>
        /\ list = <<>> <=> token.type = "EOF"
        /\ Len(list) \in 0..2
        /\ Len(list) = 2 => list[1].type = "IDENTIFIER" /\ list[2].spec = "("
        /\ Len(list) = 1 => list[1].type \in {"KEYWORD", "DATATYPE", "IDENTIFIER"} \/ list[1].attr = ","
        /\ \A i \in DOMAIN Expression : ~EndsTape(Expression[i])

(* item() of parser.c looks at AST_list only when a single token came back:  *)
(* a call that ends the tape (two tokens) never has an accepted expression   *)
(* in front of it, which would be dropped.                                   *)
NoExpressionDropped ==
    pc = "return" /\ Len(list) = 2 => AST_list = <<>>

(* An accepted expression divides by no literal zero.                       *)
LiteralZeroRejected ==
    pc = "return" => \A i \in 1..(Len(AST_list) - 1) :
        AST_list[i].attr = "0" => AST_list[i + 1].spec \notin {"/", "//"}

(* The operands an operator takes from a stack, and what that leaves there. *)
Takes(t) == IF t.spec = "i" THEN 0 ELSE IF t.spec = "#" THEN 1 ELSE 2
Left(height, t) == height - Takes(t) + 1

(* Whatever AST_dll_to_tree is given has an operand for every operator: read *)
(* from the left, no operator of the list takes an operand that is not there *)
(* and a single value remains.                                               *)
PostfixIsComplete ==
    pc = "return" /\ AST_list # <<>> =>
        LET height[n \in 0..Len(AST_list)] ==
                IF n = 0 THEN 0 ELSE Left(height[n - 1], AST_list[n])
        IN /\ \A n \in 1..Len(AST_list) : height[n - 1] >= Takes(AST_list[n])
           /\ height[Len(AST_list)] = 1

(* How far the call is from its end, and how much the current loop has left: *)
(* tokens to collect; a shift uses one up and adds at most two elements to   *)
(* the stack, a reduction takes one off at least.                            *)
Phase == CASE pc = "collect" -> 3 [] pc = "expr" -> 2 [] pc = "parse" -> 1 [] OTHER -> 0
Work ==
    CASE pc = "collect" -> 2 * (MaxTokens - Len(got)) + Len(Record(token))
      [] pc = "parse" -> 3 * (Len(pp_list) - element) + Len(stack)
      [] OTHER -> 0

(* No loop of DLL_parse or parse_expression makes a round without progress:  *)
(* the automaton cannot shift and reduce for ever on a tape that does not    *)
(* get shorter, whatever the table says.                                     *)
StepsProgress ==
    [][Phase' < Phase \/ (Phase' = Phase /\ Work' \in Nat /\ Work' < Work)]_vars
=============================================================================

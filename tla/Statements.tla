----------------------------- MODULE Statements -----------------------------
(***************************************************************************)
(* parser.c: the recursive-descent parser of programs, functions and       *)
(* statements, for one program given as a sequence of tokens.              *)
(*                                                                         *)
(* Each function of the parser is an action.  The C stack is "cont": what  *)
(* is still to be done, first things first, each with the tree node it     *)
(* works on; a function that calls others puts them and its own rest there.*)
(* Every function returns SUCCESS or does not return, so the results that  *)
(* the code combines with && are left out.                                 *)
(*                                                                         *)
(* DLL_parse is one step, by Cut and Postfix (PrecedenceParser implements  *)
(* it: ImplementsCall); the tree of an expression is a leaf that holds its *)
(* postfix form (Expression has the tree).  The symbol table is a sequence *)
(* of scopes and two sets of names (SymTab implements it).                 *)
(***************************************************************************)
EXTENDS ExprTape, ExprReference

CONSTANTS
    Inputs,     \* the inputs: text is a sequence of tokens, of says where it is from
    Builtins    \* import_builtins: the functions that exist from the start

ASSUME InputsAssumption == \A s \in Inputs : s.text \in Seq(Scanned)

VARIABLES
    source,         \* the input; the scanner delivers its text, then the end of the file
    pos,            \* how many tokens get_token has delivered, plus one
    token, token_lookahead,
    nodes,          \* the tree: nodes in the order of their creation, with their parents
    cont,           \* the C stack
    podezrely_token, from_func_def,
    blocks,         \* the variables' scopes, innermost last: sets of <<name, type>>
    declared, defined,
    exit_code       \* the argument of error(), 0 while the compiler runs

table == <<blocks, declared, defined>>
flags == <<podezrely_token, from_func_def>>
vars == <<source, pos, token, token_lookahead, nodes, cont, flags, table, exit_code>>

UndefinedBehaviour == -1   \* exit_code of a program of which nothing is known

-----------------------------------------------------------------------------
(* Tokens, tree and stack.                                                 *)

input == source.text

Scan(i) == IF i \in DOMAIN input THEN input[i] ELSE EofToken

(* The k-th token after the current one, read or not. *)
Ahead(k) == CASE k = 0 -> token [] k = 1 -> token_lookahead [] OTHER -> Scan(pos + k - 2)

(* k times moveAhead. *)
Move(k) == token' = Ahead(k) /\ token_lookahead' = Ahead(k + 1) /\ pos' = pos + k

(* AST_add_child; the new node's number. *)
Added(ns, parent, id, attr) == Append(ns, [id |-> id, attr |-> attr, parent |-> parent])
Fresh == Len(nodes) + 1
KidsOf(ns, n) == {m \in DOMAIN ns : ns[m].parent = n}
LastKid(ns, n) == Max(KidsOf(ns, n))

To(at, n) == <<[at |-> at, node |-> n]>>
At(f) == exit_code = 0 /\ cont # <<>> /\ cont[1].at = f
node == cont[1].node
Then(calls) == cont' = calls \o Tail(cont)

error(code) ==
    /\ exit_code' = code
    /\ UNCHANGED <<source, pos, token, token_lookahead, nodes, cont, flags, table>>

(* The functions go on only when their tokens are right. *)
Expect(right, Go) ==
    IF right THEN Go /\ UNCHANGED <<source, exit_code>> ELSE error(2)

Is(t, w) == t.attr = w
Keyword(t, w) == t.type = "KEYWORD" /\ t.attr = w

Init ==
    /\ source \in Inputs /\ pos = 1
    /\ token = EmptyToken /\ token_lookahead = EmptyToken
    /\ nodes = Added(<<>>, 0, "program", <<>>)
    /\ cont = To("program", 1)
    /\ podezrely_token = FALSE /\ from_func_def = FALSE
    /\ blocks = <<{}>> /\ declared = Builtins /\ defined = Builtins
    /\ exit_code = 0

-----------------------------------------------------------------------------
(* The program: prologue, declarations, definitions, calls.                *)

Prologue ==
    /\ At("program")
    /\ Expect(Is(Scan(1), "require") /\ Is(Scan(2), "\"ifj21\""),
              /\ token' = Scan(2) /\ token_lookahead' = Scan(3) /\ pos' = 4
              /\ Then(To("program_body", node))
              /\ UNCHANGED <<nodes, flags, table>>)

EndOfProgram ==
    /\ At("program_body") /\ Ahead(1).type = "EOF"
    /\ Then(<<>>)
    /\ UNCHANGED <<source, pos, token, token_lookahead, nodes, flags, table, exit_code>>

func_decl ==
    LET rest == To("func_decl_end", node) \o To("program_body", node) IN
    /\ At("program_body") /\ Keyword(Ahead(1), "global")
    /\ Expect(Is(Ahead(3), ":") /\ Is(Ahead(4), "function") /\ Is(Ahead(5), "("),
              /\ declared' = declared \cup {Ahead(2).attr}
              /\ IF Ahead(6).type = "DATATYPE"
                 THEN Move(6) /\ Then(To("types", node) \o rest)
                 ELSE Move(5) /\ Then(rest)
              /\ UNCHANGED <<nodes, flags, blocks, defined>>)

(* Mutant: no token is taken. *)
typesStays ==
    /\ At("types")
    /\ IF Is(Ahead(1), ")") \/ Ahead(1).type \in {"IDENTIFIER", "KEYWORD", "EOF"}
       THEN Then(<<>>) /\ UNCHANGED <<source, pos, token, token_lookahead, nodes, flags, table, exit_code>>
       ELSE Expect(Is(Ahead(1), ",") /\ Ahead(2).type = "DATATYPE",
                   UNCHANGED <<pos, token, token_lookahead, nodes, cont, flags, table>>)

types ==
    /\ At("types")
    /\ IF Is(Ahead(1), ")") \/ Ahead(1).type \in {"IDENTIFIER", "KEYWORD", "EOF"}
       THEN Then(<<>>) /\ UNCHANGED <<source, pos, token, token_lookahead, nodes, flags, table, exit_code>>
       ELSE Expect(Is(Ahead(1), ",") /\ Ahead(2).type = "DATATYPE",
                   Move(2) /\ UNCHANGED <<nodes, cont, flags, table>>)

(* The closing parenthesis, and the types a ":" announces. *)
Signature(here) ==
    IF Is(Ahead(2), ":")
    THEN Expect(Ahead(3).type = "DATATYPE",
                Move(3) /\ Then(To("types", node) \o here) /\ UNCHANGED <<nodes, flags, table>>)
    ELSE Move(1) /\ Then(here) /\ UNCHANGED <<source, nodes, flags, table, exit_code>>

FuncDeclEnd == At("func_decl_end") /\ IF Is(Ahead(1), ")") THEN Signature(<<>>) ELSE error(2)

(* A literal argument becomes a child, any other token is passed over. *)
WithConstant(ns, parent, t) ==
    IF t.type \in Literals THEN Added(ns, parent, "constant", <<t.attr>>) ELSE ns

func_call ==
    /\ At("program_body")
    /\ Ahead(1).type = "IDENTIFIER" /\ Ahead(2).type = "OPERATOR" /\ Is(Ahead(2), "(")
    /\ IF Ahead(1).attr \notin defined THEN error(3)
       ELSE LET called == Added(nodes, node, "func_call", <<Ahead(1).attr>>) IN
            /\ Move(3)
            /\ IF Is(Ahead(3), ")")
               THEN nodes' = called /\ Then(To("program_body", node))
               ELSE /\ nodes' = WithConstant(called, Fresh, Ahead(3))
                    /\ Then(To("constants", Fresh) \o To("program_body", node))
            /\ UNCHANGED <<source, flags, table, exit_code>>

constants ==
    /\ At("constants")
    /\ IF Is(Ahead(1), ")")
       THEN Move(1) /\ Then(<<>>) /\ UNCHANGED <<source, nodes, flags, table, exit_code>>
       ELSE Expect(Is(Ahead(1), ","),
                   /\ Move(2) /\ nodes' = WithConstant(nodes, node, Ahead(2))
                   /\ UNCHANGED <<cont, flags, table>>)

func_def ==
    /\ At("program_body") /\ Keyword(Ahead(1), "function")
    /\ IF Ahead(2).attr \in defined THEN error(3)
       ELSE LET def == Added(nodes, node, "func_def", <<Ahead(2).attr>>)
                body == To("func_def_signature", Fresh) \o To("program_body", node) IN
            Expect(/\ Is(Ahead(3), "(")
                   /\ Is(Ahead(4), ")") \/ (Is(Ahead(5), ":") /\ Ahead(6).type = "DATATYPE"),
                   /\ declared' = declared \cup {Ahead(2).attr} /\ defined' = defined \cup {Ahead(2).attr}
                   /\ IF Is(Ahead(4), ")") THEN Move(3) /\ nodes' = def /\ Then(body)
                      ELSE /\ Move(6)
                           /\ nodes' = Added(def, Fresh, "variable", <<Ahead(4).attr>>)
                           /\ Then(To("params", Fresh + 1) \o body)
                   /\ UNCHANGED <<flags, blocks>>)

(* Every parameter but the first hangs under the first; ":" is not looked at. *)
params ==
    /\ At("params")
    /\ IF Is(Ahead(1), ")")
       THEN Then(<<>>) /\ UNCHANGED <<source, pos, token, token_lookahead, nodes, flags, table, exit_code>>
       ELSE Expect(Is(Ahead(1), ",") /\ Ahead(4).type = "DATATYPE",
                   /\ Move(4) /\ nodes' = Added(nodes, node, "variable", <<Ahead(2).attr>>)
                   /\ UNCHANGED <<cont, flags, table>>)

FuncDefSignature == At("func_def_signature") /\ Signature(To("func_def_body", node))

(* A function without statements gets no body node. *)
FuncDefBody ==
    /\ At("func_def_body")
    /\ IF Is(Ahead(1), "end") THEN Move(1) /\ Then(<<>>) /\ UNCHANGED from_func_def
       ELSE /\ from_func_def' = TRUE
            /\ Then(To("func_body", node) \o To("func_def_end", node))
            /\ UNCHANGED <<pos, token, token_lookahead>>
    /\ UNCHANGED <<source, nodes, podezrely_token, table, exit_code>>

OtherPart ==
    /\ At("program_body") /\ Ahead(1).type # "EOF"
    /\ ~Keyword(Ahead(1), "global") /\ ~Keyword(Ahead(1), "function")
    /\ ~(Ahead(1).type = "IDENTIFIER" /\ Ahead(2).type = "OPERATOR" /\ Is(Ahead(2), "("))
    /\ error(2)

-----------------------------------------------------------------------------
(* Bodies.  func_body starts a block each time it is called, that is before  *)
(* each statement, and none is ever ended.                                   *)

BodyNode(n) == IF from_func_def THEN Added(nodes, n, "body", <<>>) ELSE nodes

(* Mutant: the flag of the suspicious token is not looked at. *)
FirstMovesAhead == 1

(* Where a statement begins: at the current token when it was read with the  *)
(* expression before it (podezrely_token), otherwise at the lookahead.       *)
First == IF podezrely_token THEN 0 ELSE 1

(* The function for the statement that begins with Ahead(i). *)
Element(i) ==
    CASE Keyword(Ahead(i), "if") -> "if_element"
      [] Keyword(Ahead(i), "while") -> "while_element"
      [] Keyword(Ahead(i), "return") -> "return_element"
      [] Ahead(i).type = "IDENTIFIER" /\ Ahead(i + 1).spec = "(" -> "func_element"
      [] Ahead(i).spec = "local" -> "decl_element"
      [] Is(Ahead(i + 1), ",") \/ Ahead(i + 1).type = "ASSIGNMENT" -> "assignment"
      [] OTHER -> "none"

(* Mutant: the flag of the suspicious token is not reset. *)
FuncBodyKeepsSuspicion ==
    /\ At("func_body") /\ token_lookahead.type # "EOF"
    /\ ~Is(token_lookahead, "end") /\ token_lookahead.spec # "else"
    /\ Expect(Element(First) # "none",
              LET ns == BodyNode(node) IN
              /\ nodes' = ns
              /\ blocks' = Append(blocks, {})
              /\ from_func_def' = FALSE /\ UNCHANGED podezrely_token
              /\ Move(First)
              /\ Then(To(Element(First), LastKid(ns, node)) \o To("func_body", node))
              /\ UNCHANGED <<declared, defined>>)

FuncBody ==
    /\ At("func_body") /\ token_lookahead.type # "EOF"
    /\ ~Is(token_lookahead, "end") /\ token_lookahead.spec # "else"
    /\ Expect(Element(First) # "none",
              LET ns == BodyNode(node) IN
              /\ nodes' = ns
              /\ blocks' = Append(blocks, {})
              /\ from_func_def' = FALSE /\ podezrely_token' = FALSE
              /\ Move(First)
              /\ Then(To(Element(First), LastKid(ns, node)) \o To("func_body", node))
              /\ UNCHANGED <<declared, defined>>)

(* Mutant: from_func_def is not reset at the end of an empty body. *)
FuncBodyEndKeepsFlag ==
    /\ At("func_body")
    /\ Is(token_lookahead, "end") \/ token_lookahead.spec = "else"
    /\ nodes' = BodyNode(node) /\ UNCHANGED from_func_def
    /\ blocks' = Append(blocks, {})
    /\ Then(<<>>)
    /\ IF Is(token_lookahead, "end") THEN Move(1) ELSE UNCHANGED <<pos, token, token_lookahead>>
    /\ UNCHANGED <<source, podezrely_token, declared, defined, exit_code>>

(* "end" is consumed, "else" is left to if_element; the flag stays as it is. *)
FuncBodyEnd ==
    /\ At("func_body")
    /\ Is(token_lookahead, "end") \/ token_lookahead.spec = "else"
    /\ nodes' = BodyNode(node) /\ from_func_def' = FALSE
    /\ blocks' = Append(blocks, {})
    /\ Then(<<>>)
    /\ IF Is(token_lookahead, "end") THEN Move(1) ELSE UNCHANGED <<pos, token, token_lookahead>>
    /\ UNCHANGED <<source, podezrely_token, declared, defined, exit_code>>

FuncBodyEof == At("func_body") /\ token_lookahead.type = "EOF" /\ error(2)

-----------------------------------------------------------------------------
(* Expressions.                                                             *)

(* What is left of the input: the lookahead, and what was not read. *)
Rest == (IF token_lookahead.type = "EOF" THEN <<>> ELSE <<token_lookahead>>)
        \o SubSeq(input, pos, Len(input))

(* The outcome of DLL_parse, which begins with the lookahead: the tape, the   *)
(* tokens it gives back, the postfix form, the position of the next token.    *)
Parsed ==
    {[tape |-> c.tape, list |-> c.list, next |-> pos + c.taken - 1, postfix |-> Postfix(c.tape)] :
        c \in {Cut(Rest)}}

VarTypeOf(n) ==
    LET in == {i \in DOMAIN blocks : \E v \in blocks[i] : v[1] = n} IN
    IF in = {} THEN "UNDEF"
    ELSE LET type == (CHOOSE v \in blocks[Max(in)] : v[1] = n)[2]
         IN CASE type = "integer" -> "INTEGER" [] type = "number" -> "DECIMAL"
              [] type = "string" -> "STRING" [] type = "nil" -> "NIL"

TypeOf(postfix) ==
    Evaluate(postfix, LAMBDA t : IF t.type = "IDENTIFIER" THEN VarTypeOf(t.attr) ELSE t.type,
             DocLength, DocType)[1]

(* The exit codes DLL_parse may end with; 0 when it returns.  In a tape that *)
(* is no expression an earlier operation may be ill-typed; a token without a *)
(* column in the table is undefined behaviour.                               *)
Outcomes(p) ==
    LET tape == p.tape
        op(S) == \E i \in DOMAIN tape : tape[i].spec \in S
        zero == IF op({"/", "//"}) THEN {9} ELSE {} IN
    IF tape = <<>> THEN {0}
    ELSE IF \E i \in DOMAIN tape : tape[i].spec \notin TableSymbols THEN {UndefinedBehaviour, 2, 6, 9}
    ELSE IF p.postfix = NoParse THEN {2} \cup zero \cup (IF op(BinaryOps \cup {"#"}) THEN {6} ELSE {})
    ELSE IF TypeOf(p.postfix) = "NONE" THEN {6} \cup zero ELSE {0} \cup zero

Callers == {"item", "if_element", "while_element"}

(* A call that ends the tape counts for an item only. *)
IsItemCall(p) == At("item") /\ Len(p.list) = 2

(* An error of the expression; the end of the file (2); no expression (99). *)
ExpressionFails ==
    /\ \E f \in Callers : At(f)
    /\ \E p \in Parsed :
       \/ \E code \in Outcomes(p) \ {0} : error(code)
       \/ 0 \in Outcomes(p) /\ p.list = <<>> /\ error(2)
       \/ p.tape = <<>> /\ p.list # <<>> /\ ~IsItemCall(p) /\ error(99)

(* AST_connect_DLL. *)
Connects(p) == p.tape # <<>> /\ p.list # <<>> /\ ~IsItemCall(p) /\ 0 \in Outcomes(p)
Connected(ns, parent, p) ==
    Added(ns, parent, "expr", [i \in DOMAIN p.postfix |-> p.postfix[i].attr])

(* A call: only its name is added, func_body will meet the call again. *)
ItemCall ==
    /\ At("item")
    /\ \E p \in Parsed :
       /\ IsItemCall(p) /\ 0 \in Outcomes(p)
       /\ nodes' = Added(nodes, node, "func_call", <<p.list[1].attr>>)
       /\ token' = p.list[1] /\ token_lookahead' = p.list[2] /\ pos' = p.next
       /\ podezrely_token' = TRUE
       /\ Then(<<>>)
       /\ UNCHANGED <<source, from_func_def, table, exit_code>>

StartsStatement(t) ==
    t.spec \in {"while", "return", "if", "local"} \/ t.type = "IDENTIFIER"

(* "end" is the lookahead once more; otherwise the next token is read. *)
AfterItem(t, next) ==
    IF t.spec = "end" THEN token_lookahead' = t /\ pos' = next
    ELSE token_lookahead' = Scan(next) /\ pos' = next + 1

ItemExpression ==
    /\ At("item")
    /\ \E p \in Parsed :
       /\ Connects(p)
       /\ nodes' = Connected(nodes, node, p)
       /\ token' = p.list[1] /\ AfterItem(p.list[1], p.next)
       /\ podezrely_token' = (podezrely_token \/ StartsStatement(p.list[1]))
       /\ Then(<<>>)
       /\ UNCHANGED <<source, from_func_def, table, exit_code>>

items ==
    /\ At("items")
    /\ IF token.type = "KEYWORD" \/ token_lookahead.spec = "("
       THEN Then(<<>>) /\ UNCHANGED <<source, exit_code>>
       ELSE Expect(Is(token, ","), Then(To("item", node) \o To("items", node)))
    /\ UNCHANGED <<pos, token, token_lookahead, nodes, flags, table>>

-----------------------------------------------------------------------------
(* Statements.  Each starts with its first token as the current one.        *)

(* The condition, the keyword after it and the first body.                  *)
Condition(id, word, Body(_, _, _)) ==
    \E p \in Parsed :
    LET head == Connected(Added(nodes, node, id, <<>>), Fresh, p) IN
    /\ Connects(p)
    /\ Expect(p.list[1].spec = word,
              /\ token' = p.list[1]
              /\ token_lookahead' = Scan(p.next) /\ pos' = p.next + 1
              /\ Body(Scan(p.next), head, Fresh)
              /\ UNCHANGED <<podezrely_token, table>>)

if_element ==
    /\ At("if_element")
    /\ Condition("branch", "then", LAMBDA first, head, branch :
          IF first.spec = "else"
          THEN /\ nodes' = Added(head, branch, "body", <<>>)
               /\ Then(To("else", branch)) /\ UNCHANGED from_func_def
          ELSE /\ nodes' = head /\ from_func_def' = TRUE
               /\ Then(To("func_body", branch) \o To("else", branch)))

(* Mutant: the else part is not announced as a new body. *)
IfElseUnannounced ==
    /\ At("else")
    /\ Expect(Ahead(1).spec = "else",
              /\ IF Ahead(2).spec = "end"
                 THEN /\ Move(2) /\ nodes' = Added(nodes, node, "body", <<>>)
                      /\ Then(To("element_end", node)) /\ UNCHANGED from_func_def
                 ELSE /\ Move(1) /\ UNCHANGED from_func_def
                      /\ Then(To("func_body", node) \o To("element_end", node))
                      /\ UNCHANGED nodes
              /\ UNCHANGED <<podezrely_token, table>>)

IfElse ==
    /\ At("else")
    /\ Expect(Ahead(1).spec = "else",
              /\ IF Ahead(2).spec = "end"
                 THEN /\ Move(2) /\ nodes' = Added(nodes, node, "body", <<>>)
                      /\ Then(To("element_end", node)) /\ UNCHANGED from_func_def
                 ELSE /\ Move(1) /\ from_func_def' = TRUE
                      /\ Then(To("func_body", node) \o To("element_end", node))
                      /\ UNCHANGED nodes
              /\ UNCHANGED <<podezrely_token, table>>)

while_element ==
    /\ At("while_element")
    /\ Condition("while", "do", LAMBDA first, head, while :
          /\ nodes' = head /\ from_func_def' = TRUE
          /\ Then(To("func_body", while) \o To("element_end", while)))

(* Mutant: the end of the body is not checked. *)
ElementEndUnchecked ==
    /\ At("element_end") \/ At("func_def_end")
    /\ Expect(TRUE, Then(<<>>) /\ UNCHANGED <<pos, token, token_lookahead, nodes, flags, table>>)

(* The checks for "end" after the last func_body of a construct. *)
ElementEnd ==
    /\ At("element_end") \/ At("func_def_end")
    /\ Expect(token.spec = "end",
              Then(<<>>) /\ UNCHANGED <<pos, token, token_lookahead, nodes, flags, table>>)

func_element ==
    LET call == Added(nodes, node, "func_call", <<token.attr>>) IN
    /\ At("func_element")
    /\ IF Ahead(2).spec = ")"
       THEN Move(2) /\ nodes' = Added(call, Fresh, "body", <<>>) /\ Then(<<>>)
       ELSE Move(1) /\ nodes' = call /\ Then(To("arg", Fresh) \o To("args", Fresh))
    /\ UNCHANGED <<source, flags, table, exit_code>>

arg ==
    LET t == Ahead(1)
        id == IF t.type = "IDENTIFIER" THEN "variable" ELSE "constant" IN
    /\ At("arg")
    /\ IF t.type = "IDENTIFIER" /\ VarTypeOf(t.attr) = "UNDEF" THEN error(3)
       ELSE Expect(t.type \in Literals \cup {"IDENTIFIER"},
                   /\ Move(1)
                   /\ nodes' = Added(nodes, node, id, <<t.attr>>)
                   /\ Then(<<>>)
                   /\ UNCHANGED <<flags, table>>)

(* Up to and including the closing parenthesis. *)
args ==
    /\ At("args")
    /\ Expect(Is(Ahead(1), ")") \/ Is(Ahead(1), ","),
              /\ Move(1)
              /\ Then(IF Is(Ahead(1), ")") THEN <<>> ELSE To("arg", node) \o To("args", node))
              /\ UNCHANGED <<nodes, flags, table>>)

return_element ==
    /\ At("return_element")
    /\ Expect(token_lookahead.type \in {"KEYWORD", "IDENTIFIER"} \cup Literals,
              /\ nodes' = Added(nodes, node, "return", <<>>)
              /\ Then(IF token_lookahead.type = "KEYWORD" THEN <<>>
                      ELSE To("item", Fresh) \o To("items", Fresh))
              /\ UNCHANGED <<pos, token, token_lookahead, flags, table>>)

(* define_var fails when the innermost scope has the name. *)
decl_element ==
    LET name == Ahead(1).attr
        scope == blocks[Len(blocks)] IN
    /\ At("decl_element")
    /\ IF /\ Ahead(1).type = "IDENTIFIER" /\ Is(Ahead(2), ":") /\ Ahead(3).type = "DATATYPE"
          /\ \E v \in scope : v[1] = name
       THEN error(3)
       ELSE Expect(Ahead(1).type = "IDENTIFIER" /\ Is(Ahead(2), ":") /\ Ahead(3).type = "DATATYPE",
              /\ nodes' = Added(nodes, node, "var_declare", <<name>>)
              /\ blocks' = [blocks EXCEPT ![Len(blocks)] = @ \cup {<<name, Ahead(3).spec>>}]
              /\ IF Ahead(4).type = "ASSIGNMENT" THEN Move(4) /\ Then(To("item", Fresh))
                 ELSE Move(3) /\ Then(<<>>)
              /\ UNCHANGED <<flags, declared, defined>>)

assignment ==
    /\ At("assignment")
    /\ Expect(token.type = "IDENTIFIER",
              /\ nodes' = Added(Added(nodes, node, "assign", <<>>), Fresh, "variable", <<token.attr>>)
              /\ Then(To("ids", Fresh))
              /\ UNCHANGED <<pos, token, token_lookahead, flags, table>>)

(* The rest of the left side, and the "=" after it. *)
ids ==
    /\ At("ids")
    /\ IF Is(Ahead(1), ",")
       THEN Expect(Ahead(2).type = "IDENTIFIER",
                   Move(2) /\ nodes' = Added(nodes, node, "variable", <<Ahead(2).attr>>) /\ UNCHANGED cont)
       ELSE Expect(Ahead(1).type = "ASSIGNMENT",
                   Move(1) /\ Then(To("item", node) \o To("items", node)) /\ UNCHANGED nodes)
    /\ UNCHANGED <<flags, table>>

Halted == (cont = <<>> \/ exit_code # 0) /\ UNCHANGED vars

Next ==
    \/ Prologue \/ EndOfProgram \/ OtherPart
    \/ func_decl \/ FuncDeclEnd \/ types \/ func_call \/ constants
    \/ func_def \/ params \/ FuncDefSignature \/ FuncDefBody
    \/ FuncBody \/ FuncBodyEnd \/ FuncBodyEof
    \/ ItemCall \/ ItemExpression \/ items \/ ExpressionFails
    \/ if_element \/ IfElse \/ while_element \/ ElementEnd
    \/ func_element \/ arg \/ args \/ return_element
    \/ decl_element \/ assignment \/ ids
    \/ Halted

(* One thread; DLL_parse comes back (Terminates of PrecedenceParser). *)
Spec == Init /\ [][Next]_vars /\ WF_vars(Next)

-----------------------------------------------------------------------------
(* What the tree owes to the generator.                                     *)

Accepted == cont = <<>>

ItemIds == {"expr", "func_call"}
StatementIds == {"branch", "while", "assign", "var_declare", "return", "func_call"}

(* The children of n are of the kinds k, in this order. *)
HasKids(ns, n, k) ==
    \E c \in [DOMAIN k -> KidsOf(ns, n)] :
        /\ KidsOf(ns, n) = {c[i] : i \in DOMAIN k}
        /\ \A i \in DOMAIN k : ns[c[i]].id = k[i]
        /\ \A i, j \in DOMAIN k : i < j => c[i] < c[j]

KidsIn(ns, n, S) == \A m \in KidsOf(ns, n) : ns[m].id \in S

(* The variables on the left come before what is assigned to them. *)
VariablesFirst(ns, n) ==
    /\ KidsIn(ns, n, {"variable"} \cup ItemIds)
    /\ \A l, m \in KidsOf(ns, n) : l < m /\ ns[m].id = "variable" => ns[l].id = "variable"

(* The children the generator indexes without a look at their number or kind *)
(* (g_branch, g_while, g_assign, g_decl_var, g_body) are there.              *)
GeneratorContract ==
    Accepted => \A n \in DOMAIN nodes :
        CASE nodes[n].id = "branch" -> HasKids(nodes, n, <<"expr", "body", "body">>)
          [] nodes[n].id = "while" -> HasKids(nodes, n, <<"expr", "body">>)
          [] nodes[n].id = "assign" ->
                VariablesFirst(nodes, n) /\ ~KidsIn(nodes, n, ItemIds) /\ ~KidsIn(nodes, n, {"variable"})
          [] nodes[n].id = "var_declare" ->
                KidsIn(nodes, n, ItemIds) /\ \A l, m \in KidsOf(nodes, n) : l = m
          [] nodes[n].id = "return" -> KidsIn(nodes, n, ItemIds)
          [] nodes[n].id = "body" -> KidsIn(nodes, n, StatementIds)
          [] nodes[n].id = "func_call" ->
                HasKids(nodes, n, <<"body">>) \/ KidsIn(nodes, n, {"constant", "variable"})
          [] nodes[n].id \in {"expr", "constant"} -> KidsOf(nodes, n) = {}
          [] OTHER -> TRUE

-----------------------------------------------------------------------------
(* Progress.                                                                *)

(* What a function weighs: more than all that it calls before a token is read. *)
Weight(f) ==
    CASE f = "func_def_signature" -> 4
      [] f \in {"func_def_body", "func_element"} -> 3
      [] f = "assignment" -> 2
      [] OTHER -> 1

Load(ct) == Cardinality({p \in (DOMAIN ct) \X (1..4) : p[2] <= Weight(ct[p[1]].at)})

(* What is left to do, the most important first. *)
Left == <<Len(Rest), IF podezrely_token THEN 1 ELSE 0,
          IF cont # <<>> /\ cont[1].at = "item" THEN 0 ELSE 1, Load(cont)>>

Less(a, b) == \E k \in DOMAIN a : a[k] < b[k] /\ \A j \in 1..(k - 1) : a[j] = b[j]

(* The functions of parser.c cannot go on calling one another for ever:      *)
(* between two tokens that are read, the suspicious token is dealt with at   *)
(* most once, an item that is called reads one, and all else that is called  *)
(* on the way weighs less than what it replaces, on every input, also beyond *)
(* its end.                                                                  *)
CallsProgress == [][exit_code' # exit_code \/ Less(Left', Left)]_vars
=============================================================================

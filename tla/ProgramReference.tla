-------------------------- MODULE ProgramReference --------------------------
(***************************************************************************)
(* Reference definitions the statement parser is compared with.            *)
(*                                                                         *)
(* A program is written as data: a sequence of declarations, definitions   *)
(* and calls, a definition holding a sequence of statements.  Text gives   *)
(* its tokens and ProgramTree its tree: the one ast.h:19-35 describes, but *)
(* for the deviations it is given.  Deviations are those of this compiler, *)
(* in which its tree is not the documented one.  IsProgram is the grammar  *)
(* of the BNF comments of parser.c as a recogniser of any token sequence:  *)
(* each rule maps the positions at which a phrase may begin to those at    *)
(* which it may end.                                                       *)
(***************************************************************************)
EXTENDS ExprTape, ExprReference, MCTokens

Prolog == <<Word("require"), Lit("STRING", "\"ifj21\"")>>

(* Statements.  An item is an expression, or a call of a named function with *)
(* the tokens of its arguments.                                              *)
Expr(toks)    == [name |-> "", toks |-> toks]
Invoke(f, as) == [name |-> f, toks |-> as]
IsCall(item)  == item.name # ""

Stmt(k, ids, type, items, a, b) ==
    [k |-> k, ids |-> ids, type |-> type, items |-> items, a |-> a, b |-> b]
Local(x, t, items)   == Stmt("local", <<x>>, t, items, <<>>, <<>>)
Set(ids, items)      == Stmt("assign", ids, "", items, <<>>, <<>>)
Run(f, as)           == Stmt("call", <<>>, "", <<Invoke(f, as)>>, <<>>, <<>>)
Return(items)        == Stmt("return", <<>>, "", items, <<>>, <<>>)
If(toks, a, b)       == Stmt("if", <<>>, "", <<Expr(toks)>>, a, b)
While(toks, a)       == Stmt("while", <<>>, "", <<Expr(toks)>>, a, <<>>)

(* The parts of a program: params is a sequence of <<name, type>>.           *)
Declare(f, types, returns) == [k |-> "global", name |-> f, types |-> types, returns |-> returns]
Define(f, params, returns, body) ==
    [k |-> "function", name |-> f, params |-> params, returns |-> returns, body |-> body]
Top(f, as) == [k |-> "call", name |-> f, args |-> as]

-----------------------------------------------------------------------------
(* The tokens of a program.                                                 *)

Flat(Of(_), s) == FlattenSeq([i \in DOMAIN s |-> Of(s[i])])

(* The phrases of s, with commas between them. *)
Commas(Of(_), s) ==
    FlattenSeq([i \in DOMAIN s |-> IF i = 1 THEN Of(s[i]) ELSE <<Comma>> \o Of(s[i])])

TokText(t)  == <<t>>
IdText(n)   == <<Id(n)>>
TypeText(t) == <<Word(t)>>
ParamText(p) == <<Id(p[1]), Colon, Word(p[2])>>

CallText(f, as) == <<Id(f), Op("(")>> \o Commas(TokText, as) \o <<Op(")")>>
ItemText(i) == IF IsCall(i) THEN CallText(i.name, i.toks) ELSE i.toks
ItemsText(s) == Commas(ItemText, s)

RECURSIVE StmtText(_)
StmtText(s) ==
    CASE s.k = "local" -> <<Word("local"), Id(s.ids[1]), Colon, Word(s.type)>>
                          \o (IF s.items = <<>> THEN <<>> ELSE <<Assign>>) \o ItemsText(s.items)
      [] s.k = "assign" -> Commas(IdText, s.ids) \o <<Assign>> \o ItemsText(s.items)
      [] s.k = "call" -> ItemsText(s.items)
      [] s.k = "return" -> <<Word("return")>> \o ItemsText(s.items)
      [] s.k = "if" -> <<Word("if")>> \o ItemsText(s.items) \o <<Word("then")>> \o Flat(StmtText, s.a)
                       \o <<Word("else")>> \o Flat(StmtText, s.b) \o <<Word("end")>>
      [] s.k = "while" -> <<Word("while")>> \o ItemsText(s.items) \o <<Word("do")>>
                          \o Flat(StmtText, s.a) \o <<Word("end")>>

ReturnsText(rs) == IF rs = <<>> THEN <<>> ELSE <<Colon>> \o Commas(TypeText, rs)

PartText(p) ==
    CASE p.k = "global" -> <<Word("global"), Id(p.name), Colon, Word("function"), Op("(")>>
                           \o Commas(TypeText, p.types) \o <<Op(")")>> \o ReturnsText(p.returns)
      [] p.k = "function" -> <<Word("function"), Id(p.name), Op("(")>> \o Commas(ParamText, p.params)
                             \o <<Op(")")>> \o ReturnsText(p.returns)
                             \o Flat(StmtText, p.body) \o <<Word("end")>>
      [] p.k = "call" -> CallText(p.name, p.args)

Text(program) == Prolog \o Flat(PartText, program)

-----------------------------------------------------------------------------
(* The tree of a program.  The tree of an expression is a leaf that holds    *)
(* its postfix form.                                                         *)

(* Where the tree of this compiler is known to differ from ast.h:            *)
(*   "bare parameters"  func_def (ast.h:22) has no node for the returns and  *)
(*                      none for the parameters: its children are the        *)
(*                      variables and the body (parser.c:221, :320)          *)
(*   "named only"       a func_call among the items (ast.h:29) has the name  *)
(*                      only, and the call with its parameters follows as a  *)
(*                      statement of its own (parser.c:626, :646)            *)
(*   "empty body"       within a function a func_call without parameters has *)
(*                      a body for a child (parser.c:514)                    *)
(*   "value below"      var_declare (ast.h:27: no children) has the value of *)
(*                      the variable as a child; no assign follows           *)
(*   "no count"         assign (ast.h:28) does not say how many variables it *)
(*                      has (parser.c:735)                                   *)
Deviations == {"bare parameters", "named only", "empty body", "value below", "no count"}

Tree(id, attr, kids) == [id |-> id, attr |-> attr, kids |-> kids]

Leaf(toks) == LET p == Postfix([i \in DOMAIN toks |-> Retag(toks[i])])
              IN Tree("expr", [i \in DOMAIN p |-> p[i].attr], <<>>)
VariableTree(n) == Tree("variable", <<n>>, <<>>)
ArgTree(t) == IF t.type = "IDENTIFIER" THEN VariableTree(t.attr) ELSE Tree("constant", <<t.attr>>, <<>>)
Trees(Of(_), s) == [i \in DOMAIN s |-> Of(s[i])]

CallTree(i, dev) ==
    Tree("func_call", <<i.name>>,
         IF i.toks = <<>> /\ "empty body" \in dev THEN <<Tree("body", <<>>, <<>>)>> ELSE Trees(ArgTree, i.toks))

ItemTrees(items, dev) ==
    Trees(LAMBDA i : IF ~IsCall(i) THEN Leaf(i.toks)
                     ELSE IF "named only" \in dev THEN Tree("func_call", <<i.name>>, <<>>)
                     ELSE CallTree(i, dev), items)

(* The call that is made again after the statement with these items. *)
CallAgain(items, dev) ==
    IF "named only" \in dev /\ items # <<>> /\ IsCall(Last(items)) THEN <<CallTree(Last(items), dev)>> ELSE <<>>

AssignTree(ids, items, dev) ==
    Tree("assign", IF "no count" \in dev THEN <<>> ELSE <<Len(ids)>>,
         Trees(VariableTree, ids) \o ItemTrees(items, dev))

RECURSIVE StmtTrees(_, _)
BodyTree(body, dev) == Tree("body", <<>>, Flat(LAMBDA s : StmtTrees(s, dev), body))

StmtTrees(s, dev) ==
    LET items == ItemTrees(s.items, dev) IN
    CASE s.k = "local" /\ ("value below" \in dev \/ s.items = <<>>) ->
            <<Tree("var_declare", s.ids, items)>> \o CallAgain(s.items, dev)
      [] s.k = "local" /\ "value below" \notin dev /\ s.items # <<>> ->
            <<Tree("var_declare", s.ids, <<>>), AssignTree(s.ids, s.items, dev)>> \o CallAgain(s.items, dev)
      [] s.k = "assign" -> <<AssignTree(s.ids, s.items, dev)>> \o CallAgain(s.items, dev)
      [] s.k = "call" -> <<CallTree(s.items[1], dev)>>
      [] s.k = "return" -> <<Tree("return", <<>>, items)>> \o CallAgain(s.items, dev)
      [] s.k = "if" -> <<Tree("branch", <<>>, items \o <<BodyTree(s.a, dev), BodyTree(s.b, dev)>>)>>
      [] s.k = "while" -> <<Tree("while", <<>>, items \o <<BodyTree(s.a, dev)>>)>>

PartTrees(p, dev) ==
    LET params == Trees(LAMBDA q : VariableTree(q[1]), p.params) IN
    CASE p.k = "global" -> <<>>
      [] p.k = "function" ->
            <<Tree("func_def", <<p.name>>,
                   (IF "bare parameters" \in dev THEN params
                    ELSE <<Tree("returns", <<Len(p.returns)>>, <<>>), Tree("params", <<>>, params)>>)
                   \o <<BodyTree(p.body, dev)>>)>>
      [] p.k = "call" -> <<Tree("func_call", <<p.name>>, Trees(ArgTree, p.args))>>

ProgramTree(program, dev) == Tree("program", <<>>, Flat(LAMBDA p : PartTrees(p, dev), program))

-----------------------------------------------------------------------------
(* Programs the parser is known to treat differently (README, divergences). *)

EndsWithExpression(s) ==
    s.k \in {"local", "assign", "return"} /\ s.items # <<>> /\ ~IsCall(Last(s.items))

BareReturn(s) == s.k = "return" /\ s.items = <<>>

(* The statements of a body that ends at "else" or "end". *)
RECURSIVE SupportedBody(_, _)
SupportedBody(body, end) ==
    /\ \A i \in DOMAIN body : LET s == body[i] IN
        /\ i < Len(body) /\ EndsWithExpression(s) => s.k = "local" \/ body[i + 1].k # "assign"
        /\ i < Len(body) /\ BareReturn(s) => body[i + 1].k \notin {"assign", "call"}
        /\ i + 1 = Len(body) /\ EndsWithExpression(s) => ~BareReturn(body[i + 1])
        /\ \A j \in 1..(Len(s.items) - 1) : ~IsCall(s.items[j])
        /\ s.k = "if" => SupportedBody(s.a, "else") /\ SupportedBody(s.b, "end")
        /\ s.k = "while" => SupportedBody(s.a, "end")
    /\ end = "else" /\ body # <<>> => ~EndsWithExpression(Last(body))

Supported(p) ==
    \A i \in DOMAIN p : p[i].k = "function" =>
        SupportedBody(p[i].body, "end") /\ p[i].body # <<>> /\ Len(p[i].params) <= 1

-----------------------------------------------------------------------------
(* The grammar.  Each rule maps a set of positions in s to those one phrase  *)
(* further.                                                                  *)

Next1(s, S, P(_)) == {i + 1 : i \in {j \in S : j \in DOMAIN s /\ P(s[j])}}

Kw(s, S, w)  == Next1(s, S, LAMBDA t : t.attr = w)
Name(s, S)   == Next1(s, S, LAMBDA t : t.type = "IDENTIFIER")
Type(s, S)   == Next1(s, S, LAMBDA t : t.type = "DATATYPE")
Constant(s, S) == Next1(s, S, LAMBDA t : t.type \in Literals)
Arg(s, S)    == Name(s, S) \cup Constant(s, S)

(* One or more phrases with commas between them. *)
Listed(s, S, Phrase(_, _)) ==
    LET RECURSIVE From(_)
        From(T) == LET one == Phrase(s, T)
                   IN IF one = {} THEN {} ELSE one \cup From(Kw(s, one, ","))
    IN From(S)

Opt(s, S, Phrase(_, _)) == S \cup Phrase(s, S)

Parens(s, S, Phrase(_, _)) ==
    LET open == Kw(s, S, "(") IN Kw(s, open \cup Listed(s, open, Phrase), ")")

Types(s, S) == LET colon == Kw(s, S, ":") IN Listed(s, colon, Type)

Expression(s, S) ==
    LET r == [i \in DOMAIN s |-> Retag(s[i])]
    IN {j \in 2..(Len(s) + 1) :
           \E i \in S : i < j /\ (\A k \in i..(j - 1) : r[k].spec \in TableSymbols)
                       /\ Postfix(SubSeq(r, i, j - 1)) # NoParse}

Call(s, S) == Parens(s, Name(s, S), Arg)
Item(s, S) == Call(s, S) \cup Expression(s, S)

Assigned(s, S, Left(_, _), Right(_, _)) == Right(s, Kw(s, Left(s, S), "="))

Items(s, S) == Listed(s, S, Item)
Names(s, S) == Listed(s, S, Name)
LocalName(s, S) == Type(s, Kw(s, Name(s, Kw(s, S, "local")), ":"))

RECURSIVE Statements(_, _), Statement(_, _)
Statement(s, S) ==
    UNION {LocalName(s, S), Assigned(s, S, LocalName, Item), Assigned(s, S, Names, Items),
           Call(s, S), Opt(s, Kw(s, S, "return"), Items),
           LET then == Statements(s, Kw(s, Expression(s, Kw(s, S, "if")), "then"))
           IN Kw(s, Statements(s, Kw(s, then, "else")), "end"),
           Kw(s, Statements(s, Kw(s, Expression(s, Kw(s, S, "while")), "do")), "end")}
Statements(s, S) ==
    IF S = {} THEN {} ELSE S \cup Statements(s, Statement(s, S))

Param(s, S) == Type(s, Kw(s, Name(s, S), ":"))

Part(s, S) ==
    LET declared == Parens(s, Kw(s, Kw(s, Name(s, Kw(s, S, "global")), ":"), "function"), Type)
        head == Parens(s, Name(s, Kw(s, S, "function")), Param)
    IN UNION {Opt(s, declared, Types), Kw(s, Statements(s, Opt(s, head, Types)), "end"),
              Parens(s, Name(s, S), Constant)}

RECURSIVE Parts(_, _)
Parts(s, S) == IF S = {} THEN {} ELSE S \cup Parts(s, Part(s, S))

IsProgram(s) == Len(s) + 1 \in Parts(s, Kw(s, Kw(s, {1}, "require"), "\"ifj21\""))
=============================================================================

------------------------------ MODULE Generator ------------------------------
(***************************************************************************)
(* generator.c: the code that is printed for a tree.                       *)
(*                                                                         *)
(* A function of the generator takes what has been printed so far and the  *)
(* counters (a record g) and returns them as it leaves them.  Instructions *)
(* are those of IFJcode21; names of variables and labels are put together  *)
(* as the code does it, since their being distinct is what is at stake.    *)
(* Comments and blank lines are left out.                                  *)
(*                                                                         *)
(* A node is [id, attr, kids] with the token's own text as attribute; the  *)
(* relations and operations are the expression trees of ExprTree.          *)
(***************************************************************************)
EXTENDS ExprTree, SequencesExt, TLC

CONSTANT Number     \* strtol, strtod: the values of the literals that are numbers

Begun == [out |-> <<>>, exprs |-> 0, ifs |-> 0, whiles |-> 0, integrated |-> 0]

Emit(g, code) == [g EXCEPT !.out = @ \o code]
Each(Of(_, _), g, kids) == FoldLeft(Of, g, kids)

Var(x) == <<"var", x>>
IntValue(n) == <<"int", n>>
StringValue(s) == <<"string", s>>
TrueValue == <<"bool", TRUE>>
NilValue == <<"nil", "nil">>
Numbered(name, n) == name \o ToString(n)

(* string_transform drops the first and the last character, the quotes of a  *)
(* literal; the machine undoes its escapes.                                  *)
string_transform(s) == IF Len(s) < 2 THEN "" ELSE SubSeq(s, 2, Len(s) - 1)

(* saved_type and value of a constant (get_attribut, arg).                   *)
ConstantValue(attr) ==
    IF attr = "nil" THEN NilValue
    ELSE IF attr \in DOMAIN Number THEN Number[attr] ELSE StringValue(string_transform(attr))

-----------------------------------------------------------------------------
(* The functions that exist from the start.  i is the value of the counter   *)
(* integrated_count; L names a label or a variable of the function.          *)

Function(name, code(_), g) ==
    LET labelled == <<<<"LABEL", "$" \o name>>>> \o code(g.integrated)
    IN [Emit(g, labelled \o <<<<"RETURN">>>>) EXCEPT !.integrated = @ + 1]

Reader(type, i) ==
    LET x == Numbered("$integrated-", i)
    IN <<<<"DEFVAR", x>>, <<"READ", x, type>>, <<"PUSHS", Var(x)>>>>

g_reads(g) == Function("reads", LAMBDA i : Reader("string", i), g)
g_readi(g) == Function("readi", LAMBDA i : Reader("int", i), g)
g_readn(g) == Function("readn", LAMBDA i : Reader("float", i), g)

Argument(x) == <<<<"DEFVAR", x>>, <<"POPS", x>>>>
JumpIf(to, cond) == <<<<"JUMPIFEQ", to, Var(cond), TrueValue>>>>

(* Jump to a label when variable x is nil. *)
IfNil(x, type, bool, to) ==
    <<<<"TYPE", type, Var(x)>>, <<"EQ", bool, Var(type), StringValue("nil")>>>> \o JumpIf(to, bool)

g_tointeger(g) == Function("tointeger", LAMBDA i :
    LET L(name) == Numbered(name, i) IN
    Argument(L("$integrated-0-"))
    \o <<<<"DEFVAR", L("$toi-nil-check-")>>, <<"DEFVAR", L("$toi-nil-check-bool-")>>>>
    \o IfNil(L("$integrated-0-"), L("$toi-nil-check-"), L("$toi-nil-check-bool-"), L("$tointeger-ret-nil-"))
    \o <<<<"JUMP", L("$tointeger-ret-nil-end-")>>, <<"LABEL", L("$tointeger-ret-nil-")>>,
         <<"PUSHS", NilValue>>, <<"JUMP", L("$tointeger-end-")>>,
         <<"LABEL", L("$tointeger-ret-nil-end-")>>, <<"DEFVAR", L("$integrated-1-")>>,
         <<"FLOAT2INT", L("$integrated-1-"), Var(L("$integrated-0-"))>>,
         <<"PUSHS", Var(L("$integrated-1-"))>>, <<"LABEL", L("$tointeger-end-")>>>>, g)

(* Mutant: the index is moved after its character is taken. *)
SubstrLoopMovesLate(i) ==
    LET L(name) == Numbered(name, i) IN
    <<<<"LABEL", L("$while-substr-")>>,
      <<"LT", L("$both_check-res3-"), Var(L("$j-")), Var(L("$i-"))>>>>
    \o JumpIf(L("$end-while-substr-"), L("$both_check-res3-"))
    \o <<<<"GETCHAR", L("$substring-char-"), Var(L("$s-")), Var(L("$i-"))>>,
         <<"ADD", L("$i-"), Var(L("$i-")), IntValue(1)>>,
         <<"CONCAT", L("$substring-res-"), Var(L("$substring-res-")), Var(L("$substring-char-"))>>,
         <<"JUMP", L("$while-substr-")>>, <<"LABEL", L("$end-while-substr-")>>>>

(* Mutant: the index is never moved. *)
SubstrLoopStays(i) ==
    LET L(name) == Numbered(name, i) IN
    <<<<"LABEL", L("$while-substr-")>>,
      <<"LT", L("$both_check-res3-"), Var(L("$j-")), Var(L("$i-"))>>>>
    \o JumpIf(L("$end-while-substr-"), L("$both_check-res3-"))
    \o <<<<"JUMP", L("$while-substr-")>>, <<"LABEL", L("$end-while-substr-")>>>>

(* The loop of substr: i is moved, then its character is taken. *)
SubstrLoop(i) ==
    LET L(name) == Numbered(name, i) IN
    <<<<"LABEL", L("$while-substr-")>>, <<"ADD", L("$i-"), Var(L("$i-")), IntValue(1)>>,
      <<"LT", L("$both_check-res3-"), Var(L("$j-")), Var(L("$i-"))>>>>
    \o JumpIf(L("$end-while-substr-"), L("$both_check-res3-"))
    \o <<<<"GETCHAR", L("$substring-char-"), Var(L("$s-")), Var(L("$i-"))>>,
         <<"CONCAT", L("$substring-res-"), Var(L("$substring-res-")), Var(L("$substring-char-"))>>,
         <<"JUMP", L("$while-substr-")>>, <<"LABEL", L("$end-while-substr-")>>>>

g_substr(g) == Function("substr", LAMBDA i :
    LET L(name) == Numbered(name, i)
        CheckNil(x) == IfNil(x, L("$write-nil-check-"), L("$write-nil-check-bool-"), L("$write-exit-8")) IN
    Argument(L("$s-")) \o Argument(L("$i-")) \o Argument(L("$j-"))
    \o <<<<"DEFVAR", L("$write-nil-check-")>>, <<"DEFVAR", L("$write-nil-check-bool-")>>>>
    \o CheckNil(L("$s-")) \o CheckNil(L("$i-")) \o CheckNil(L("$j-"))
    \o <<<<"DEFVAR", L("$low_check-res-")>>, <<"LT", L("$low_check-res-"), Var(L("$i-")), IntValue(1)>>>>
    \o JumpIf(L("$return-empty-"), L("$low_check-res-"))
    \o <<<<"DEFVAR", L("$high_check-strlen-")>>, <<"STRLEN", L("$high_check-strlen-"), Var(L("$s-"))>>,
         <<"DEFVAR", L("$high_check-res2-")>>,
         <<"LT", L("$high_check-res2-"), Var(L("$high_check-strlen-")), Var(L("$j-"))>>>>
    \o JumpIf(L("$return-empty-"), L("$high_check-res2-"))
    \o <<<<"DEFVAR", L("$substring-res-")>>, <<"MOVE", L("$substring-res-"), StringValue("")>>,
         <<"DEFVAR", L("$substring-char-")>>,
         <<"SUB", L("$i-"), Var(L("$i-")), IntValue(2)>>, <<"SUB", L("$j-"), Var(L("$j-")), IntValue(1)>>,
         <<"DEFVAR", L("$both_check-res3-")>>>>
    \o SubstrLoop(i)
    \o <<<<"PUSHS", Var(L("$substring-res-"))>>, <<"JUMP", L("$write-hop-")>>,
         <<"LABEL", L("$return-empty-")>>, <<"PUSHS", StringValue("")>>, <<"LABEL", L("$write-hop-")>>,
         <<"JUMP", L("$write-hop2-")>>, <<"LABEL", L("$write-exit-8")>>, <<"EXIT", IntValue(8)>>,
         <<"LABEL", L("$write-hop2-")>>>>, g)

(* What ord and chr share: their value, nil outside the range, error 8. *)
Results(value, L(_)) ==
    <<<<"PUSHS", Var(value)>>, <<"JUMP", L("hop-")>>, <<"LABEL", L("retnil-")>>, <<"PUSHS", NilValue>>,
      <<"LABEL", L("hop-")>>, <<"JUMP", L("hop2-")>>, <<"LABEL", L("exit-8")>>, <<"EXIT", IntValue(8)>>,
      <<"LABEL", L("hop2-")>>>>

g_ord(g) == Function("ord", LAMBDA i :
    LET L(name) == Numbered("$ord-" \o name, i)
        CheckNil(x) == IfNil(x, L("nil-check-"), L("nil-check-bool-"), L("exit-8")) IN
    Argument(L("s-")) \o Argument(L("i-"))
    \o <<<<"DEFVAR", L("nil-check-")>>, <<"DEFVAR", L("nil-check-bool-")>>>>
    \o CheckNil(L("s-")) \o CheckNil(L("i-"))
    \o <<<<"DEFVAR", L("low_check-res-")>>, <<"DEFVAR", L("high_check-strlen-")>>,
         <<"STRLEN", L("high_check-strlen-"), Var(L("s-"))>>, <<"DEFVAR", L("high_check-res2-")>>,
         <<"GT", L("high_check-res2-"), Var(L("i-")), Var(L("high_check-strlen-"))>>>>
    \o JumpIf(L("retnil-"), L("high_check-res2-"))
    \o <<<<"LT", L("low_check-res-"), Var(L("i-")), IntValue(1)>>>> \o JumpIf(L("retnil-"), L("low_check-res-"))
    \o <<<<"DEFVAR", L("final-res-")>>, <<"SUB", L("i-"), Var(L("i-")), IntValue(1)>>,
         <<"STRI2INT", L("final-res-"), Var(L("s-")), Var(L("i-"))>>>>
    \o Results(L("final-res-"), L), g)

g_chr(g) == Function("chr", LAMBDA i :
    LET L(name) == Numbered("$chr-" \o name, i) IN
    Argument(L("i-"))
    \o <<<<"DEFVAR", L("nil-check-")>>, <<"DEFVAR", L("nil-check-bool-")>>>>
    \o IfNil(L("i-"), L("nil-check-"), L("nil-check-bool-"), L("exit-8"))
    \o <<<<"DEFVAR", L("low_check-res-")>>, <<"DEFVAR", L("high_check-res2-")>>,
         <<"GT", L("high_check-res2-"), Var(L("i-")), IntValue(255)>>>>
    \o JumpIf(L("retnil-"), L("high_check-res2-"))
    \o <<<<"LT", L("low_check-res-"), Var(L("i-")), IntValue(0)>>>> \o JumpIf(L("retnil-"), L("low_check-res-"))
    \o <<<<"DEFVAR", L("final-res-")>>, <<"INT2CHAR", L("final-res-"), Var(L("i-"))>>>>
    \o Results(L("final-res-"), L), g)

g_integrated_functions(g) ==
    LET functions == g_chr(g_ord(g_substr(g_tointeger(g_readn(g_readi(g_reads(
                         Emit(g, <<<<"JUMP", "$jump_over_integrated">>>>))))))))
    IN Emit(functions, <<<<"LABEL", "$jump_over_integrated">>>>)

g_error_labels(g) ==
    Emit(g, <<<<"JUMP", "$$$hop">>, <<"LABEL", "$$$exit8">>, <<"EXIT", IntValue(8)>>,
              <<"LABEL", "$$$exit6">>, <<"EXIT", IntValue(6)>>,
              <<"LABEL", "$$$exit9">>, <<"EXIT", IntValue(9)>>,
              <<"LABEL", "$$$hop">>>>)

-----------------------------------------------------------------------------
(* Expressions.  Expression n leaves its value in its own variable.          *)

Res(n) == Numbered("$expr-res-", n)

(* +, - and *: with one integer and one float the integer is converted; the  *)
(* names are those of the code, second-converted in both cases.              *)
Converting(op, n, l, r) ==
    LET L(name) == Numbered(name, n)
        bool == L("$expr-type-check-bool-")
        Apply(a, b) == <<<<op, Res(n), Var(a), Var(b)>>>>
        done == <<<<"JUMP", L("$ookk-")>>>> IN
    <<<<"DEFVAR", L("$expr-type-check-")>>, <<"DEFVAR", L("$expr-type-check2-")>>, <<"DEFVAR", bool>>,
      <<"TYPE", L("$expr-type-check-"), Var(Res(l))>>, <<"TYPE", L("$expr-type-check2-"), Var(Res(r))>>,
      <<"EQ", bool, Var(L("$expr-type-check-")), Var(L("$expr-type-check2-"))>>>>
    \o JumpIf(L("$ok-"), bool)
    \o <<<<"EQ", bool, Var(L("$expr-type-check-")), StringValue("int")>>>> \o JumpIf(L("$convert-first-"), bool)
    \o <<<<"DEFVAR", L("$second-converted-")>>, <<"INT2FLOAT", L("$second-converted-"), Var(Res(r))>>>>
    \o Apply(Res(l), L("$second-converted-")) \o done
    \o <<<<"LABEL", L("$convert-first-")>>, <<"DEFVAR", L("$first-converted-")>>,
         <<"INT2FLOAT", L("$first-converted-"), Var(Res(l))>>>>
    \o Apply(L("$second-converted-"), Res(l)) \o done
    \o <<<<"LABEL", L("$ok-")>>>> \o Apply(Res(l), Res(r)) \o <<<<"LABEL", L("$ookk-")>>>>

(* The checks of "#" and "..": TYPE is taken, but the value itself compared. *)
StringChecks(n, operands) ==
    LET type == Numbered("$expr-str-check-", n)
        bool == Numbered("$expr-str-check-bool-", n)
        Check(m) == <<<<"TYPE", type, Var(Res(m))>>, <<"EQ", bool, Var(Res(m)), StringValue("string")>>,
                      <<"JUMPIFNEQ", "$$$exit6", Var(bool), TrueValue>>>>
    IN <<<<"DEFVAR", type>>, <<"DEFVAR", bool>>>> \o FlattenSeq([i \in DOMAIN operands |-> Check(operands[i])])

(* Mutant: the operands change places. *)
OperateSwapped(op, n, l, r) ==
    CASE op = "+" -> Converting("ADD", n, r, l)
      [] op = "-" -> Converting("SUB", n, r, l)
      [] op = "*" -> Converting("MUL", n, r, l)
      [] op = "/" -> <<<<"DIV", Res(n), Var(Res(r)), Var(Res(l))>>>>
      [] op = "//" -> <<<<"IDIV", Res(n), Var(Res(r)), Var(Res(l))>>>>
      [] op = ".." -> StringChecks(n, <<l, r>>) \o <<<<"CONCAT", Res(n), Var(Res(r)), Var(Res(l))>>>>
      [] OTHER -> <<>>

(* A relation inside an expression is reported on stderr and left out. *)
Operate(op, n, l, r) ==
    CASE op = "+" -> Converting("ADD", n, l, r)
      [] op = "-" -> Converting("SUB", n, l, r)
      [] op = "*" -> Converting("MUL", n, l, r)
      [] op = "/" -> <<<<"DIV", Res(n), Var(Res(l)), Var(Res(r))>>>>
      [] op = "//" -> <<<<"IDIV", Res(n), Var(Res(l)), Var(Res(r))>>>>
      [] op = ".." -> StringChecks(n, <<l, r>>) \o <<<<"CONCAT", Res(n), Var(Res(l)), Var(Res(r))>>>>
      [] OTHER -> <<>>

RECURSIVE g_expression(_, _)
(* The number of the expression is the counter at the call: g.exprs. *)
g_expression(g, e) ==
    LET n == g.exprs
        begun == Emit([g EXCEPT !.exprs = @ + 1], <<<<"DEFVAR", Res(n)>>>>)
        Operand(h, k) == g_expression(h, e.kids[k]) IN
    CASE e.id = "constant" -> Emit(begun, <<<<"MOVE", Res(n), ConstantValue(e.attr)>>>>)
      [] e.id = "variable" -> Emit(begun, <<<<"MOVE", Res(n), Var(e.attr)>>>>)
      [] e.id = "operation" /\ e.attr = "#" ->
            Emit(Operand(begun, 1),
                 StringChecks(n, <<begun.exprs>>) \o <<<<"STRLEN", Res(n), Var(Res(begun.exprs))>>>>)
      [] e.id = "operation" /\ e.attr # "#" ->
            LET left == Operand(begun, 2)
            IN Emit(Operand(left, 1), Operate(e.attr, n, begun.exprs, left.exprs))
      [] OTHER -> begun

-----------------------------------------------------------------------------
(* Calls and assignments.                                                    *)

(* Every argument pushes the name of the called function, as a string. *)
g_func_call(g, call) ==
    LET Written(k) == <<"WRITE", CASE k.id = "variable" -> Var(k.attr)
                                   [] k.id = "constant" /\ k.attr # "nil" -> ConstantValue(k.attr)
                                   [] OTHER -> StringValue("nil")>>
        name == call.attr
        Pushed(k) == <<"PUSHS", IF k.id = "variable" THEN Var(name) ELSE StringValue(string_transform(name))>> IN
    IF call.attr = "write" THEN Emit(g, [i \in DOMAIN call.kids |-> Written(call.kids[i])])
    ELSE Emit(g, [i \in DOMAIN call.kids |-> Pushed(call.kids[i])]
                 \o <<<<"CREATEFRAME">>, <<"PUSHFRAME">>, <<"CALL", "$" \o call.attr>>, <<"POPFRAME">>>>)

g_assign(g, assign) ==
    LET kids == assign.kids
        one(h, i) == Emit(g_expression(h, kids[Len(kids) \div 2 + i]),
                          <<<<"MOVE", kids[i].attr, Var(Res(h.exprs))>>>>) IN
    IF Last(kids).id = "func_call"
    THEN Emit(g_func_call(g, Last(kids)),
              [i \in 1..((Len(kids) - 1) \div 2) |-> <<"POPS", kids[i].attr>>])
    ELSE Each(one, g, [i \in 1..(Len(kids) \div 2) |-> i])

g_decl_var(g, decl) ==
    LET defined == Emit(g, <<<<"DEFVAR", decl.attr>>>>) IN
    IF decl.kids = <<>> THEN defined
    ELSE IF decl.kids[1].id = "func_call"
    THEN Emit(g_func_call(defined, decl.kids[1]), <<<<"POPS", decl.attr>>>>)
    ELSE Emit(g_expression(defined, decl.kids[1]), <<<<"MOVE", decl.attr, Var(Res(defined.exprs))>>>>)

g_return(g, return) ==
    LET one(h, k) == Emit(g_expression(h, k), <<<<"PUSHS", Var(Res(h.exprs))>>>>)
    IN Emit(Each(one, g, return.kids), <<<<"RETURN">>>>)

-----------------------------------------------------------------------------
(* Branches and loops.                                                       *)

(* The tests of both conditions: cond receives the result, body is where a   *)
(* condition that holds leads, first where the equality of "<=" leads.       *)
Tests(relation, cond, l, r, body, first) ==
    LET Test(op, jump, to) == <<<<op, cond, Var(Res(l)), Var(Res(r))>>, <<jump, to, Var(cond), TrueValue>>>> IN
    CASE relation = "<" -> Test("LT", "JUMPIFEQ", body)
      [] relation = "<=" -> Test("EQ", "JUMPIFEQ", first) \o Test("LT", "JUMPIFEQ", body)
      [] relation = ">" -> Test("GT", "JUMPIFEQ", body)
      [] relation = ">=" -> Test("EQ", "JUMPIFEQ", body) \o Test("GT", "JUMPIFEQ", body)
      [] relation = "==" -> Test("EQ", "JUMPIFEQ", body)
      [] relation = "~=" -> Test("EQ", "JUMPIFNEQ", body)

g_if_condition(g, cond, i) ==
    LET L(name) == Numbered(name, i)
        l == g.exprs
        left == g_expression(g, cond.kids[2]) IN
    IF cond.attr \in RelOps
    THEN Emit(g_expression(left, cond.kids[1]),
              <<<<"DEFVAR", L("$if-cond-res-")>>>>
              \o Tests(cond.attr, L("$if-cond-res-"), l, left.exprs, L("$if-body"), L("$if-body")))
    ELSE Emit(g_expression(g, cond),
              <<<<"DEFVAR", L("$if-nil-check-")>>, <<"DEFVAR", L("$if-nil-check-bool-")>>,
                <<"TYPE", L("$if-nil-check-"), Var(Numbered("$if-expr-res-", l))>>,
                <<"EQ", L("$if-nil-check-bool-"), Var(L("$if-nil-check-")), StringValue("nil")>>,
                <<"JUMPIFNEQ", L("$if-body"), Var(L("$if-nil-check-bool-")), TrueValue>>>>)

g_while_condition(g, cond, i) ==
    LET L(name) == Numbered(name, i)
        l == g.exprs
        left == g_expression(g, cond.kids[2]) IN
    IF cond.attr \in RelOps
    THEN Emit(g_expression(left, cond.kids[1]),
              Tests(cond.attr, L("$while-cond-res-"), l, left.exprs, L("$while-body"), L("LF@$while-body")))
    ELSE Emit(g_expression(g, cond),
              <<<<"TYPE", L("$while-nil-check-"), Var(Numbered("$while-expr-res-", l))>>,
                <<"EQ", L("$while-nil-check-bool-"), Var(L("$while-nil-check-")), StringValue("nil")>>,
                <<"JUMPIFNEQ", L("$while-body"), Var(L("$write-nil-check-bool-")), TrueValue>>>>)

RECURSIVE g_body(_, _)

(* The else part comes first; a condition that holds jumps over it. *)
g_branch(g, branch) ==
    LET i == g.ifs
        L(name) == Numbered(name, i)
        cond == g_if_condition([g EXCEPT !.ifs = @ + 1], branch.kids[1], i)
        else == g_body(Emit(cond, <<<<"LABEL", L("$else-body")>>>>), branch.kids[3])
        then == g_body(Emit(else, <<<<"JUMP", L("$if-end")>>, <<"LABEL", L("$if-body")>>>>), branch.kids[2])
    IN Emit(then, <<<<"LABEL", L("$if-end")>>>>)

(* The body comes first, and between it and the condition the variables of   *)
(* the condition are defined.                                                *)
g_while(g, while) ==
    LET i == g.whiles
        L(name) == Numbered(name, i)
        body == g_body(Emit([g EXCEPT !.whiles = @ + 1],
                            <<<<"JUMP", L("$while-cond")>>, <<"LABEL", L("$while-body")>>>>), while.kids[2])
        defined == Emit(body, <<<<"DEFVAR", L("$while-cond-res-")>>, <<"DEFVAR", L("$while-nil-check-")>>,
                                <<"DEFVAR", L("$while-nil-check-bool-")>>, <<"LABEL", L("$while-cond")>>>>)
    IN g_while_condition(defined, while.kids[1], i)

g_body(g, body) ==
    LET Statement(h, s) ==
          CASE s.id = "while" -> g_while(h, s)
            [] s.id = "branch" -> g_branch(h, s)
            [] s.id = "return" -> g_return(h, s)
            [] s.id = "var_declare" -> g_decl_var(h, s)
            [] s.id = "assign" -> g_assign(h, s)
            [] s.id = "func_call" -> g_func_call(h, s)
            [] OTHER -> h
    IN Each(Statement, g, body.kids)

-----------------------------------------------------------------------------
(* Functions and the program.                                                *)

(* Mutant: no RETURN after the body. *)
g_func_defFallsThrough(g, def) ==
    LET begun == Emit(g, <<<<"JUMP", "$jump_over" \o def.attr>>, <<"LABEL", "$" \o def.attr>>>>)
    IN Emit(g_body(begun, Last(def.kids)), <<<<"LABEL", "$jump_over" \o def.attr>>>>)

(* All children but the last two are taken for parameters. *)
g_func_def(g, def) ==
    LET begun == Emit(g, <<<<"JUMP", "$jump_over" \o def.attr>>, <<"LABEL", "$" \o def.attr>>>>)
        params == SubSeq(def.kids, 1, Len(def.kids) - 2)
        popped == Emit(begun, FlattenSeq([i \in DOMAIN params |-> Argument(params[i].attr)]))
    IN Emit(g_body(popped, Last(def.kids)), <<<<"RETURN">>, <<"LABEL", "$jump_over" \o def.attr>>>>)

g_program(program) ==
    LET Part(g, p) ==
          CASE p.id = "func_def" -> g_func_def(g, p)
            [] p.id = "func_call" -> g_func_call(g, p)
            [] OTHER -> g
    IN Each(Part, g_integrated_functions(g_error_labels(Begun)), program.kids).out
=============================================================================

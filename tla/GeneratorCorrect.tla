-------------------------- MODULE GeneratorCorrect --------------------------
(***************************************************************************)
(* What the generated code owes to the program: a program is run by        *)
(* IFJcode21 as Generator translates it, and directly, by the reference    *)
(* interpreter below; what is written and how it ends must be the same.    *)
(* The tree of a program is the one the parser is checked to build         *)
(* (TreeIsProgram), its expressions built by AST_dll_to_tree.              *)
(***************************************************************************)
EXTENDS IFJcode21, Generator, ProgramReference

CONSTANT Programs       \* a sequence of programs

(* The programs are of those the parser handles. *)
ASSUME ProgramsAssumption == \A p \in ToSet(Programs) : Supported(p) /\ IsProgram(Text(p))

Builtin == {"reads", "readi", "readn", "tointeger", "substr", "ord", "chr"}

(* An attribute as a token again. *)
TokenOf(attr) ==
    CASE attr \in BinaryOps \cup {"#"} -> Op(attr)
      [] attr = "nil" -> Lit("NIL", attr)
      [] attr \in DOMAIN Number -> Lit(IF Number[attr][1] = "int" THEN "INTEGER" ELSE "DECIMAL", attr)
      [] OTHER -> IF SubSeq(attr, 1, 1) = "\"" THEN Lit("STRING", attr) ELSE Id(attr)

RECURSIVE Whole(_)
(* A node of ProgramTree with the trees of its expressions. *)
Whole(t) ==
    IF t.id = "expr" THEN AST_dll_to_tree([i \in DOMAIN t.attr |-> TokenOf(t.attr[i])]).node
    ELSE [id |-> t.id, attr |-> IF t.attr = <<>> THEN "" ELSE t.attr[1],
          kids |-> [i \in DOMAIN t.kids |-> Whole(t.kids[i])]]

Generated == LET programs == Programs IN [i \in DOMAIN programs |-> g_program(Whole(ProgramTree(programs[i], Deviations)))]

ASSUME CodesAssumption == Codes = Generated

-----------------------------------------------------------------------------
(* Values of expressions.  Unknown is the value of what is known to be       *)
(* translated wrongly (README, divergences) and of what has no value.        *)

Unknown == <<"unknown", "">>
Numeric == {"int", "float"}

Halves(a) == IF a[1] = "int" THEN 2 * a[2] ELSE a[2]

Combined(op, a, b) ==
    LET same == a[1] = b[1]
        sums == CASE op = "+" -> Halves(a) + Halves(b) [] op = "-" -> Halves(a) - Halves(b)
                  [] op = "*" -> (Halves(a) * Halves(b)) \div 2
        equal == same /\ a[2] = b[2]
        less == Halves(a) < Halves(b) IN
    CASE Unknown \in {a, b} -> Unknown
      [] op \in {"+", "-", "*"} /\ a[1] \in Numeric /\ b[1] \in Numeric /\ (same \/ a[1] = "float") ->
            IF a[1] = "int" THEN <<"int", sums \div 2>> ELSE <<"float", sums>>
      [] op = "/" /\ a[1] = "float" /\ same /\ b[2] # 0 -> <<"float", (2 * a[2]) \div b[2]>>
      [] op = "//" /\ a[1] = "int" /\ same /\ b[2] > 0 -> <<"int", a[2] \div b[2]>>
      [] op \in {"==", "~="} /\ (same \/ "nil" \in {a[1], b[1]}) -> Bool(equal = (op = "=="))
      [] op \in {"<", "<=", ">", ">="} /\ a[1] \in Numeric /\ same ->
            Bool(CASE op = "<" -> less [] op = "<=" -> less \/ equal
                   [] op = ">" -> ~less /\ ~equal [] op = ">=" -> ~less)
      [] OTHER -> Unknown

ValueOf(toks, env) ==
    Evaluate(Postfix([i \in DOMAIN toks |-> Retag(toks[i])]),
             LAMBDA t : IF t.type # "IDENTIFIER" THEN ConstantValue(t.attr)
                        ELSE IF t.attr \in DOMAIN env THEN env[t.attr] ELSE Unknown,
             LAMBDA a : Unknown, Combined)[1]

(* A relation is a condition and no value. *)
Known(v) == v[1] \notin {"unknown", "bool"}

-----------------------------------------------------------------------------
(* What a program does.  m.known is FALSE from the first statement on that   *)
(* is known to be translated wrongly; then nothing is claimed.               *)

Start == [env |-> <<>>, out |-> <<>>, stack |-> <<>>, results |-> <<>>, taken |-> 0,
          exit |-> 0, known |-> TRUE, returned |-> FALSE, loops |-> FALSE]

Goes(m) == m.known /\ m.exit = 0 /\ ~m.returned
Lost(m) == [m EXCEPT !.known = FALSE]

(* The documented results of the functions that exist from the start: they   *)
(* take their arguments from the stack, the first one on top.                *)
Arguments == [substr |-> <<"string", "int", "int">>, ord |-> <<"string", "int">>, chr |-> <<"int">>,
              tointeger |-> <<"float">>, reads |-> <<>>, readi |-> <<>>, readn |-> <<>>]
ReadType == [reads |-> "string", readi |-> "int", readn |-> "float"]

(* substr is documented for 1 < i < j < #s (generator.c:133, :138, :159) and *)
(* gives the empty string elsewhere. *)
Documented(s, i, j) == 1 < i /\ i < j /\ j < Len(s)

(* Where the code is known not to keep to that: the limits count too, as the *)
(* comment at generator.c:153 has it, by which i is the 0th index at least.  *)
AtALimit(s, i, j) == (i = 1 \/ i = j \/ j = Len(s)) /\ 1 <= i /\ i <= j /\ j <= Len(s)

Result(f, a, read) ==
    CASE f = "substr" -> LET s == a[1][2]  i == a[2][2]  j == a[3][2]
                         IN Str(IF Documented(s, i, j) \/ AtALimit(s, i, j) THEN SubSeq(s, i, j) ELSE "")
      [] f = "ord" -> IF a[2][2] \in 1..Len(a[1][2])
                      THEN <<"int", CodeOf(SubSeq(a[1][2], a[2][2], a[2][2]))>> ELSE Nil
      [] f = "chr" -> IF a[1][2] \in 0..255 THEN Str(CharOf(a[1][2])) ELSE Nil
      [] f = "tointeger" -> <<"int", Towards0(a[1][2], 2)>>
      [] OTHER -> IF read[1] = ReadType[f] THEN read ELSE Nil

PerformBuiltin(m, f, input) ==
    LET types == Arguments[f]
        count == Len(types)
        base == Len(m.stack) - count
        a == [i \in 1..count |-> m.stack[Len(m.stack) + 1 - i]]
        nil == \E i \in 1..count : a[i][1] = "nil"
        read == IF m.taken < Len(input) THEN input[m.taken + 1] ELSE Nil
        took == [m EXCEPT !.stack = SubSeq(@, 1, base), !.taken = IF count = 0 THEN @ + 1 ELSE @] IN
    IF base < 0 \/ \E i \in 1..count : a[i][1] \notin {types[i], "nil"} THEN Lost(m)
    ELSE IF nil THEN IF f = "tointeger" THEN [took EXCEPT !.results = <<Nil>>] ELSE [took EXCEPT !.exit = 8]
    ELSE [took EXCEPT !.results = <<Result(f, a, read)>>]

RECURSIVE Execute(_, _, _, _)

(* The body of f, in variables of its own. *)
Perform(m, f, p, input) ==
    LET def == p[CHOOSE i \in DOMAIN p : p[i].k = "function" /\ p[i].name = f]
        after == Execute([m EXCEPT !.env = <<>>, !.results = <<>>], def.body, p, input)
    IN [after EXCEPT !.env = m.env, !.returned = FALSE]

ArgValue(t, env) ==
    IF t.type # "IDENTIFIER" THEN ConstantValue(t.attr)
    ELSE IF t.attr \in DOMAIN env THEN env[t.attr] ELSE Unknown

Statement1(m, s, p, input) ==
    LET Value1(i) == IF IsCall(i) THEN Unknown ELSE ValueOf(i.toks, m.env)
        values == [i \in DOMAIN s.items |-> Value1(s.items[i])]
        allKnown == \A i \in DOMAIN values : Known(values[i]) IN
    CASE s.k = "local" /\ s.ids[1] \in DOMAIN m.env -> Lost(m)
      [] s.k = "local" /\ s.ids[1] \notin DOMAIN m.env ->
            IF s.items = <<>> THEN [m EXCEPT !.env = @ @@ (s.ids[1] :> Unknown)]
            ELSE IF ~IsCall(s.items[1])
            THEN IF allKnown THEN [m EXCEPT !.env = @ @@ (s.ids[1] :> values[1])] ELSE Lost(m)
            ELSE (* The call is made twice: nobody may notice. *)
                 IF s.items[1].name \in Builtin \/ s.items[1].toks # <<>> THEN Lost(m)
                 ELSE LET after == Perform(m, s.items[1].name, p, input) IN
                      IF Len(after.results) # 1 \/ after.out # m.out THEN Lost(m)
                      ELSE [after EXCEPT !.env = @ @@ (s.ids[1] :> after.results[1])]
      [] s.k = "assign" ->
            IF /\ Len(s.ids) = Len(s.items) /\ allKnown /\ \A i \in DOMAIN s.ids : s.ids[i] \in DOMAIN m.env
               /\ \A i, j \in DOMAIN s.ids : i < j => \A t \in ToSet(s.items[j].toks) : t.attr # s.ids[i]
            THEN [m EXCEPT !.env = [x \in DOMAIN @ |->
                     IF x \in ToSet(s.ids) THEN values[CHOOSE i \in DOMAIN s.ids : s.ids[i] = x] ELSE @[x]]]
            ELSE Lost(m)
      [] s.k = "call" /\ s.items[1].name = "write" ->
            LET args == [i \in DOMAIN s.items[1].toks |-> ArgValue(s.items[1].toks[i], m.env)]
            IN IF args # <<>> /\ \A i \in DOMAIN args : args[i] # Unknown
               THEN [m EXCEPT !.out = @ \o args] ELSE Lost(m)
      [] s.k = "call" /\ s.items[1].name # "write" ->
            IF s.items[1].name \in Builtin \/ s.items[1].toks # <<>> THEN Lost(m)
            ELSE Perform(m, s.items[1].name, p, input)
      [] s.k = "return" ->
            IF allKnown THEN [m EXCEPT !.results = values, !.returned = TRUE] ELSE Lost(m)
      [] s.k \in {"if", "while"} ->
            LET cond == values[1] IN
            IF cond[1] # "bool" THEN Lost(m)
            ELSE IF s.k = "if" THEN Execute(m, IF cond[2] THEN s.a ELSE s.b, p, input)
            ELSE IF cond[2] THEN Execute([m EXCEPT !.loops = TRUE], s.a \o <<s>>, p, input)
            ELSE [m EXCEPT !.loops = TRUE]

Execute(m, body, p, input) ==
    FoldLeft(LAMBDA n, s : IF Goes(n) THEN Statement1(n, s, p, input) ELSE n, m, body)

Meaning(p, input) ==
    LET Part1(m, q) ==
          IF q.k # "call" \/ ~Goes(m) THEN m
          ELSE IF q.name = "write"
          THEN [m EXCEPT !.out = @ \o [i \in DOMAIN q.args |-> ConstantValue(q.args[i].attr)]]
          ELSE IF q.args # <<>> THEN Lost(m)
          ELSE LET after == IF q.name \in Builtin THEN PerformBuiltin(m, q.name, input)
                            ELSE Perform(m, q.name, p, input)
               IN [after EXCEPT !.stack = @ \o after.results, !.results = <<>>]
    IN FoldLeft(Part1, Start, p)

Meanings == LET programs == Programs IN [i \in DOMAIN programs |-> Meaning(programs[i], Input)]
meaning == Meanings[run]

-----------------------------------------------------------------------------
Stopped == status # Running

(* The translation of a program without loops writes what the program says   *)
(* and ends as it says: every operand, branch, result and variable is the    *)
(* right one, and no name or label meets another one of the same spelling.   *)
TranslationIsCorrect ==
    Stopped => \A m \in {meaning} : m.known /\ ~m.loops => status = m.exit /\ output = m.out

(* A program whose functions make no calls. *)
Flat1(p) ==
    \A q \in ToSet(p) : q.k = "function" =>
        \A s \in ToSet(q.body) : s.k = "return" /\ \A i \in DOMAIN s.items : ~IsCall(s.items[i])

(* The functions that exist from the start (substr, ord, chr, tointeger and  *)
(* the readers) take their arguments and leave exactly one value, the one    *)
(* the comments document but for substr at the limits of its arguments       *)
(* (AtALimit); nil as an argument ends the program with 8.                   *)
BuiltinsAsDocumented ==
    Stopped /\ Flat1(Programs[run]) =>
        \A m \in {meaning} : m.known => status = m.exit /\ stack = m.stack

(* The function instruction k belongs to, "" outside of all. *)
Owner(p, k) ==
    LET names == {p[i].name : i \in DOMAIN p}
        functions == {"$" \o f : f \in Builtin \cup names}
        marks == functions \cup {"$jump_over" \o f : f \in {"_integrated"} \cup names}
        before == {m \in 1..k : code[m][1] = "LABEL" /\ code[m][2] \in marks}
        latest == IF before = {} THEN "" ELSE code[Max(before)][2]
    IN IF latest \in functions THEN latest ELSE ""

(* A function is entered by its call only and left by RETURN only, and works *)
(* in a frame of its own: control never falls into, or out of, its code.     *)
ControlStaysInFunctions ==
    status = Running /\ at \in DOMAIN code =>
        \A owner \in {Owner(Programs[run], at)} :
            /\ IF owner = "" THEN calls = <<>>
               ELSE calls # <<>> /\ code[Last(calls)] = <<"CALL", owner>>
            /\ Len(frames) = Len(calls) + (IF instr[1] \in {"CALL", "POPFRAME"} THEN 1 ELSE 0)

(* The code of a program that ends comes to an end.                          *)
Finishes == <>Stopped

(* Claim: a while statement checks its condition before its body             *)
(* (generator.c:788, "zkontroluje podminku") and goes on to the body when it *)
(* holds (generator.c:800): the code does what the program says.             *)
LoopsAsDocumented ==
    Stopped => \A m \in {meaning} : m.known /\ m.loops => status = m.exit /\ output = m.out
=============================================================================

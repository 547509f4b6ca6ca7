---------------------------- MODULE MCGenerator ----------------------------
(* Programs for each thing the generator translates. *)
EXTENDS GeneratorCorrect

MCNumber == ("0" :> <<"int", 0>>) @@ ("1" :> <<"int", 1>>) @@ ("2" :> <<"int", 2>>) @@ ("3" :> <<"int", 3>>)
            @@ ("4" :> <<"int", 4>>) @@ ("5" :> <<"int", 5>>) @@ ("7" :> <<"int", 7>>)
            @@ ("97" :> <<"int", 97>>) @@ ("255" :> <<"int", 255>>) @@ ("256" :> <<"int", 256>>) @@ ("1.5" :> <<"float", 3>>) @@ ("2.0" :> <<"float", 4>>)

lit(a) == TokenOf(a)
x == Id("x")
y == Id("y")
E(toks) == Expr(toks)
N(a) == E(<<lit(a)>>)
bin(a, op, b) == <<lit(a), Op(op), lit(b)>>
write(t) == Run("write", <<t>>)
local(n, toks) == Local(n, "number", <<E(toks)>>)
call(f) == Run(f, <<>>)

Main(body) == <<Define("main", <<>>, <<>>, body), Top("main", <<>>)>>
RECURSIVE ToSeq(_)
ToSeq(S) == IF S = {} THEN <<>> ELSE LET p == CHOOSE p \in S : TRUE IN <<p>> \o ToSeq(S \ {p})

(* Operations: every operator on integers, on floats and on a float and an   *)
(* integer; two operators, with and without parentheses.                     *)
Operations ==
    {bin(a, op, b) : a \in {"7", "2"}, b \in {"7", "2"}, op \in AddOps \cup {"*", "//"}}
    \cup {bin(a, op, b) : a \in {"1.5", "2.0"}, b \in {"2.0", "3"}, op \in AddOps \cup {"*"}}
    \cup {bin("1.5", "/", "2.0"), bin("2.0", "/", "2.0")}
    \cup {<<lit("7"), Op(o), lit("3"), Op(q), lit("2")>> : o, q \in {"-", "*", "//"}}
    \cup {<<lit("7"), Op(o), Op("("), lit("3"), Op(q), lit("2"), Op(")")>> : o, q \in {"-", "*", "//"}}
OfOperations == {Main(<<local("x", e), write(x)>>) : e \in Operations}

(* Conditions: every relation on values that are less, equal and greater.    *)
If1(toks) == If(toks, <<write(lit("\"t\""))>>, <<write(lit("\"e\""))>>)
Conditions == {bin(a, r, b) : r \in RelOps, a \in {"1", "2"}, b \in {"1", "2"}}
              \cup {bin(a, r, b) : r \in RelOps, a \in {"1.5", "2.0"}, b \in {"1.5", "2.0"}}
              \cup {bin("nil", r, a) : r \in {"==", "~="}, a \in {"1", "nil"}}
              \cup {<<lit("3"), Op("-"), lit("1"), Op(r), lit("1"), Op("*"), lit("2")>> : r \in RelOps}
OfConditions == {Main(<<If1(c), write(lit("1"))>>) : c \in Conditions}

(* Branches inside branches, one after another, and around a return.         *)
holds == <<x, Op("=="), lit("1")>>
fails == <<x, Op("<"), lit("1")>>
leaf(a) == <<write(lit(a))>>
OfBranches ==
    {Main(<<local("x", <<lit("1")>>),
            If(c, <<If(d, leaf("1"), leaf("2"))>> \o leaf("3"), <<If(e, leaf("0"), leaf("7"))>>),
            If(d, leaf("97"), leaf("255"))>>) : c, d, e \in {holds, fails}}
    \cup {Main(<<local("x", <<lit("1")>>),
                 If(c, <<Set(<<"x">>, <<E(<<x, Op("+"), lit("2")>>)>>), write(x)>>, leaf("0")),
                 write(x)>>) : c \in {holds, fails}}

(* Calls: variables of the same name in both functions, results, a return    *)
(* from a branch, calls three deep.                                          *)
Callee(body) == Define("f", <<>>, <<"number">>, body)
Bodies == {<<local("x", <<lit("7")>>), Return(<<E(<<x, Op("+"), lit("1")>>)>>)>>,
           <<local("x", <<lit("7")>>), If(holds, leaf("1"), <<Return(<<N("2")>>), call("write")>>), Return(<<E(<<x>>)>>)>>,
           <<local("x", <<lit("1")>>), If(holds, <<Return(<<E(<<x>>)>>), call("write")>>, leaf("2")), Return(<<N("3")>>)>>,
           <<write(lit("7")), Local("x", "number", <<>>)>>}
Callers1 == {<<local("x", <<lit("2")>>), Local("y", "number", <<Invoke("f", <<>>)>>), write(x), write(y)>>,
             <<local("x", <<lit("2")>>), call("f"), write(x), call("f")>>,
             <<local("x", <<lit("2")>>), If(<<x, Op(">"), lit("1")>>, <<call("f"), write(x)>>, leaf("0"))>>}
OfCalls ==
    {<<Callee(b), Define("g", <<>>, <<>>, c), Top("g", <<>>)>> : b \in Bodies, c \in Callers1}
    \cup {<<Callee(b), Define("g", <<>>, <<>>, c), Define("main", <<>>, <<>>, <<call("g"), write(lit("0"))>>),
            Top("main", <<>>), Top("f", <<>>), Top("main", <<>>)>> : b \in Bodies, c \in Callers1}

(* Assignments. *)
OfAssignments ==
    {Main(<<local("x", <<lit("1")>>), local("y", <<lit("2")>>),
            Set(<<"x", "y">>, <<E(a), E(b)>>), write(x), write(y)>>) :
        a \in {<<y, Op("-"), x>>, <<x>>, <<lit("7")>>}, b \in {<<y>>, <<lit("3"), Op("-"), y>>, <<lit("nil")>>}}

(* Three statements of every kind, one after another, in one function: what  *)
(* one leaves in the counters, the frame and the stack meets the next.       *)
next == Set(<<"x">>, <<E(<<x, Op("+"), lit("1")>>)>>)
Statements1 ==
    <<next, local("y", <<x, Op("*"), lit("2")>>), Local("z", "number", <<Invoke("g", <<>>)>>), call("f"),
      If(holds, <<next, write(x)>>, <<call("f")>>),
       If(fails, leaf("0"), <<If(holds, <<call("g")>>, leaf("2")), next>>),
      If(<<x, Op(">="), lit("2")>>, <<Return(<<E(<<x>>)>>), write(lit("0"))>>, leaf("1"))>>
WithStatements(s) ==
    LET Helpers == <<Callee(<<local("x", <<lit("7")>>), If(holds, leaf("1"), leaf("2")), write(x)>>),
                     Define("g", <<>>, <<"number">>, <<local("x", <<lit("3")>>), Return(<<E(<<x, Op("-"), lit("1")>>)>>)>>)>>
    IN {p \in {Helpers \o Main(<<local("x", <<lit("1")>>), s, t, u, write(x)>>) :
                  t, u \in ToSet(Statements1)} : Supported(p)}
OfStatements == FlattenSeq([i \in DOMAIN Statements1 |-> ToSeq(WithStatements(Statements1[i]))])

(* The functions that exist from the start.  Their arguments are the results *)
(* of a function, the first argument last; the result of ord is nil.         *)
Give(n, args) == Define(n, <<>>, <<>>, <<Return([i \in DOMAIN args |-> N(args[i])])>>)
After1(args, fs) == <<Give("f", args), Top("f", <<>>)>> \o [i \in DOMAIN fs |-> Top(fs[i], <<>>)]
word == "\"abcde\""
NilArg == <<"7", word>>      \* followed by ord: nil
Indices == {"0", "1", "2", "3", "4", "5", "7"}     \* below, at, within and above the limits
OfBuiltins ==
    {After1(<<j, i, word>>, <<"substr">>) : i, j \in Indices}
    \cup {After1(<<"1", "1", "\"\"">>, <<"substr">>), After1(<<"0", "1", "\"\"">>, <<"substr">>)}
    \cup {After1(<<i, word>>, <<"ord">>) : i \in Indices} \cup {After1(<<"1", "\"\"">>, <<"ord">>)}
    \cup {After1(<<i>>, <<"chr">>) : i \in {"0", "97", "255", "256"}}
    \cup {<<Define("f", <<>>, <<>>, <<Return(<<E(bin("1", "-", "2"))>>)>>), Top("f", <<>>), Top("chr", <<>>)>>}
    \cup {After1(<<i>>, <<"tointeger">>) : i \in {"1.5", "2.0"}}
    \cup {<<Define("f", <<>>, <<>>, <<Return(<<E(bin("1.5", "-", "3"))>>)>>), Top("f", <<>>), Top("tointeger", <<>>)>>}
    \cup {After1(NilArg, <<"ord", b>>) : b \in {"tointeger", "chr"}}
    \cup {After1(<<"2", "1">> \o NilArg, <<"ord", b>>) : b \in {"substr", "ord"}}
    \cup {After1(<<"2">> \o NilArg, <<"ord">>) \o <<Give("g", <<word>>), Top("g", <<>>), Top(b, <<>>)>> :
              b \in {"substr", "ord"}}
    \cup {After1(NilArg, <<"ord">>) \o <<Give("g", <<"1", word>>), Top("g", <<>>), Top("substr", <<>>)>>}
    \cup {After1(<<"1">>, <<"ord", "chr", "ord">>)}
    \cup {<<Top(a, <<>>), Top(b, <<>>)>> : a, b \in {"reads", "readi", "readn"}}
    \cup {<<Top("readn", <<>>), Top("tointeger", <<>>), Top("chr", <<>>)>>}

MCPrograms == ToSeq(OfOperations) \o ToSeq(OfConditions) \o ToSeq(OfBranches) \o ToSeq(OfCalls)
              \o ToSeq(OfAssignments) \o ToSeq(OfBuiltins) \o OfStatements
MCCodes == Generated
MCInput == <<<<"float", 5>>, <<"string", "b">>>>

(* Loops. *)
Counting(c, step) ==
    Main(<<local("x", <<lit("0")>>), While(c, <<write(x), Set(<<"x">>, <<E(<<x, Op("+"), lit(step)>>)>>)>>), write(x)>>)
MCLoops == ToSeq({Counting(<<x, Op(r), lit("2")>>, "1") : r \in {"<", "~="}}
                    \cup {Counting(<<x, Op(">"), lit("2")>>, "1")})
=============================================================================

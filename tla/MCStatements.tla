---------------------------- MODULE MCStatements ----------------------------
(* Programs built from every kind of statement, one and two deep, and the   *)
(* same programs with one token left out.                                   *)
EXTENDS StatementsCorrect

MCBuiltins == {"write"}

x == Id("x")
one == Lit("INTEGER", "1")
sum == <<x, Op("+"), one>>
f(as) == Invoke("f", as)

(* Statements that contain no others. *)
Plain == {Local("x", "integer", <<>>), Local("y", "integer", <<Expr(sum)>>), Local("y", "integer", <<f(<<x>>)>>),
          Set(<<"x">>, <<Expr(sum)>>), Set(<<"x">>, <<f(<<>>)>>),
          Set(<<"x", "y">>, <<Expr(<<x>>), Expr(<<one>>)>>),
          Run("f", <<>>), Run("f", <<x, one>>),
          Return(<<>>), Return(<<Expr(sum)>>), Return(<<Expr(<<x>>), f(<<x>>)>>)}

Bodies(S, n) == UNION {[1..k -> S] : k \in 0..n}

Few == {Local("y", "integer", <<Expr(sum)>>), Set(<<"x">>, <<f(<<>>)>>), Run("f", <<x>>), Return(<<>>)}
Nested(A, B) == {If(<<x>>, a, b) : a \in A, b \in B} \cup {While(<<x>>, a) : a \in A}

Inner == Nested(Bodies(Few, 1), Bodies(Few, 1))
Deep == Nested({<<s>> : s \in Inner}, Bodies(Few, 1)) \cup Nested(Bodies(Few, 1), {<<s>> : s \in Inner})

(* Where a missing "end" leaves an "else" to the wrong construct. *)
Missing == {If(<<x>>, <<While(<<x>>, <<s>>)>>, <<>>) : s \in ToSet(<<Run("f", <<x>>), If(<<x>>, <<>>, <<>>)>>)}

Alone(body) == <<Declare("g", <<"integer", "string">>, <<"nil">>),
              Define("f", <<<<"p", "integer">>>>, <<"integer", "string">>,
                     <<Local("x", "integer", <<>>)>> \o body),
              Top("f", <<one, Lit("STRING", "s")>>)>>
(* Two functions: what the first leaves behind meets the second. *)
Followed(body) == <<Define("f", <<>>, <<>>, <<Local("x", "integer", <<>>)>> \o body),
                 Define("h", <<<<"p", "integer">>>>, <<>>,
                        <<Local("x", "integer", <<>>), Set(<<"x">>, <<Expr(<<x>>)>>)>>),
                 Top("h", <<one>>)>>

Programs == {Alone(b) : b \in Bodies(Plain, 2)} \cup {Followed(b) : b \in Bodies(Plain, 2)}
            \cup {Alone(<<s>>) : s \in Deep} \cup {Alone(<<s, t>>) : s \in Inner, t \in Few}
            \cup {Alone(<<s, t>>) : s \in Few, t \in Inner} \cup {Followed(<<s>>) : s \in Inner}

Small == {Alone(b) : b \in Bodies(Plain, 1)} \cup {Alone(<<s>>) : s \in Inner} \cup {Followed(<<s>>) : s \in Few}
         \cup {Alone(<<s, t>>) : s \in Few, t \in Few}
         \cup {Alone(<<s>>) : s \in Missing}

MCInputs == {[text |-> Text(p), of |-> <<p>>] : p \in Programs}
            \cup UNION {{[text |-> RemoveAt(Text(p), k), of |-> <<>>] : k \in DOMAIN Text(p)} : p \in Small}
=============================================================================

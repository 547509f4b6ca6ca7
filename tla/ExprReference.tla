---------------------------- MODULE ExprReference ----------------------------
(***************************************************************************)
(* Reference definitions the precedence parser is compared with: what the  *)
(* rules E -> E op E, E -> # E, E -> i, E -> ( E ) mean under the          *)
(* declared precedences, written top-down over whole token sequences (the  *)
(* program works bottom-up with a table and a stack); the operand types    *)
(* its comments document; and the value of an expression.                  *)
(*                                                                         *)
(* Precedence, lowest first: relations, + and -, *, / and //; these        *)
(* associate to the left.  ".." associates to the right and joins primary  *)
(* expressions only; "#" takes a primary, or a whole concatenation when it *)
(* is the last operand.                                                    *)
(***************************************************************************)
EXTENDS Tokens, Integers, Sequences, SequencesExt

NoParse == <<EmptyToken>>

(* Parentheses open before position i, minus those closed. *)
Depth(s, i) ==
    Cardinality({j \in 1..(i-1) : s[j].spec = "("}) - Cardinality({j \in 1..(i-1) : s[j].spec = ")"})

TopLevel(s, ops) == {i \in 2..(Len(s)-1) : s[i].spec \in ops /\ Depth(s, i) = 0}

Before(s, i) == SubSeq(s, 1, i - 1)
After(s, i)  == SubSeq(s, i + 1, Len(s))

Joined(l, r, op) == IF NoParse \in {l, r} THEN NoParse ELSE l \o r \o <<op>>

Rules == {"primary", "concatenation", "operation", "expression"}

(* What each rule makes of s, given how the rules read what is shorter: its  *)
(* postfix form, NoParse when s is no such phrase.                           *)
ReadBy(reading, rule, s) ==
    CASE rule = "primary" ->
            IF Len(s) = 1 /\ s[1].spec = "i" THEN s
            ELSE IF Len(s) > 2 /\ s[1].spec = "(" /\ s[Len(s)].spec = ")"
            THEN reading[<<"expression", SubSeq(s, 2, Len(s) - 1)>>]
            ELSE NoParse
      [] rule = "concatenation" ->
            LET at == TopLevel(s, {".."})
                k == Min(at) IN
            IF at = {} THEN reading[<<"primary", s>>]
            ELSE Joined(reading[<<"primary", Before(s, k)>>], reading[<<"concatenation", After(s, k)>>], s[k])
      [] rule = "operation" ->
            \* The last operator of the lowest precedence splits the expression.
            LET classes == {c \in {RelOps, AddOps, MulOps} : TopLevel(s, c) # {}}
                lowest == IF RelOps \in classes THEN RelOps
                          ELSE IF AddOps \in classes THEN AddOps ELSE MulOps
                k == Max(TopLevel(s, lowest)) IN
            IF classes # {}
            THEN IF TopLevel(Before(s, k), {".."}) # {} THEN NoParse
                 ELSE Joined(reading[<<"operation", Before(s, k)>>], reading[<<"operation", After(s, k)>>], s[k])
            ELSE IF s # <<>> /\ s[1].spec = "#"
            THEN Joined(<<>>, reading[<<"concatenation", After(s, 1)>>], s[1])
            ELSE reading[<<"primary", s>>]
      [] rule = "expression" ->
            LET whole == reading[<<"concatenation", s>>]
            IN IF whole # NoParse THEN whole ELSE reading[<<"operation", s>>]

Reading[phrase \in Rules \X Seq(TokenSet)] == ReadBy(Reading, phrase[1], phrase[2])

(* The postfix form of s, NoParse when s is not an expression. *)
Postfix(s) == Reading[<<"expression", s>>]

-----------------------------------------------------------------------------
(* Evaluating a postfix sequence: operands are pushed, an operator takes    *)
(* its operands from the top.  Binary(op, a, b), Length(a) and Operand(t)   *)
(* say what is computed.                                                    *)

Evaluate(postfix, Operand(_), Length(_), Binary(_, _, _)) ==
    LET Step(s, t) ==
          IF t.spec = "i" THEN Append(s, Operand(t))
          ELSE IF t.spec = "#" THEN Append(Front(s), Length(Last(s)))
          ELSE Append(SubSeq(s, 1, Len(s) - 2), Binary(t.spec, s[Len(s) - 1], s[Len(s)]))
        values[n \in 0..Len(postfix)] == IF n = 0 THEN <<>> ELSE Step(values[n - 1], postfix[n])
    IN values[Len(postfix)]

(* The types the comments of reduce document (precedence_parser.c:194, 216, *)
(* 234, 261, 281, 296); "NONE" is a type error, which is contagious.        *)
DocNumeric == {"INTEGER", "DECIMAL"}
DocType(op, a, b) ==
    CASE op \in {"+", "-", "*"} /\ {a, b} \subseteq DocNumeric ->
             IF {a, b} = {"INTEGER"} THEN "INTEGER" ELSE "DECIMAL"
      [] op = "/" /\ {a, b} \subseteq DocNumeric -> "DECIMAL"
      [] op = "//" /\ {a, b} = {"INTEGER"} -> "INTEGER"
      [] op \in {"<", "<=", ">", ">="} /\ ({a, b} \subseteq DocNumeric \/ {a, b} = {"STRING"}) -> "BOOL"
      [] op \in {"==", "~="} /\ \/ {a, b} \subseteq DocNumeric \cup {"NIL"}
                                \/ {a, b} \subseteq {"STRING", "NIL"} -> "BOOL"
      [] op = ".." /\ {a, b} = {"STRING"} -> "STRING"
      [] OTHER -> "NONE"
DocLength(a) == IF a = "STRING" THEN "INTEGER" ELSE "NONE"

(* Values are fractions <<numerator, denominator>>; <<0, 0>> is no value.   *)
Undefined == <<0, 0>>
Value(op, a, b) ==
    IF Undefined \in {a, b} THEN Undefined
    ELSE CASE op = "+" -> <<a[1] * b[2] + b[1] * a[2], a[2] * b[2]>>
           [] op = "-" -> <<a[1] * b[2] - b[1] * a[2], a[2] * b[2]>>
           [] op = "*" -> <<a[1] * b[1], a[2] * b[2]>>
           [] op = "/" /\ b[1] # 0 -> IF b[1] > 0 THEN <<a[1] * b[2], a[2] * b[1]>>
                                      ELSE <<-(a[1] * b[2]), -(a[2] * b[1])>>
           [] op = "//" /\ b[1] # 0 ->
                 IF b[1] > 0 THEN <<(a[1] * b[2]) \div (a[2] * b[1]), 1>>
                 ELSE <<(-(a[1] * b[2])) \div (-(a[2] * b[1])), 1>>
           [] OTHER -> Undefined
=============================================================================

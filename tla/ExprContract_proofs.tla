-------------------------- MODULE ExprContract_proofs --------------------------
(***************************************************************************)
(* Proofs of what DLL_parse owes to its callers, for any lexemes and any   *)
(* number of tokens: the tokens it hands back and where it cuts them off,  *)
(* the completeness of the postfix list, no accepted division by a literal *)
(* zero, and progress in every round of its loops.  They rest on the       *)
(* invariants Inv and Conserved of PrecedenceParser_proofs.                *)
(***************************************************************************)
EXTENDS PrecedenceParser_proofs, NaturalFacts, FiniteSetTheorems

LEMMA SpecBoth == Spec => [](Inv /\ Conserved)
<1>1. Init => Inv /\ Conserved
  BY InitInv, InitConserved
<1>2. Inv /\ Conserved /\ [Next]_vars => (Inv /\ Conserved)'
  BY NextInv, NextConserved
<1> QED BY <1>1, <1>2, PTL DEF Spec

(* The steps of the automaton that go on, and those that end the call. *)
GoesOn == Shift \/ MarkAndShift \/ ReduceOperand \/ ReduceParens \/ ReduceLength \/ ReduceBinary
Ends == TypeError \/ ZeroDivision \/ NoRule \/ Reject \/ OffTable

LEMMA GoesOnFacts ==
    ASSUME GoesOn
    PROVE  /\ pc = "parse" /\ pc' = "parse" /\ input \in TableSymbols
           /\ UNCHANGED <<token, pp_list, list, ret_code, exit_code, got>>
BY DEF GoesOn, Shift, MarkAndShift, ReduceOperand, ReduceParens, ReduceLength, ReduceBinary,
       Cell, Parsing, Advance, Push

LEMMA EndsFacts ==
    ASSUME Ends
    PROVE  /\ pc = "parse" /\ pc' \in {"exit", "undefined"}
           /\ UNCHANGED <<token, pp_list, list, stack, element, AST_list, ret_code, got>>
BY DEF Ends, TypeError, ZeroDivision, NoRule, Reject, OffTable, error, Cell, Parsing

LEMMA Steps ==
    ASSUME [Next]_vars
    PROVE  \/ Collect \/ GiveBack \/ GiveBackCall \/ EndOfFile \/ ReturnEmpty \/ BeginExpression
           \/ GoesOn \/ Ends \/ Accept \/ UNCHANGED vars
BY DEF Next, GoesOn, Ends, Halted

-----------------------------------------------------------------------------
(* Progress.                                                               *)

Bounded == Len(got) <= MaxTokens

LEMMA GotGrows ==
    ASSUME Inv, Bounded, Collect
    PROVE  /\ Len(got) \in Nat /\ Len(got') \in Nat /\ Len(got') <= MaxTokens
           /\ 2 * (MaxTokens - Len(got')) + Len(Record(token')) < 2 * (MaxTokens - Len(got)) + 1
           /\ Len(Record(token')) \in Nat
<1>1. PICK next \in Delivered(Len(got)) : token' = next /\ got' = got \o Record(next)
  BY DEF Collect
<1>2. got \in Seq(Lexemes) /\ Len(got) \in Nat /\ MaxTokens \in Nat
  BY MaxTokensAssumption DEF Inv, TypeOK
<1>3. CASE next \in Lexemes /\ Len(got) < MaxTokens
  <2>1. Record(next) = <<next>>
    BY <1>3, LexemeFacts DEF Record
  <2>2. Len(got') = Len(got) + 1 /\ Len(Record(token')) = 1
    BY <1>1, <1>2, <1>3, <2>1
  <2> QED BY <1>2, <1>3, <2>2
<1>4. CASE next = EofToken
  <2>1. Record(next) = <<>>
    BY <1>4, EofRetag
  <2>2. Len(got') = Len(got) /\ Len(Record(token')) = 0
    BY <1>1, <1>2, <2>1, ConcatEmptySeq
  <2> QED BY <1>2, <2>2 DEF Bounded
<1> QED BY <1>1, <1>3, <1>4 DEF Delivered

LEMMA InitBounded == Init => Bounded
<1> SUFFICES ASSUME Init PROVE Bounded
  OBVIOUS
<1>1. got = Record(token) /\ token \in Delivered(0) /\ MaxTokens \in Nat
  BY MaxTokensAssumption DEF Init
<1>2. CASE token = EofToken
  BY <1>1, <1>2, EofRetag DEF Bounded
<1>3. CASE token \in Lexemes /\ 0 < MaxTokens
  <2>1. got = <<token>>
    BY <1>1, <1>3, LexemeFacts DEF Record
  <2> QED BY <1>1, <1>3, <2>1 DEF Bounded
<1> QED BY <1>1, <1>2, <1>3 DEF Delivered

LEMMA NextBounded == ASSUME Inv, Bounded, [Next]_vars PROVE Bounded'
<1>1. CASE Collect
  BY <1>1, GotGrows DEF Bounded
<1>2. CASE GoesOn
  BY <1>2, GoesOnFacts DEF Bounded
<1>3. CASE Ends
  BY <1>3, EndsFacts DEF Bounded
<1>4. CASE UNCHANGED got
  BY <1>4 DEF Bounded
<1> QED BY <1>1, <1>2, <1>3, <1>4, Steps
        DEF GiveBack, GiveBackCall, EndOfFile, ReturnEmpty, BeginExpression, Accept, vars

(* A round of the automaton: a shift moves on, a reduction shrinks the stack. *)
LEMMA AutomatonProgress ==
    ASSUME Inv, GoesOn
    PROVE  /\ 3 * (Len(pp_list) - element') + Len(stack') \in Nat
           /\ 3 * (Len(pp_list) - element') + Len(stack') < 3 * (Len(pp_list) - element) + Len(stack)
<1>1. /\ stack \in Seq(TokenSet) /\ StackShape(stack) /\ Len(stack) \in Nat
      /\ pp_list \in Seq(TokenSet) /\ element \in 1..Len(pp_list) /\ Len(pp_list) \in Nat
  BY GoesOnFacts, ParsingFacts
<1>2. pp_list[element] \in TokenSet /\ input = pp_list[element].spec
  BY GoesOnFacts, ParsingFacts DEF input
<1>3. CASE Shift \/ MarkAndShift
  <2>1. input \in BinaryOps \cup {"#", "i", "(", ")"}
    BY <1>3, TableCells DEF Shift, MarkAndShift, Cell
  <2>2. element + 1 \in 1..Len(pp_list)
    BY <1>1, <2>1, GoesOnFacts, ParsingFacts, Alphabet
  <2>3. element' = element + 1
    BY <1>3 DEF Shift, MarkAndShift, Advance
  <2>4. Len(stack') \in {Len(stack) + 1, Len(stack) + 2}
    <3>1. CASE Shift
      BY <1>1, <1>2, <3>1 DEF Shift, Advance
    <3>2. CASE MarkAndShift
      <4>1. /\ stack_mark(stack) \in Seq(TokenSet) /\ Len(stack_mark(stack)) = Len(stack) + 1
            /\ stack' = Append(stack_mark(stack), pp_list[element])
        BY <1>1, <3>2, StackMark DEF MarkAndShift, Advance
      <4> QED BY <1>1, <1>2, <4>1
    <3> QED BY <1>3, <3>1, <3>2
  <2> QED BY <1>1, <2>2, <2>3, <2>4
<1>4. CASE ReduceOperand \/ ReduceParens \/ ReduceLength \/ ReduceBinary
  <2>1. PICK nont, postfix : Cell(">") /\ Push(nont, postfix)
    BY <1>4 DEF ReduceOperand, ReduceParens, ReduceLength, ReduceBinary
  <2>2. stack_top_term(stack).spec \in BinaryOps \cup {"#", "i", ")"}
    BY <2>1, TableCells DEF Cell, stack_n
  <2>3. MarkAt(stack) \in 2..(Len(stack) - 1)
    BY <1>1, <2>2, Marked
  <2>4. element' = element /\ stack' = Append(SubSeq(stack, 1, MarkAt(stack) - 1), nont)
    BY <2>1 DEF Push, Replaced
  <2>5. Len(SubSeq(stack, 1, MarkAt(stack) - 1)) = MarkAt(stack) - 1
    BY <1>1, <2>3
  <2>6. Len(stack') = MarkAt(stack)
    BY <1>1, <2>3, <2>4, <2>5
  <2> QED BY <1>1, <2>3, <2>4, <2>6
<1> QED BY <1>3, <1>4 DEF GoesOn

(* Each round of a loop makes progress: the call of DLL_parse takes a bounded *)
(* number of steps, which for its collecting loop depends on the number of    *)
(* tokens and for the automaton on the length of the tape.                    *)
THEOREM EveryStepProgresses == Spec => StepsProgress
<1> DEFINE Less == Phase' < Phase \/ (Phase' = Phase /\ Work' \in Nat /\ Work' < Work)
<1>1. ASSUME Inv, Bounded, [Next]_vars PROVE Less \/ UNCHANGED vars
  <2>1. CASE Collect
    <3>1. pc = "collect" /\ pc' = "collect" /\ Record(token) = <<token>>
      BY <2>1 DEF Collect, Record
    <3>2. Phase' = Phase
      BY <3>1 DEF Phase
    <3>3. Work = 2 * (MaxTokens - Len(got)) + 1
      BY <3>1 DEF Work
    <3>4. Work' = 2 * (MaxTokens - Len(got')) + Len(Record(token'))
      BY <3>1 DEF Work, Record
    <3>5. Work' \in Nat /\ Work' < Work
      <4> HIDE DEF Work
      <4> QED BY <1>1, <2>1, <3>3, <3>4, GotGrows, MaxTokensAssumption
    <3> QED BY <3>2, <3>5
  <2>2. CASE GiveBack \/ GiveBackCall \/ EndOfFile
    BY <2>2 DEF GiveBack, GiveBackCall, EndOfFile, Phase
  <2>3. CASE ReturnEmpty \/ BeginExpression
    BY <2>3 DEF ReturnEmpty, BeginExpression, Phase
  <2>4. CASE GoesOn
    <3>1. pc = "parse" /\ pc' = "parse" /\ pp_list' = pp_list
      BY <2>4, GoesOnFacts
    <3>2. Phase' = Phase /\ Work = 3 * (Len(pp_list) - element) + Len(stack)
          /\ Work' = 3 * (Len(pp_list) - element') + Len(stack')
      BY <3>1 DEF Phase, Work
    <3> QED BY <1>1, <2>4, <3>2, AutomatonProgress
  <2>5. CASE Ends
    BY <2>5, EndsFacts DEF Phase
  <2>6. CASE Accept
    BY <2>6 DEF Accept, Cell, Parsing, Phase
  <2> QED BY <1>1, <2>1, <2>2, <2>3, <2>4, <2>5, <2>6, Steps
<1>2. Init => Inv /\ Bounded
  BY InitInv, InitBounded
<1>3. Inv /\ Bounded /\ [Next]_vars => (Inv /\ Bounded)'
  BY NextInv, NextBounded
<1>4. Inv /\ Bounded /\ [Next]_vars => [Less]_vars
  BY <1>1
<1> QED BY <1>2, <1>3, <1>4, PTL DEF Spec, StepsProgress

-----------------------------------------------------------------------------
(* What is given back.                                                     *)

NoEnd(q) == \A i \in DOMAIN q : ~EndsTape(q[i])

GivenBack ==
    /\ list = <<>> <=> token.type = "EOF"
    /\ Len(list) \in 0..2
    /\ Len(list) = 2 => list[1].type = "IDENTIFIER" /\ list[2].spec = "("
    /\ Len(list) = 1 => list[1].type \in {"KEYWORD", "DATATYPE", "IDENTIFIER"} \/ list[1].attr = ","

(* The contract holds from the moment list is filled. *)
Given ==
    /\ pc \in {"collect", "expr"} => NoEnd(pp_list)
    /\ pc \notin {"collect", "expr"} => NoEnd(Expression)
    /\ pc # "collect" => GivenBack

(* What is left when the second of two joined sequences is cut off. *)
LEMMA FrontOf ==
    ASSUME NEW X, NEW s \in Seq(X), NEW t \in Seq(X)
    PROVE  SubSeq(s \o t, 1, Len(s \o t) - Len(t)) = s
<1> DEFINE f == SubSeq(s \o t, 1, Len(s))
<1>1. Len(s \o t) - Len(t) = Len(s)
  OBVIOUS
<1>2. f \in Seq(X) /\ Len(f) = Len(s) /\ \A i \in 1..Len(s) : f[i] = s[i]
  OBVIOUS
<1>3. f = s
  BY <1>2, SeqEqual
<1> QED BY <1>1, <1>3

(* The delivered tokens are retagged on the tape. *)
LEMMA ExpressionIsTape ==
    ASSUME Inv, Conserved, pc = "expr"
    PROVE  Expression = pp_list
<1>1. pp_list \in Seq(Retagged) /\ pp_list \in Seq(TokenSet) /\ list \in Seq(TokenSet)
  BY DEF Inv, TypeOK, CollectInv
<1>2. Taken = pp_list \o list
  BY <1>1, TapeOpen DEF Conserved, TokensConserved
<1> QED BY <1>1, <1>2, FrontOf DEF Expression

LEMMA CollectGiven == ASSUME Inv, Given, Collect PROVE Given'
<1>1. token \in Lexemes /\ pp_list \in Seq(Retagged) /\ NoEnd(pp_list)
  BY EofType DEF Collect, Inv, CollectInv, Given
<1>2. Retag(token) \in Retagged /\ ~EndsTape(Retag(token)) /\ pp_list' = Append(pp_list, Retag(token))
  BY <1>1 DEF Collect, Retagged
<1>3. NoEnd(pp_list')
  BY <1>1, <1>2 DEF NoEnd
<1> QED BY <1>3 DEF Collect, Given

LEMMA GiveBackGiven == ASSUME Inv, Given, GiveBack PROVE Given'
<1> DEFINE t == Retag(token)
<1>1. token \in Lexemes /\ NoEnd(pp_list) /\ pp_list' = pp_list /\ pc' = "expr"
  BY EofType DEF GiveBack, Inv, CollectInv, Given
<1>2. t \in Retagged /\ t.type # "EOF"
  BY <1>1, LexemeFacts DEF Retagged, Retag, TokenSet
<1>3. t.type \in {"KEYWORD", "DATATYPE", "IDENTIFIER"} \/ t.attr = ","
  BY DEF GiveBack, EndsTape, BeginsStatement
<1>4. list' = <<t>> /\ token' = t
  BY DEF GiveBack
<1> HIDE DEF t
<1>5. list' # <<>> /\ Len(list') = 1 /\ list'[1] = t /\ token'.type # "EOF"
  BY <1>2, <1>4
<1>6. GivenBack'
  <2>1. list'[1].type \in {"KEYWORD", "DATATYPE", "IDENTIFIER"} \/ list'[1].attr = ","
    BY <1>3, <1>5
  <2>2. Len(list') \in 0..2 /\ Len(list') # 2
    BY <1>5
  <2>3. list' = <<>> <=> token'.type = "EOF"
    BY <1>5
  <2> QED BY <2>1, <2>2, <2>3 DEF GivenBack
<1> QED BY <1>1, <1>6 DEF Given

LEMMA GiveBackCallGiven == ASSUME Inv, Given, GiveBackCall PROVE Given'
<1> DEFINE name == pp_list[Len(pp_list)]
<1>1. /\ pp_list \in Seq(Retagged) /\ pp_list # <<>> /\ NoEnd(pp_list)
      /\ token.spec = "(" /\ name.type = "IDENTIFIER"
  BY DEF GiveBackCall, BeginsCall, Inv, CollectInv, Given
<1>2. NoEnd(pp_list')
  BY <1>1 DEF GiveBackCall, NoEnd
<1>3. list' = <<name, token>> /\ token' = name /\ pc' = "expr"
  BY DEF GiveBackCall
<1> HIDE DEF name
<1>4. /\ list' # <<>> /\ Len(list') = 2 /\ list'[1] = name /\ list'[2] = token
      /\ token'.type = "IDENTIFIER"
  BY <1>1, <1>3
<1>5. GivenBack'
  BY <1>1, <1>4 DEF GivenBack
<1> QED BY <1>2, <1>3, <1>5 DEF Given

LEMMA NextGiven == ASSUME Inv, Conserved, Given, [Next]_vars PROVE Given'
<1> DEFINE Keeps == list' = list /\ got' = got /\ token'.type = token.type
<1>1. ASSUME Keeps PROVE Expression' = Expression /\ (GivenBack => GivenBack')
  BY <1>1 DEF Expression, Taken, GivenBack
<1>2. CASE EndOfFile
  <2>1. pc = "collect" /\ pc' = "expr" /\ pp_list' = pp_list /\ list' = <<>> /\ token'.type = "EOF"
    BY <1>2 DEF EndOfFile, Conserved
  <2> QED BY <2>1 DEF Given, GivenBack
<1>3. CASE ReturnEmpty
  <2>1. pc = "expr" /\ pc' = "return" /\ Keeps
    BY <1>3 DEF ReturnEmpty
  <2> QED BY <1>1, <2>1, ExpressionIsTape DEF Given
<1>4. CASE BeginExpression
  <2>1. pc = "expr" /\ pc' = "parse" /\ Keeps
    <3>1. token \in TokenSet
      BY DEF Inv, TypeOK
    <3> QED BY <1>4, <3>1 DEF BeginExpression, TokenSet
  <2> QED BY <1>1, <2>1, ExpressionIsTape DEF Given
<1>5. CASE GoesOn
  <2>1. pc = "parse" /\ pc' = "parse" /\ Keeps
    BY <1>5, GoesOnFacts
  <2> QED BY <1>1, <2>1 DEF Given
<1>6. CASE Ends
  <2>1. pc = "parse" /\ pc' \in {"exit", "undefined"} /\ Keeps
    BY <1>6, EndsFacts
  <2> QED BY <1>1, <2>1 DEF Given
<1>7. CASE Accept
  <2>1. pc = "parse" /\ pc' = "return" /\ Keeps
    BY <1>7 DEF Accept, Cell, Parsing
  <2> QED BY <1>1, <2>1 DEF Given
<1>8. CASE UNCHANGED vars
  <2>1. pc' = pc /\ pp_list' = pp_list /\ Keeps
    BY <1>8 DEF vars
  <2> QED BY <1>1, <2>1 DEF Given
<1> QED BY <1>2, <1>3, <1>4, <1>5, <1>6, <1>7, <1>8, Steps,
           CollectGiven, GiveBackGiven, GiveBackCallGiven

(* What list holds when DLL_parse returns is what its caller goes on with,   *)
(* and what it accepted holds no token that ends an expression: for every    *)
(* set of lexemes and every number of tokens.                                *)
THEOREM ReturnsAsAgreed == Spec => []ReturnContract
<1>1. Init => Given
  BY DEF Init, Given, NoEnd
<1>2. Inv /\ Conserved /\ Given /\ [Next]_vars => Given'
  BY NextGiven
<1>3. Given => ReturnContract
  BY DEF Given, GivenBack, NoEnd, ReturnContract
<1> QED BY <1>1, <1>2, <1>3, SpecBoth, PTL DEF Spec

-----------------------------------------------------------------------------
(* Division by a literal zero.                                             *)

Pairwise(q) == \A i \in 1..(Len(q) - 1) : q[i].attr = "0" => q[i + 1].spec \notin {"/", "//"}

(* Element k is the topmost nonterminal of the stack. *)
TopE(s, k) == s[k].spec = "E" /\ \A j \in DOMAIN s : j > k => s[j].spec # "E"

EndsInZero(q) == q # <<>> /\ q[Len(q)].attr = "0"

ZeroOnTop(s) == \A k \in DOMAIN s : TopE(s, k) => s[k].attr = "0"

(* A zero at the end of the list is the value of the topmost nonterminal. *)
ZeroInv ==
    /\ Pairwise(AST_list)
    /\ pc \in {"collect", "expr"} => AST_list = <<>>
    /\ pc = "parse" /\ EndsInZero(AST_list) => ZeroOnTop(stack)

(* Where on the stack reduce finds its symbols. *)
LEMMA RhsPositions ==
    ASSUME NEW s \in Seq(TokenSet), StackShape(s),
           stack_top_term(s).spec \in BinaryOps \cup {"#", "i", ")"},
           NEW k \in 0..2, Rhs(s)[k].spec # "EMPTY"
    PROVE  /\ Len(s) - 2 + k \in (MarkAt(s) + 1)..Len(s)
           /\ Rhs(s)[k] = s[Len(s) - 2 + k]
<1> DEFINE m == MarkAt(s)
           h == Handle(s)
<1>1. m \in 2..(Len(s) - 1) /\ Len(s) \in Nat
  BY Marked
<1>2. h \in Seq(TokenSet) /\ Len(h) = Len(s) - m
  BY <1>1 DEF Handle
<1>3. \A i \in 1..Len(h) : h[i] = s[m + i]
  BY <1>1 DEF Handle
<1>4. Rhs(s)[k] = IF k + Len(h) < 3 THEN EmptyToken ELSE h[k + Len(h) - 2]
  BY DEF Rhs
<1> HIDE DEF m, h
<1>5. ~(k + Len(h) < 3)
  <2>1. EmptyToken.spec = "EMPTY"
    BY DEF EmptyToken
  <2> QED BY <1>4, <2>1
<1>6. k + Len(h) - 2 \in 1..Len(h)
  BY <1>1, <1>2, <1>5
<1>7. m + (k + Len(h) - 2) = Len(s) - 2 + k
  BY <1>1, <1>2
<1>8. Rhs(s)[k] = s[Len(s) - 2 + k]
  BY <1>3, <1>4, <1>5, <1>6, <1>7
<1> QED BY <1>1, <1>2, <1>6, <1>7, <1>8 DEF m

(* Setting a mark does not change which nonterminal is topmost. *)
LEMMA MarkKeepsTop ==
    ASSUME NEW s \in Seq(TokenSet), StackShape(s), ZeroOnTop(s),
           NEW t \in TokenSet, t.spec # "E"
    PROVE  ZeroOnTop(Append(stack_mark(s), t)) /\ ZeroOnTop(Append(s, t))
<1> DEFINE n == Len(s)
           p == TopTermAt(s)
           u == Append(stack_mark(s), t)
           v == Append(s, t)
<1>1. n \in Nat \ {0} /\ DOMAIN s = 1..n /\ p \in 1..n /\ p >= n - 1
  BY TopTerm
<1>2. /\ stack_mark(s) \in Seq(TokenSet) /\ Len(stack_mark(s)) = n + 1
      /\ \A k \in 1..p : stack_mark(s)[k] = s[k]
      /\ stack_mark(s)[p + 1].spec # "E"
      /\ p < n => stack_mark(s)[n + 1] = s[n]
  BY StackMark DEF MarkToken
<1> HIDE DEF n, p
<1>3. /\ DOMAIN u = 1..(n + 2) /\ u[n + 2].spec # "E"
      /\ \A k \in 1..(n + 1) : u[k] = stack_mark(s)[k]
  BY <1>1, <1>2
<1>4. DOMAIN v = 1..(n + 1) /\ v[n + 1].spec # "E" /\ \A k \in 1..n : v[k] = s[k]
  BY <1>1 DEF n
<1> HIDE DEF u, v
<1>5. ASSUME NEW k \in DOMAIN u, TopE(u, k) PROVE u[k].attr = "0"
  <2>1. k \in 1..p \/ (k = n + 1 /\ p < n)
    BY <1>1, <1>2, <1>3, <1>5 DEF TopE
  <2>2. CASE k = n + 1 /\ p < n
    <3>1. u[k] = s[n]
      BY <1>1, <1>2, <1>3, <2>2
    <3>2. TopE(s, n)
      BY <1>1, <1>5, <3>1 DEF TopE
    <3> QED BY <1>1, <3>1, <3>2 DEF ZeroOnTop
  <2>3. CASE k \in 1..p
    <3>1. u[k] = s[k] /\ k \in 1..n
      BY <1>1, <1>2, <1>3, <2>3
    <3>2. ASSUME NEW j \in 1..n, j > k PROVE s[j].spec # "E"
      <4>1. CASE j <= p
        <5>1. u[j] = s[j] /\ j \in 1..(n + 2)
          BY <1>1, <1>2, <1>3, <4>1
        <5> QED BY <1>3, <1>5, <3>2, <5>1 DEF TopE
      <4>2. CASE ~(j <= p)
        <5>1. j = n /\ p < n
          BY <1>1, <4>2
        <5>2. u[n + 1] = s[n] /\ n + 1 \in 1..(n + 2) /\ n + 1 > k
          BY <1>1, <1>2, <1>3, <3>1, <5>1
        <5> QED BY <1>3, <1>5, <5>1, <5>2 DEF TopE
      <4> QED BY <4>1, <4>2
    <3>3. TopE(s, k)
      BY <1>1, <1>5, <3>1, <3>2 DEF TopE
    <3> QED BY <1>1, <3>1, <3>3 DEF ZeroOnTop
  <2> QED BY <2>1, <2>2, <2>3
<1>6. ASSUME NEW k \in DOMAIN v, TopE(v, k) PROVE v[k].attr = "0"
  <2>1. k \in 1..n
    BY <1>1, <1>4, <1>6 DEF TopE
  <2>2. TopE(s, k)
    BY <1>1, <1>4, <1>6, <2>1 DEF TopE
  <2> QED BY <1>1, <1>4, <2>1, <2>2 DEF ZeroOnTop
<1> QED BY <1>5, <1>6 DEF ZeroOnTop, u, v

(* The nonterminal a reduction pushes is the topmost one. *)
LEMMA ReducedTop ==
    ASSUME Inv, Cell(">"), NEW nont \in TokenSet, nont.spec = "E"
    PROVE  nont.attr = "0" => ZeroOnTop(Replaced(stack, nont))
<1>1. pc = "parse" /\ stack_top_term(stack).spec \in BinaryOps \cup {"#", "i", ")"}
  BY TableCells DEF Cell, Parsing, stack_n
<1>2. stack \in Seq(TokenSet) /\ StackShape(stack)
  BY <1>1, ParsingFacts
<1> DEFINE u == Replaced(stack, nont)
<1>3. u \in Seq(TokenSet) /\ Len(u) \in Nat /\ Len(u) > 1 /\ u[Len(u)] = nont
  BY <1>1, <1>2, ReducedShape
<1> HIDE DEF u
<1>4. \A k \in DOMAIN u : TopE(u, k) => k = Len(u)
  BY <1>3 DEF TopE
<1> QED BY <1>3, <1>4 DEF ZeroOnTop, u

(* A reduction lists at most one token. *)
LEMMA PushListed ==
    ASSUME Inv, ZeroInv, Cell(">"), NEW nont \in TokenSet, nont.spec = "E",
           NEW t \in TokenSet, Push(nont, <<t>>),
           t.spec \in {"/", "//"} => ~EndsInZero(AST_list),
           t.attr = "0" => nont.attr = "0"
    PROVE  ZeroInv'
<1> DEFINE n == Len(AST_list)
<1>1. /\ AST_list \in Seq(TokenSet) /\ n \in Nat
      /\ pc = "parse" /\ pc' = "parse" /\ AST_list' = AST_list \o <<t>>
      /\ stack' = Replaced(stack, nont)
  BY DEF Push, Cell, Parsing, Inv, TypeOK
<1>2. Len(AST_list') = n + 1 /\ AST_list'[n + 1] = t /\ \A i \in 1..n : AST_list'[i] = AST_list[i]
  BY <1>1
<1>3. n > 0 => (EndsInZero(AST_list) <=> AST_list[n].attr = "0")
  BY <1>1 DEF EndsInZero
<1> HIDE DEF n
<1>4. ASSUME NEW i \in 1..n, AST_list'[i].attr = "0" PROVE AST_list'[i + 1].spec \notin {"/", "//"}
  <2>1. CASE i < n
    <3>1. i \in 1..(n - 1) /\ i + 1 \in 1..n
      BY <1>1, <2>1
    <3>2. AST_list'[i] = AST_list[i] /\ AST_list'[i + 1] = AST_list[i + 1]
      BY <1>2, <3>1
    <3>3. AST_list[i].attr = "0" => AST_list[i + 1].spec \notin {"/", "//"}
      BY <3>1 DEF ZeroInv, Pairwise, n
    <3> QED BY <1>4, <3>2, <3>3
  <2>2. CASE i = n
    <3>1. AST_list'[i] = AST_list[n] /\ n > 0
      BY <1>1, <1>2, <2>2
    <3>2. EndsInZero(AST_list)
      BY <1>3, <1>4, <3>1
    <3>3. AST_list'[i + 1] = t
      BY <1>2, <2>2
    <3>4. t.spec \notin {"/", "//"}
      BY <3>2
    <3> QED BY <3>3, <3>4
  <2>3. i < n \/ i = n
    BY <1>1
  <2> QED BY <2>1, <2>2, <2>3, Zenon
<1>5. Pairwise(AST_list')
  <2>1. Len(AST_list') - 1 = n
    BY <1>1, <1>2
  <2> QED BY <1>4, <2>1 DEF Pairwise
<1>6. EndsInZero(AST_list') => ZeroOnTop(stack')
  BY <1>1, <1>2, ReducedTop DEF EndsInZero
<1> QED BY <1>1, <1>5, <1>6 DEF ZeroInv

(* An operator is spelled as its symbol. *)
LEMMA OperatorAttr ==
    ASSUME NEW t \in Retagged, t.spec \in BinaryOps \cup {"#"}
    PROVE  t.attr # "0"
<1>1. PICK u \in Lexemes : t = Retag(u)
  BY DEF Retagged
<1>2. u \in Scanned
  BY LexemesAssumption
<1>3. t = u
  <2>1. u.spec # "nil"
    <3>1. u.spec = "nil" => t.spec = "i"
      BY <1>1, <1>2 DEF Retag, Scanned, TokenSet
    <3> QED BY <3>1, Alphabet
  <2> QED BY <1>1, <2>1 DEF Retag
<1>4. u.attr = u.spec
  BY <1>2, <1>3 DEF Scanned, BinaryOps, AddOps, MulOps, RelOps, Keywords, Datatypes
<1> QED BY <1>3, <1>4 DEF BinaryOps, AddOps, MulOps, RelOps

LEMMA ReduceOperandZero == ASSUME Inv, ZeroInv, ReduceOperand PROVE ZeroInv'
<1> DEFINE r == Rhs(stack)
<1>1. Cell(">") /\ r[2].spec = "i" /\ Push(NontOperand(r), <<r[2]>>)
  BY DEF ReduceOperand, IsOperand
<1>2. r[2] \in TokenSet /\ r[2] \in Retagged
  BY <1>1, RhsSymbols DEF StackSymbol
<1> HIDE DEF r
<1>3. NontOperand(r) \in TokenSet /\ NontOperand(r).spec = "E"
  BY <1>1, <1>2, NontOperandFacts
<1>4. r[2].attr = "0" => NontOperand(r).attr = "0"
  BY DEF NontOperand
<1> QED BY <1>1, <1>2, <1>3, <1>4, PushListed

LEMMA ReduceLengthZero == ASSUME Inv, ZeroInv, ReduceLength PROVE ZeroInv'
<1> DEFINE r == Rhs(stack)
<1>1. Cell(">") /\ r[1].spec = "#" /\ r[2].spec = "E" /\ Push(NontLength(r), <<r[1]>>)
  BY DEF ReduceLength, IsLength
<1>2. r[1] \in TokenSet /\ r[2] \in TokenSet /\ r[1] \in Retagged
  BY <1>1, RhsSymbols DEF StackSymbol
<1> HIDE DEF r
<1>3. NontLength(r) \in TokenSet /\ NontLength(r).spec = "E"
  BY <1>1, <1>2, NontLengthFacts
<1>4. r[1].attr # "0"
  BY <1>1, <1>2, OperatorAttr
<1> QED BY <1>1, <1>2, <1>3, <1>4, PushListed

LEMMA ReduceBinaryZero == ASSUME Inv, ZeroInv, ReduceBinary PROVE ZeroInv'
<1> DEFINE r == Rhs(stack)
<1>1. /\ Cell(">") /\ IsBinary(r) /\ NontBinary(r).type # "NONE" /\ ~DividesByZero(r)
      /\ Push(NontBinary(r), <<r[1]>>)
  BY DEF ReduceBinary
<1>2. r[1].spec \in BinaryOps /\ r[2].spec = "E"
  BY <1>1 DEF IsBinary
<1>3. r[1] \in TokenSet /\ r[1] \in Retagged
  BY <1>1, <1>2, RhsSymbols, Alphabet DEF StackSymbol
<1>4. /\ stack \in Seq(TokenSet) /\ StackShape(stack) /\ Len(stack) \in Nat /\ pc = "parse"
      /\ stack_top_term(stack).spec \in BinaryOps \cup {"#", "i", ")"}
  BY <1>1, ParsingFacts, TableCells DEF Cell, Parsing, stack_n
<1>5. Len(stack) - 2 + 2 \in (MarkAt(stack) + 1)..Len(stack) /\ r[2] = stack[Len(stack) - 2 + 2]
  BY <1>2, <1>4, RhsPositions
<1>6. MarkAt(stack) \in Nat
  BY <1>4, Marked
<1> HIDE DEF r
<1>7. r[2] = stack[Len(stack)] /\ TopE(stack, Len(stack)) /\ Len(stack) \in DOMAIN stack
  BY <1>2, <1>4, <1>5, <1>6 DEF TopE
<1>8. r[1].spec \in {"/", "//"} => ~EndsInZero(AST_list)
  BY <1>1, <1>4, <1>7 DEF ZeroInv, ZeroOnTop, DividesByZero
<1>9. NontBinary(r) \in TokenSet /\ NontBinary(r).spec = "E"
  BY <1>1, NontBinaryFacts
<1>10. r[1].attr # "0"
  BY <1>2, <1>3, OperatorAttr
<1> QED BY <1>1, <1>3, <1>8, <1>9, <1>10, PushListed

LEMMA ReduceParensZero == ASSUME Inv, ZeroInv, ReduceParens PROVE ZeroInv'
<1> DEFINE r == Rhs(stack)
<1>1. Cell(">") /\ IsParens(r) /\ Push(r[1], <<>>)
  BY DEF ReduceParens
<1>2. r[1].spec = "E" /\ r[2].spec = ")"
  BY <1>1 DEF IsParens
<1>3. r[1] \in TokenSet
  BY <1>1, RhsSymbols
<1>4. /\ stack \in Seq(TokenSet) /\ StackShape(stack) /\ Len(stack) \in Nat /\ pc = "parse"
      /\ stack_top_term(stack).spec \in BinaryOps \cup {"#", "i", ")"}
  BY <1>1, ParsingFacts, TableCells DEF Cell, Parsing, stack_n
<1>5. /\ Len(stack) - 2 + 1 \in (MarkAt(stack) + 1)..Len(stack) /\ r[1] = stack[Len(stack) - 2 + 1]
      /\ r[2] = stack[Len(stack) - 2 + 2] /\ MarkAt(stack) \in Nat
  BY <1>2, <1>4, RhsPositions, Marked
<1>6. AST_list' = AST_list \o <<>> /\ stack' = Replaced(stack, r[1]) /\ pc' = pc
  BY <1>1 DEF Push
<1> HIDE DEF r
<1>7. r[1] = stack[Len(stack) - 1] /\ r[2] = stack[Len(stack)] /\ Len(stack) - 1 \in DOMAIN stack
  BY <1>4, <1>5
<1>8. TopE(stack, Len(stack) - 1)
  BY <1>2, <1>4, <1>7 DEF TopE
<1>9. AST_list' = AST_list
  BY <1>6, ConcatEmptySeq DEF Inv, TypeOK
<1>10. EndsInZero(AST_list) => ZeroOnTop(stack')
  <2>1. EndsInZero(AST_list) => r[1].attr = "0"
    BY <1>4, <1>7, <1>8 DEF ZeroInv, ZeroOnTop
  <2> QED BY <1>1, <1>2, <1>3, <1>6, <2>1, ReducedTop
<1> QED BY <1>4, <1>6, <1>9, <1>10 DEF ZeroInv

LEMMA NextZero == ASSUME Inv, ZeroInv, [Next]_vars PROVE ZeroInv'
<1>1. CASE Shift \/ MarkAndShift
  <2>1. /\ pc = "parse" /\ pc' = "parse" /\ AST_list' = AST_list
        /\ stack' = Append(stack, pp_list[element]) \/ stack' = Append(stack_mark(stack), pp_list[element])
    BY <1>1 DEF Shift, MarkAndShift, Cell, Parsing, Advance
  <2>2. stack \in Seq(TokenSet) /\ StackShape(stack) /\ pp_list[element] \in TokenSet
    BY <2>1, ParsingFacts
  <2>3. pp_list[element].spec # "E"
    BY <1>1 DEF Shift, MarkAndShift, Cell, Parsing, input, TableSymbols, BinaryOps, AddOps, MulOps, RelOps
  <2>4. ZeroOnTop(stack) => ZeroOnTop(stack')
    BY <2>1, <2>2, <2>3, MarkKeepsTop
  <2> QED BY <2>1, <2>4 DEF ZeroInv
<1>2. CASE ReduceOperand \/ ReduceParens \/ ReduceLength \/ ReduceBinary
  BY <1>2, ReduceOperandZero, ReduceParensZero, ReduceLengthZero, ReduceBinaryZero
<1>3. CASE Ends
  BY <1>3, EndsFacts DEF ZeroInv
<1>4. CASE Accept
  BY <1>4 DEF Accept, ZeroInv
<1>5. CASE Collect \/ GiveBack \/ GiveBackCall \/ EndOfFile
  BY <1>5 DEF Collect, GiveBack, GiveBackCall, EndOfFile, ZeroInv
<1>6. CASE ReturnEmpty
  BY <1>6 DEF ReturnEmpty, ZeroInv
<1>7. CASE BeginExpression
  BY <1>7 DEF BeginExpression, ZeroInv, EndsInZero
<1>8. CASE UNCHANGED vars
  BY <1>8 DEF vars, ZeroInv
<1> QED BY <1>1, <1>2, <1>3, <1>4, <1>5, <1>6, <1>7, <1>8, Steps DEF GoesOn

(* An accepted expression divides by no literal zero, wherever it stands.    *)
THEOREM NoLiteralZeroDivides == Spec => []LiteralZeroRejected
<1>1. Init => ZeroInv
  BY DEF Init, ZeroInv, Pairwise
<1>2. Inv /\ Conserved /\ ZeroInv /\ [Next]_vars => ZeroInv'
  BY NextZero
<1>3. ZeroInv => LiteralZeroRejected
  BY DEF ZeroInv, Pairwise, LiteralZeroRejected
<1> QED BY <1>1, <1>2, <1>3, SpecBoth, PTL DEF Spec

-----------------------------------------------------------------------------
(* A call after an expression.                                             *)

(* What an operand or ")" ends may be a whole expression. *)
MayEnd(t) == t.spec \in {"i", ")"}

NamesAfterOperators(q) == \A i \in 2..Len(q) : q[i].type = "IDENTIFIER" => ~MayEnd(q[i - 1])

(* The tape in front of a call ends with an operator, on which the automaton *)
(* fails when it meets "$".                                                  *)
CallInv ==
    /\ pc = "collect" => NamesAfterOperators(pp_list)
    /\ Len(list) = 2 =>
        /\ pc = "expr" /\ pp_list # <<>> => ~MayEnd(pp_list[Len(pp_list)])
        /\ pc = "parse" => /\ ~MayEnd(pp_list[Len(pp_list) - 1])
                           /\ element = Len(pp_list) => stack[Len(stack)] = pp_list[element - 1]
        /\ pc = "return" => AST_list = <<>>

LEMMA CollectCall == ASSUME Inv, CallInv, Conserved, Collect PROVE CallInv'
<1> DEFINE t == Retag(token)
           n == Len(pp_list)
<1>1. token \in Lexemes /\ pp_list \in Seq(Retagged) /\ t \in Retagged /\ n \in Nat
  BY EofType DEF Collect, Inv, CollectInv, Retagged
<1>2. /\ pc' = "collect" /\ pp_list' = Append(pp_list, t) /\ ~BeginsStatement(pp_list, t)
      /\ NamesAfterOperators(pp_list) /\ list' = <<>>
  BY DEF Collect, CallInv, Conserved
<1> HIDE DEF t
<1>3. Len(pp_list') = n + 1 /\ pp_list'[n + 1] = t /\ \A i \in 1..n : pp_list'[i] = pp_list[i]
  BY <1>1, <1>2
<1>4. ASSUME NEW i \in 2..(n + 1), pp_list'[i].type = "IDENTIFIER" PROVE ~MayEnd(pp_list'[i - 1])
  <2>1. CASE i \in 2..n
    <3>1. i \in 1..n /\ i - 1 \in 1..n
      BY <1>1, <2>1
    <3> QED BY <1>2, <1>3, <1>4, <2>1, <3>1 DEF NamesAfterOperators
  <2>2. CASE i = n + 1
    <3>1. i - 1 = n /\ n \in 1..n /\ pp_list # <<>>
      BY <1>1, <1>4, <2>2
    <3>2. t.type = "IDENTIFIER" /\ pp_list'[i - 1] = pp_list[n]
      BY <1>3, <1>4, <2>2, <3>1
    <3> QED BY <1>2, <3>1, <3>2 DEF BeginsStatement, MayEnd
  <2> QED BY <1>1, <2>1, <2>2
<1>5. NamesAfterOperators(pp_list')
  BY <1>3, <1>4 DEF NamesAfterOperators
<1> QED BY <1>2, <1>5 DEF CallInv

LEMMA WithoutLast ==
    ASSUME NEW S, NEW s \in Seq(S), s # <<>>
    PROVE  /\ Len(s) \in Nat \ {0}
           /\ Len(SubSeq(s, 1, Len(s) - 1)) = Len(s) - 1
           /\ \A i \in 1..(Len(s) - 1) : SubSeq(s, 1, Len(s) - 1)[i] = s[i]
<1> DEFINE m == Len(s) - 1
<1>1. Len(s) \in Nat /\ Len(s) # 0
  OBVIOUS
<1>2. m \in Nat /\ m <= Len(s)
  BY <1>1
<1>3. m = Len(s) - 1
  OBVIOUS
<1> HIDE DEF m
<1>4. Len(SubSeq(s, 1, m)) = m
  BY <1>1, <1>2
<1>5. \A i \in 1..m : SubSeq(s, 1, m)[i] = s[i]
  BY <1>1, <1>2
<1>6. Len(s) \in Nat \ {0}
  BY <1>1
<1> QED BY <1>3, <1>4, <1>5, <1>6, Zenon

LEMMA GiveBackCallCall == ASSUME Inv, CallInv, GiveBackCall PROVE CallInv'
<1> DEFINE n == Len(pp_list)
           front == SubSeq(pp_list, 1, n - 1)
<1>1. /\ pc' = "expr" /\ pp_list' = front /\ pp_list \in Seq(Retagged) /\ pp_list # <<>>
      /\ pp_list[n].type = "IDENTIFIER" /\ NamesAfterOperators(pp_list)
  BY DEF GiveBackCall, BeginsCall, Inv, CollectInv, CallInv
<1>2. n \in Nat \ {0} /\ Len(front) = n - 1 /\ \A i \in 1..(n - 1) : front[i] = pp_list[i]
  BY <1>1, WithoutLast, Zenon
<1> HIDE DEF front
<1>3. ASSUME front # <<>> PROVE ~MayEnd(front[Len(front)])
  <2>1. n \in 2..n /\ n - 1 \in 1..(n - 1)
    BY <1>1, <1>2, <1>3 DEF front
  <2> QED BY <1>1, <1>2, <2>1 DEF NamesAfterOperators
<1> QED BY <1>1, <1>3 DEF CallInv

LEMMA BeginCall == ASSUME Inv, CallInv, BeginExpression PROVE CallInv'
<1> DEFINE dollar == [token EXCEPT !.spec = "$", !.attr = "$"]
           n == Len(pp_list)
<1>1. /\ pp_list \in Seq(Retagged) /\ pp_list \in Seq(TokenSet) /\ pp_list' = Append(pp_list, dollar)
      /\ pp_list # <<>> /\ token \in TokenSet /\ list' = list /\ pc = "expr" /\ pc' = "parse" /\ element' = 1
  BY DEF BeginExpression, Inv, TypeOK, CollectInv
<1>2. dollar \in TokenSet
  <2>1. "$" \in Attributes /\ "$" \in Specs
    BY AttributesAssumption DEF Specs, TableSymbols
  <2> QED BY <1>1, <2>1 DEF TokenSet
<1> HIDE DEF dollar
<1>3. n \in Nat \ {0} /\ Len(pp_list') = n + 1 /\ Len(pp_list') - 1 = n /\ pp_list'[n] = pp_list[n]
  BY <1>1, <1>2
<1>4. element' # Len(pp_list')
  <2>1. n + 1 # 1
    BY <1>3
  <2> QED BY <1>1, <1>3, <2>1
<1> QED BY <1>1, <1>3, <1>4 DEF CallInv

(* No rule has an operator at the end of its right-hand side. *)
LEMMA RuleEnds ==
    ASSUME Inv, Cell(">"), LET r == Rhs(stack) IN IsOperand(r) \/ IsParens(r) \/ IsLength(r) \/ IsBinary(r)
    PROVE  stack[Len(stack)].spec \in {"i", ")", "E"}
<1> DEFINE r == Rhs(stack)
<1>1. r[2].spec \in {"i", ")", "E"}
  BY DEF IsOperand, IsParens, IsLength, IsBinary
<1>2. /\ stack \in Seq(TokenSet) /\ StackShape(stack) /\ Len(stack) \in Nat
      /\ stack_top_term(stack).spec \in BinaryOps \cup {"#", "i", ")"}
  BY ParsingFacts, TableCells DEF Cell, Parsing, stack_n
<1>3. r[2] = stack[Len(stack) - 2 + 2]
  BY <1>1, <1>2, RhsPositions
<1> HIDE DEF r
<1> QED BY <1>1, <1>2, <1>3

(* At "$" the automaton can only fail. *)
LEMMA StuckBeforeCall ==
    ASSUME Inv, CallInv, Len(list) = 2, GoesOn \/ Accept
    PROVE  GoesOn /\ element # Len(pp_list)
<1>1. pc = "parse"
  BY DEF GoesOn, Shift, MarkAndShift, ReduceOperand, ReduceParens, ReduceLength, ReduceBinary, Accept,
         Cell, Parsing
<1>2. /\ Len(pp_list) \in Nat /\ Len(pp_list) > 1 /\ pp_list[Len(pp_list)].spec = "$"
      /\ \A k \in 1..(Len(pp_list) - 1) : pp_list[k] \in Retagged /\ pp_list[k].spec # "$"
      /\ element \in 1..Len(pp_list)
  BY <1>1, RetaggedFacts DEF Inv, TypeOK, ParseInv, TapeInv
<1>3. element # Len(pp_list) \/ stack[Len(stack)].spec \notin {"i", ")", "E"}
  <2>1. pp_list[Len(pp_list) - 1].spec \notin {"i", ")", "E"}
    <3>1. Len(pp_list) - 1 \in 1..(Len(pp_list) - 1)
      BY <1>2
    <3>2. pp_list[Len(pp_list) - 1].spec # "E"
      BY <1>2, <3>1, RetaggedFacts
    <3> QED BY <1>1, <3>2 DEF CallInv, MayEnd
  <2> QED BY <1>1, <2>1 DEF CallInv
<1>4. ASSUME Shift \/ MarkAndShift PROVE element # Len(pp_list)
  <2>1. input # "$"
    BY <1>4, TableCells, Alphabet DEF Shift, MarkAndShift, Cell
  <2> QED BY <1>2, <2>1 DEF input
<1>5. ASSUME ReduceOperand \/ ReduceParens \/ ReduceLength \/ ReduceBinary PROVE element # Len(pp_list)
  <2>1. stack[Len(stack)].spec \in {"i", ")", "E"}
    BY <1>5, RuleEnds DEF ReduceOperand, ReduceParens, ReduceLength, ReduceBinary
  <2> QED BY <1>3, <2>1
<1>6. ASSUME Accept PROVE FALSE
  <2>1. Len(stack) = 2 /\ stack[2].spec = "E" /\ input = "$"
    BY <1>6, AcceptFacts, TableCells DEF Accept, Cell
  <2>2. element = Len(pp_list)
    BY <1>2, <2>1 DEF input
  <2> QED BY <1>3, <2>1, <2>2
<1> QED BY <1>4, <1>5, <1>6 DEF GoesOn

LEMMA GoesOnCall == ASSUME Inv, CallInv, GoesOn PROVE CallInv'
<1>1. /\ pc = "parse" /\ pc' = "parse" /\ pp_list' = pp_list /\ list' = list
  BY GoesOnFacts
<1> SUFFICES ASSUME Len(list) = 2, element' = Len(pp_list)
             PROVE  stack'[Len(stack')] = pp_list[element' - 1]
  BY <1>1 DEF CallInv
<1>2. element # Len(pp_list)
  BY StuckBeforeCall
<1>3. Shift \/ MarkAndShift
  BY <1>2 DEF GoesOn, ReduceOperand, ReduceParens, ReduceLength, ReduceBinary, Push
<1>4. /\ stack \in Seq(TokenSet) /\ StackShape(stack) /\ pp_list[element] \in TokenSet
      /\ element \in Nat
  BY <1>1, ParsingFacts
<1>5. element' = element + 1 /\ stack'[Len(stack')] = pp_list[element]
  <2>1. CASE Shift
    BY <1>4, <2>1 DEF Shift, Advance
  <2>2. CASE MarkAndShift
    <3>1. stack_mark(stack) \in Seq(TokenSet)
      BY <1>4, StackMark
    <3> QED BY <1>4, <2>2, <3>1 DEF MarkAndShift, Advance
  <2> QED BY <1>3, <2>1, <2>2
<1> QED BY <1>4, <1>5

LEMMA NextCall == ASSUME Inv, Conserved, ZeroInv, CallInv, [Next]_vars PROVE CallInv'
<1>1. CASE GiveBack \/ EndOfFile
  <2>1. pc' = "expr" /\ Len(list') \in {0, 1}
    BY <1>1 DEF GiveBack, EndOfFile, Conserved
  <2> QED BY <2>1 DEF CallInv
<1>2. CASE ReturnEmpty
  BY <1>2 DEF ReturnEmpty, CallInv, ZeroInv
<1>3. CASE Ends
  BY <1>3, EndsFacts DEF CallInv
<1>4. CASE Accept
  <2>1. Len(list) # 2
    <3> SUFFICES ASSUME Len(list) = 2 PROVE FALSE
      OBVIOUS
    <3>1. element # Len(pp_list) /\ pc = "parse" /\ input = "$"
      BY <1>4, StuckBeforeCall, TableCells DEF Accept, Cell, Parsing
    <3> QED BY <3>1, RetaggedFacts DEF Inv, TypeOK, ParseInv, TapeInv, input
  <2> QED BY <1>4, <2>1 DEF Accept, CallInv
<1>5. CASE UNCHANGED vars
  BY <1>5 DEF vars, CallInv, NamesAfterOperators
<1> QED BY <1>1, <1>2, <1>3, <1>4, <1>5, Steps, CollectCall, GiveBackCallCall, BeginCall, GoesOnCall

(* No accepted expression stands in front of a call that DLL_parse gives     *)
(* back, for every tape: item() loses nothing by not looking.                *)
THEOREM NothingIsDropped == Spec => []NoExpressionDropped
<1>1. Init => ZeroInv /\ CallInv
  BY DEF Init, ZeroInv, Pairwise, CallInv, NamesAfterOperators
<1>2. Inv /\ Conserved /\ ZeroInv /\ CallInv /\ [Next]_vars => (ZeroInv /\ CallInv)'
  BY NextZero, NextCall
<1>3. CallInv => NoExpressionDropped
  BY DEF CallInv, NoExpressionDropped
<1> QED BY <1>1, <1>2, <1>3, SpecBoth, PTL DEF Spec

-----------------------------------------------------------------------------
(* The postfix list.                                                       *)

(* The nonterminals among the j lowest elements of a stack. *)
Es(s, j) == {k \in 1..j : s[k].spec = "E"}
Count(s, j) == Cardinality(Es(s, j))

LEMMA CountStep ==
    ASSUME NEW s, NEW j \in Nat \ {0}
    PROVE  /\ Count(s, j - 1) \in Nat
           /\ s[j].spec = "E" => Count(s, j) = Count(s, j - 1) + 1
           /\ s[j].spec # "E" => Count(s, j) = Count(s, j - 1)
<1>1. IsFiniteSet(1..(j - 1))
  <2>1. 1 \in Int /\ j - 1 \in Int
    OBVIOUS
  <2> QED BY <2>1, FS_Interval, Zenon
<1>2. IsFiniteSet(Es(s, j - 1))
  <2>1. Es(s, j - 1) \in SUBSET (1..(j - 1))
    BY DEF Es
  <2> QED BY <1>1, <2>1, FS_Subset
<1>3. Count(s, j - 1) \in Nat
  BY <1>2, FS_CardinalityType DEF Count
<1>4. CASE s[j].spec = "E"
  <2>1. Es(s, j) = Es(s, j - 1) \cup {j} /\ j \notin Es(s, j - 1)
    BY <1>4 DEF Es
  <2>2. Count(s, j) = Count(s, j - 1) + 1
    BY <1>2, <2>1, FS_AddElement DEF Count
  <2> QED BY <1>3, <1>4, <2>2
<1>5. CASE s[j].spec # "E"
  <2>1. Es(s, j) = Es(s, j - 1)
    BY <1>5 DEF Es
  <2>2. Count(s, j) = Count(s, j - 1)
    BY <2>1 DEF Count
  <2> QED BY <1>3, <1>5, <2>2
<1> QED BY <1>4, <1>5

LEMMA CountSame ==
    ASSUME NEW s, NEW u, NEW j \in Nat, \A k \in 1..j : u[k] = s[k]
    PROVE  Count(u, j) = Count(s, j)
<1>1. Es(u, j) = Es(s, j)
  BY DEF Es
<1> QED BY <1>1 DEF Count

(* Neither a shift nor a mark adds a nonterminal. *)
LEMMA ShiftCount ==
    ASSUME NEW s \in Seq(TokenSet), StackShape(s), NEW t \in TokenSet, t.spec # "E"
    PROVE  LET n == Len(s)
               u == Append(stack_mark(s), t)
               v == Append(s, t)
           IN /\ Len(u) = n + 2 /\ Count(u, n + 2) = Count(s, n)
              /\ Len(v) = n + 1 /\ Count(v, n + 1) = Count(s, n)
<1> DEFINE n == Len(s)
           p == TopTermAt(s)
           u == Append(stack_mark(s), t)
           v == Append(s, t)
<1>1. n \in Nat \ {0} /\ p \in 1..n /\ p >= n - 1 /\ (p = n - 1 => s[n].spec = "E")
  BY TopTerm
<1>2. /\ stack_mark(s) \in Seq(TokenSet) /\ Len(stack_mark(s)) = n + 1
      /\ \A k \in 1..p : stack_mark(s)[k] = s[k]
      /\ stack_mark(s)[p + 1].spec # "E"
      /\ p < n => stack_mark(s)[n + 1] = s[n]
  BY StackMark DEF MarkToken
<1> HIDE DEF n, p
<1>3. /\ Len(u) = n + 2 /\ u[n + 2].spec # "E"
      /\ \A k \in 1..(n + 1) : u[k] = stack_mark(s)[k]
  BY <1>1, <1>2
<1>4. Len(v) = n + 1 /\ v[n + 1].spec # "E" /\ \A k \in 1..n : v[k] = s[k]
  BY <1>1 DEF n
<1> HIDE DEF u, v
<1>5. Count(v, n) = Count(s, n)
  BY <1>1, <1>4, CountSame
<1>6. Count(v, n + 1) = Count(s, n)
  <2>1. Count(v, (n + 1) - 1) \in Nat /\ Count(v, n + 1) = Count(v, (n + 1) - 1)
    <3>1. n + 1 \in Nat \ {0}
      BY <1>1
    <3> QED BY <1>4, <3>1, CountStep
  <2>2. (n + 1) - 1 = n
    BY <1>1
  <2> QED BY <1>5, <2>1, <2>2
<1>7. Count(u, p) = Count(s, p)
  BY <1>1, <1>2, <1>3, CountSame
<1>8. Count(u, p) \in Nat /\ Count(u, p + 1) = Count(u, p)
  <2>1. u[p + 1].spec # "E"
    BY <1>1, <1>2, <1>3
  <2>2. Count(u, (p + 1) - 1) \in Nat /\ Count(u, p + 1) = Count(u, (p + 1) - 1)
    BY <1>1, <2>1, CountStep
  <2>3. (p + 1) - 1 = p
    BY <1>1
  <2> QED BY <2>2, <2>3
<1>9. Count(u, n + 1) = Count(s, n)
  <2>1. CASE p = n
    BY <1>7, <1>8, <2>1
  <2>2. CASE p = n - 1
    <3>1. u[n + 1].spec = "E" /\ s[n].spec = "E" /\ p + 1 = n
      BY <1>1, <1>2, <1>3, <2>2
    <3>2. Count(u, n + 1) = Count(u, (n + 1) - 1) + 1 /\ Count(s, n) = Count(s, n - 1) + 1
      <4>1. n + 1 \in Nat \ {0} /\ n \in Nat \ {0}
        BY <1>1
      <4> QED BY <3>1, <4>1, CountStep
    <3>3. (n + 1) - 1 = n
      BY <1>1
    <3> QED BY <1>7, <1>8, <2>2, <3>1, <3>2, <3>3
  <2> QED BY <1>1, <2>1, <2>2
<1>10. Count(u, n + 2) = Count(s, n)
  <2>1. Count(u, (n + 2) - 1) \in Nat /\ Count(u, n + 2) = Count(u, (n + 2) - 1)
    <3>1. n + 2 \in Nat \ {0}
      BY <1>1
    <3> QED BY <1>3, <3>1, CountStep
  <2>2. (n + 2) - 1 = n + 1
    BY <1>1
  <2> QED BY <1>9, <2>1, <2>2
<1> QED BY <1>3, <1>4, <1>6, <1>10 DEF n, u, v

(* What a reduction does to their number, by the length of its handle. *)
LEMMA ReducedCount ==
    ASSUME NEW s \in Seq(TokenSet), StackShape(s), NEW t \in TokenSet, t.spec = "E",
           stack_top_term(s).spec \in BinaryOps \cup {"#", "i", ")"}
    PROVE  LET n == Len(s)
               m == MarkAt(s)
               u == Replaced(s, t)
           IN /\ Len(u) = m /\ Count(u, m) = Count(s, m) + 1
              /\ Count(s, m) \in Nat /\ m \in Nat
<1> DEFINE n == Len(s)
           m == MarkAt(s)
           u == Replaced(s, t)
<1>1. n \in Nat \ {0} /\ m \in 2..(n - 1) /\ s[m].spec = "MARK"
  BY TopTerm, Marked
<1>2. Len(u) = m /\ u[m] = t /\ \A k \in 1..(m - 1) : u[k] = s[k]
  BY <1>1 DEF Replaced
<1> HIDE DEF n, m, u
<1>3. Count(u, m - 1) = Count(s, m - 1)
  BY <1>1, <1>2, CountSame
<1>4. Count(s, m - 1) \in Nat /\ Count(s, m) = Count(s, m - 1)
  BY <1>1, CountStep
<1>5. Count(u, m) = Count(u, m - 1) + 1
  <2>1. m \in Nat \ {0} /\ u[m].spec = "E"
    BY <1>1, <1>2
  <2> QED BY <2>1, CountStep
<1> QED BY <1>1, <1>2, <1>3, <1>4, <1>5 DEF n, m, u

(* The heights h of the operand stack along the list q, which ends with c. *)
Heights(h, q, c) ==
    /\ h \in [0..Len(q) -> Nat] /\ h[0] = 0 /\ h[Len(q)] = c
    /\ \A i \in 1..Len(q) : h[i - 1] >= Takes(q[i]) /\ h[i] = Left(h[i - 1], q[i])

Complete(q, c) == \E h : Heights(h, q, c)

LEMMA Extend ==
    ASSUME NEW q \in Seq(TokenSet), NEW c, Complete(q, c), NEW t \in TokenSet, c >= Takes(t)
    PROVE  Complete(q \o <<t>>, Left(c, t))
<1> DEFINE n == Len(q)
           r == q \o <<t>>
           g(h) == [i \in 0..(n + 1) |-> IF i = n + 1 THEN Left(c, t) ELSE h[i]]
<1>1. PICK h : Heights(h, q, c)
  BY DEF Complete
<1>2. n \in Nat /\ Len(r) = n + 1 /\ r[n + 1] = t /\ \A i \in 1..n : r[i] = q[i]
  OBVIOUS
<1>3. /\ h \in [0..n -> Nat] /\ h[0] = 0 /\ h[n] = c
      /\ \A i \in 1..n : h[i - 1] >= Takes(q[i]) /\ h[i] = Left(h[i - 1], q[i])
  BY <1>1 DEF Heights
<1>4. c \in Nat /\ Takes(t) \in 0..2 /\ Left(c, t) \in Nat
  BY <1>2, <1>3 DEF Takes, Left
<1> HIDE DEF n, r
<1>5. g(h) \in [0..(n + 1) -> Nat] /\ g(h)[0] = 0 /\ g(h)[n + 1] = Left(c, t)
  BY <1>2, <1>3, <1>4
<1>6. ASSUME NEW i \in 1..(n + 1)
      PROVE  g(h)[i - 1] >= Takes(r[i]) /\ g(h)[i] = Left(g(h)[i - 1], r[i])
  <2>1. CASE i = n + 1
    <3>1. g(h)[i - 1] = c /\ g(h)[i] = Left(c, t) /\ r[i] = t
      BY <1>2, <1>3, <2>1
    <3> QED BY <3>1
  <2>2. CASE i \in 1..n
    <3>1. g(h)[i - 1] = h[i - 1] /\ g(h)[i] = h[i] /\ r[i] = q[i]
      BY <1>2, <2>2
    <3> QED BY <1>3, <2>2, <3>1
  <2> QED BY <1>2, <2>1, <2>2
<1> HIDE DEF g
<1>7. Heights(g(h), r, Left(c, t))
  BY <1>2, <1>5, <1>6 DEF Heights
<1> QED BY <1>7 DEF Complete, r

(* An empty place of the right-hand side lies below the handle. *)
LEMMA RhsEmpty ==
    ASSUME NEW s \in Seq(TokenSet), StackShape(s), \A j \in DOMAIN s : StackSymbol(s[j]),
           stack_top_term(s).spec \in BinaryOps \cup {"#", "i", ")"},
           NEW k \in 0..2, Rhs(s)[k].spec = "EMPTY"
    PROVE  Len(s) - 2 + k <= MarkAt(s)
<1> DEFINE m == MarkAt(s)
           h == Handle(s)
<1>1. m \in 2..(Len(s) - 1) /\ Len(s) \in Nat
  BY Marked
<1>2. Len(h) = Len(s) - m /\ \A i \in 1..Len(h) : h[i] = s[m + i] /\ m + i \in DOMAIN s
  BY <1>1 DEF Handle
<1>3. Rhs(s)[k] = IF k + Len(h) < 3 THEN EmptyToken ELSE h[k + Len(h) - 2]
  BY DEF Rhs
<1>4. \A j \in DOMAIN s : s[j].spec # "EMPTY"
  BY Alphabet DEF StackSymbol, StackSymbols, TableSymbols
<1> HIDE DEF m, h
<1>5. k + Len(h) < 3
  <2> SUFFICES ASSUME ~(k + Len(h) < 3) PROVE FALSE
    OBVIOUS
  <2>1. k + Len(h) - 2 \in 1..Len(h)
    BY <1>1, <1>2
  <2> QED BY <1>2, <1>3, <1>4, <2>1
<1> QED BY <1>1, <1>2, <1>5 DEF m

(* The heights before and after a reduction, seen from below its mark. *)
LEMMA HandleCount ==
    ASSUME Inv, Cell(">")
    PROVE  LET n == Len(stack)
               m == MarkAt(stack)
               r == Rhs(stack)
           IN /\ IsOperand(r) => Count(stack, n) = Count(stack, m)
              /\ IsLength(r) \/ IsParens(r) => Count(stack, n) = Count(stack, m) + 1
              /\ IsBinary(r) => Count(stack, n) = Count(stack, m) + 2
<1> DEFINE s == stack
           n == Len(s)
           m == MarkAt(s)
           r == Rhs(s)
<1>1. /\ stack \in Seq(TokenSet) /\ StackShape(stack) /\ \A j \in DOMAIN stack : StackSymbol(stack[j])
      /\ stack_top_term(stack).spec \in BinaryOps \cup {"#", "i", ")"}
  BY ParsingFacts, TableCells DEF Cell, Parsing, stack_n
<1>2. n \in Nat /\ m \in 2..(n - 1) /\ n \in (m + 1)..(m + 3)
  BY <1>1, Marked
<1>3. ASSUME NEW k \in 0..2, r[k].spec # "EMPTY"
      PROVE  n - 2 + k >= m + 1 /\ r[k] = s[n - 2 + k]
  <2>1. n - 2 + k \in (m + 1)..n /\ r[k] = s[n - 2 + k]
    BY <1>1, <1>3, RhsPositions
  <2> HIDE DEF s, n, m, r
  <2> QED BY <1>2, <2>1
<1>4. \A k \in 0..2 : r[k].spec = "EMPTY" => n - 2 + k <= m
  BY <1>1, RhsEmpty
<1> HIDE DEF s, n, m, r
<1>5. /\ r[0].spec # "EMPTY" => n - 2 >= m + 1 /\ r[0] = s[n - 2]
      /\ r[1].spec # "EMPTY" => n - 1 >= m + 1 /\ r[1] = s[n - 1]
      /\ r[2].spec # "EMPTY" => n >= m + 1 /\ r[2] = s[n]
      /\ r[0].spec = "EMPTY" => n - 2 <= m
      /\ r[1].spec = "EMPTY" => n - 1 <= m
  <2>1. n - 2 + 0 = n - 2 /\ n - 2 + 1 = n - 1 /\ n - 2 + 2 = n
    BY <1>2
  <2> QED BY <1>3, <1>4, <2>1
<1>6. /\ n \in Nat \ {0} /\ (n >= 2 => n - 1 \in Nat \ {0}) /\ (n >= 3 => n - 2 \in Nat \ {0})
      /\ (n - 1) - 1 = n - 2 /\ (n - 2) - 1 = n - 3
  BY <1>2
<1>7. ASSUME IsOperand(r) PROVE Count(s, n) = Count(s, m)
  <2>1. m = n - 1 /\ s[n].spec # "E"
    BY <1>2, <1>5, <1>7 DEF IsOperand
  <2> QED BY <1>6, <2>1, CountStep
<1>8. ASSUME IsLength(r) PROVE Count(s, n) = Count(s, m) + 1
  <2>1. m = n - 2 /\ s[n].spec = "E" /\ s[n - 1].spec # "E" /\ n >= 2
    BY <1>2, <1>5, <1>8 DEF IsLength
  <2>2. Count(s, n) = Count(s, n - 1) + 1
    BY <1>6, <2>1, CountStep
  <2>3. Count(s, n - 1) = Count(s, (n - 1) - 1)
    BY <1>6, <2>1, CountStep
  <2> QED BY <1>6, <2>1, <2>2, <2>3
<1>9. ASSUME IsParens(r) \/ IsBinary(r) PROVE n >= 3 /\ m = n - 3 /\ s[n - 2] = r[0] /\ s[n - 1] = r[1] /\ s[n] = r[2]
  <2>1. r[0].spec # "EMPTY" /\ r[1].spec # "EMPTY" /\ r[2].spec # "EMPTY"
    BY <1>9, Alphabet DEF IsParens, IsBinary
  <2> QED BY <1>2, <1>5, <2>1
<1>10. ASSUME IsParens(r) PROVE Count(s, n) = Count(s, m) + 1
  <2>1. s[n].spec # "E" /\ s[n - 1].spec = "E" /\ s[n - 2].spec # "E" /\ n >= 3 /\ m = n - 3
    BY <1>9, <1>10 DEF IsParens
  <2>2. Count(s, n) = Count(s, n - 1)
    BY <1>6, <2>1, CountStep
  <2>3. Count(s, n - 1) = Count(s, (n - 1) - 1) + 1
    BY <1>6, <2>1, CountStep
  <2>4. Count(s, n - 2) = Count(s, (n - 2) - 1)
    BY <1>6, <2>1, CountStep
  <2> QED BY <1>6, <2>1, <2>2, <2>3, <2>4
<1>11. ASSUME IsBinary(r) PROVE Count(s, n) = Count(s, m) + 2
  <2>1. s[n].spec = "E" /\ s[n - 1].spec # "E" /\ s[n - 2].spec = "E" /\ n >= 3 /\ m = n - 3
    <3>1. r[1].spec # "E"
      BY <1>11, Alphabet DEF IsBinary
    <3> QED BY <1>9, <1>11, <3>1 DEF IsBinary
  <2>2. Count(s, n) = Count(s, n - 1) + 1
    BY <1>6, <2>1, CountStep
  <2>3. Count(s, n - 1) = Count(s, (n - 1) - 1)
    BY <1>6, <2>1, CountStep
  <2>4. Count(s, n - 2) = Count(s, (n - 2) - 1) + 1 /\ Count(s, (n - 2) - 1) \in Nat
    BY <1>6, <2>1, CountStep
  <2> QED BY <1>6, <2>1, <2>2, <2>3, <2>4
<1> QED BY <1>7, <1>8, <1>10, <1>11 DEF s, n, m, r

(* The list needs what lies on the stack, an operand for each nonterminal. *)
PostInv ==
    /\ pc = "parse" => Complete(AST_list, Count(stack, Len(stack)))
    /\ pc = "return" /\ AST_list # <<>> => Complete(AST_list, 1)

LEMMA PushComplete ==
    ASSUME Inv, PostInv, Cell(">"), NEW nont \in TokenSet, nont.spec = "E", NEW t \in TokenSet,
           Push(nont, <<t>>), Count(stack, Len(stack)) = Count(stack, MarkAt(stack)) + Takes(t)
    PROVE  PostInv'
<1> DEFINE c == Count(stack, MarkAt(stack))
<1>1. /\ stack \in Seq(TokenSet) /\ StackShape(stack) /\ pc = "parse" /\ AST_list \in Seq(TokenSet)
      /\ stack_top_term(stack).spec \in BinaryOps \cup {"#", "i", ")"}
  BY ParsingFacts, TableCells DEF Cell, Parsing, stack_n
<1>2. pc' = "parse" /\ stack' = Replaced(stack, nont) /\ AST_list' = AST_list \o <<t>>
  BY <1>1 DEF Push
<1>3. c \in Nat /\ Count(stack', Len(stack')) = c + 1
  BY <1>1, <1>2, ReducedCount
<1>4. Takes(t) \in 0..2
  BY DEF Takes
<1> HIDE DEF c
<1>5. Count(stack, Len(stack)) = c + Takes(t)
  BY DEF c
<1>6. Complete(AST_list, c + Takes(t))
  BY <1>1, <1>5 DEF PostInv
<1>7. c + Takes(t) >= Takes(t) /\ Left(c + Takes(t), t) = c + 1
  BY <1>3, <1>4 DEF Left
<1>8. Complete(AST_list', c + 1)
  BY <1>1, <1>2, <1>6, <1>7, Extend
<1> QED BY <1>2, <1>3, <1>8 DEF PostInv

LEMMA ReduceComplete ==
    ASSUME Inv, PostInv, ReduceOperand \/ ReduceLength \/ ReduceBinary \/ ReduceParens
    PROVE  PostInv'
<1> DEFINE r == Rhs(stack)
<1>0. Cell(">")
  BY DEF ReduceOperand, ReduceLength, ReduceBinary, ReduceParens
<1>1. CASE ReduceOperand
  <2>1. IsOperand(r) /\ r[2].spec = "i" /\ Push(NontOperand(r), <<r[2]>>)
    BY <1>1 DEF ReduceOperand, IsOperand
  <2>2. r[2] \in TokenSet /\ r[2] \in Retagged
    BY <1>0, <2>1, RhsSymbols DEF StackSymbol
  <2>3. Count(stack, Len(stack)) = Count(stack, MarkAt(stack))
    BY <1>0, <2>1, HandleCount
  <2>4. Takes(r[2]) = 0
    BY <2>1 DEF Takes
  <2>5. Count(stack, MarkAt(stack)) \in Nat
    <3>1. /\ stack \in Seq(TokenSet) /\ StackShape(stack)
          /\ stack_top_term(stack).spec \in BinaryOps \cup {"#", "i", ")"}
      BY <1>0, ParsingFacts, TableCells DEF Cell, Parsing, stack_n
    <3> QED BY <2>1, <2>2, <3>1, NontOperandFacts, ReducedCount
  <2> HIDE DEF r
  <2>6. NontOperand(r) \in TokenSet /\ NontOperand(r).spec = "E"
    BY <2>1, <2>2, NontOperandFacts
  <2>7. Count(stack, Len(stack)) = Count(stack, MarkAt(stack)) + Takes(r[2])
    BY <2>3, <2>4, <2>5
  <2> QED BY <1>0, <2>1, <2>2, <2>6, <2>7, PushComplete
<1>2. CASE ReduceLength
  <2>1. IsLength(r) /\ r[1].spec = "#" /\ r[2].spec = "E" /\ Push(NontLength(r), <<r[1]>>)
    BY <1>2 DEF ReduceLength, IsLength
  <2>2. r[1] \in TokenSet /\ r[2] \in TokenSet
    BY <1>0, RhsSymbols
  <2>3. Count(stack, Len(stack)) = Count(stack, MarkAt(stack)) + 1 /\ Takes(r[1]) = 1
    BY <1>0, <2>1, HandleCount DEF Takes
  <2> HIDE DEF r
  <2>4. NontLength(r) \in TokenSet /\ NontLength(r).spec = "E"
    BY <2>1, <2>2, NontLengthFacts
  <2> QED BY <1>0, <2>1, <2>2, <2>3, <2>4, PushComplete
<1>3. CASE ReduceBinary
  <2>1. IsBinary(r) /\ NontBinary(r).type # "NONE" /\ Push(NontBinary(r), <<r[1]>>)
    BY <1>3 DEF ReduceBinary
  <2>2. r[1] \in TokenSet /\ NontBinary(r) \in TokenSet /\ NontBinary(r).spec = "E"
    BY <1>0, <2>1, RhsSymbols, NontBinaryFacts
  <2>3. Takes(r[1]) = 2
    BY <2>1, Alphabet DEF Takes, IsBinary
  <2>4. Count(stack, Len(stack)) = Count(stack, MarkAt(stack)) + 2
    BY <1>0, <2>1, HandleCount
  <2> HIDE DEF r
  <2> QED BY <1>0, <2>1, <2>2, <2>3, <2>4, PushComplete
<1>4. CASE ReduceParens
  <2>1. IsParens(r) /\ r[1].spec = "E" /\ Push(r[1], <<>>)
    BY <1>4 DEF ReduceParens, IsParens
  <2>2. r[1] \in TokenSet
    BY <1>0, RhsSymbols
  <2>3. /\ stack \in Seq(TokenSet) /\ StackShape(stack) /\ pc = "parse" /\ AST_list \in Seq(TokenSet)
        /\ stack_top_term(stack).spec \in BinaryOps \cup {"#", "i", ")"}
    BY <1>0, ParsingFacts, TableCells DEF Cell, Parsing, stack_n
  <2>4. stack' = Replaced(stack, r[1]) /\ AST_list' = AST_list \o <<>> /\ pc' = pc
    BY <2>1 DEF Push
  <2>5. Count(stack, Len(stack)) = Count(stack, MarkAt(stack)) + 1
    BY <1>0, <2>1, HandleCount
  <2> HIDE DEF r
  <2>6. Count(stack', Len(stack')) = Count(stack, MarkAt(stack)) + 1
    BY <2>1, <2>2, <2>3, <2>4, ReducedCount
  <2>7. AST_list' = AST_list
    BY <2>3, <2>4, ConcatEmptySeq
  <2> QED BY <2>3, <2>4, <2>5, <2>6, <2>7 DEF PostInv
<1> QED BY <1>1, <1>2, <1>3, <1>4

LEMMA CountNone ==
    ASSUME NEW s
    PROVE  Count(s, 0) = 0
<1>1. Es(s, 0) = {}
  BY DEF Es
<1> QED BY <1>1, FS_EmptySet DEF Count

LEMMA NothingListed == Complete(<<>>, 0)
<1> DEFINE h == [i \in 0..0 |-> 0]
<1>1. Len(<<>>) = 0 /\ h \in [0..0 -> Nat] /\ h[0] = 0
  OBVIOUS
<1>2. \A i \in 1..Len(<<>>) : FALSE
  OBVIOUS
<1> HIDE DEF h
<1>3. Heights(h, <<>>, 0)
  BY <1>1, <1>2 DEF Heights
<1> QED BY <1>3 DEF Complete

LEMMA BeginComplete == ASSUME Inv, ZeroInv, BeginExpression PROVE PostInv'
<1>1. stack' = <<DollarToken>> /\ pc' = "parse" /\ AST_list' = <<>>
  BY DEF BeginExpression, ZeroInv
<1>2. Len(stack') = 1 /\ stack'[1].spec # "E"
  BY <1>1 DEF DollarToken
<1>3. Count(stack', 1) = 0
  <2>1. 1 \in Nat \ {0} /\ 1 - 1 = 0
    OBVIOUS
  <2>2. Count(stack', 1) = Count(stack', 1 - 1)
    BY <1>2, <2>1, CountStep
  <2> QED BY <2>1, <2>2, CountNone
<1> QED BY <1>1, <1>2, <1>3, NothingListed DEF PostInv

LEMMA AcceptComplete == ASSUME Inv, PostInv, Accept PROVE PostInv'
<1>1. Cell("#") /\ pc = "parse" /\ pc' = "return" /\ AST_list' = AST_list
  BY DEF Accept, Cell, Parsing
<1>2. Len(stack) = 2 /\ stack[2].spec = "E" /\ stack[1].spec # "E"
  <2>1. stack[1].spec = "$"
    BY <1>1, ParsingFacts DEF StackShape
  <2> QED BY <1>1, <2>1, AcceptFacts
<1>3. Count(stack, 2) = 1
  <2>1. 2 - 1 = 1 /\ 1 - 1 = 0 /\ 1 \in Nat \ {0} /\ 2 \in Nat \ {0}
    OBVIOUS
  <2>2. Count(stack, 2) = Count(stack, 2 - 1) + 1
    BY <1>2, <2>1, CountStep
  <2>3. Count(stack, 1) = Count(stack, 1 - 1)
    BY <1>2, <2>1, CountStep
  <2> QED BY <2>1, <2>2, <2>3, CountNone
<1> QED BY <1>1, <1>2, <1>3 DEF PostInv

LEMMA NextComplete == ASSUME Inv, ZeroInv, PostInv, [Next]_vars PROVE PostInv'
<1>1. CASE Shift \/ MarkAndShift
  <2>1. /\ pc = "parse" /\ pc' = "parse" /\ AST_list' = AST_list
        /\ stack' = Append(stack, pp_list[element]) \/ stack' = Append(stack_mark(stack), pp_list[element])
    BY <1>1 DEF Shift, MarkAndShift, Cell, Parsing, Advance
  <2>2. stack \in Seq(TokenSet) /\ StackShape(stack) /\ pp_list[element] \in TokenSet
    BY <2>1, ParsingFacts
  <2>3. pp_list[element].spec # "E"
    BY <1>1 DEF Shift, MarkAndShift, Cell, Parsing, input, TableSymbols, BinaryOps, AddOps, MulOps, RelOps
  <2>4. Count(stack', Len(stack')) = Count(stack, Len(stack))
    BY <2>1, <2>2, <2>3, ShiftCount
  <2> QED BY <2>1, <2>4 DEF PostInv
<1>2. CASE ReduceOperand \/ ReduceParens \/ ReduceLength \/ ReduceBinary
  BY <1>2, ReduceComplete
<1>3. CASE Ends
  BY <1>3, EndsFacts DEF PostInv
<1>4. CASE Accept
  BY <1>4, AcceptComplete
<1>5. CASE Collect \/ GiveBack \/ GiveBackCall \/ EndOfFile
  BY <1>5 DEF Collect, GiveBack, GiveBackCall, EndOfFile, PostInv
<1>6. CASE ReturnEmpty
  BY <1>6 DEF ReturnEmpty, PostInv, ZeroInv
<1>7. CASE BeginExpression
  BY <1>7, BeginComplete
<1>8. CASE UNCHANGED vars
  BY <1>8 DEF vars, PostInv
<1> QED BY <1>1, <1>2, <1>3, <1>4, <1>5, <1>6, <1>7, <1>8, Steps DEF GoesOn

(* The heights of the invariant are the function PostfixIsComplete names. *)
LEMMA HeightsAre ==
    ASSUME NEW q \in Seq(TokenSet), Complete(q, 1)
    PROVE  LET height[n \in 0..Len(q)] == IF n = 0 THEN 0 ELSE Left(height[n - 1], q[n])
           IN /\ \A n \in 1..Len(q) : height[n - 1] >= Takes(q[n])
              /\ height[Len(q)] = 1
<1> DEFINE N == Len(q)
           Eq(f) == f = [n \in 0..N |-> IF n = 0 THEN 0 ELSE Left(f[n - 1], q[n])]
           height == CHOOSE f : Eq(f)
<1>1. PICK h : Heights(h, q, 1)
  BY DEF Complete
<1>2. /\ N \in Nat /\ h \in [0..N -> Nat] /\ h[0] = 0 /\ h[N] = 1
      /\ \A i \in 1..N : h[i - 1] >= Takes(q[i]) /\ h[i] = Left(h[i - 1], q[i])
  BY <1>1 DEF Heights
<1> HIDE DEF N
<1>3. Eq(h)
  <2> DEFINE r == [n \in 0..N |-> IF n = 0 THEN 0 ELSE Left(h[n - 1], q[n])]
  <2>1. \A n \in 0..N : h[n] = r[n]
    <3> SUFFICES ASSUME NEW n \in 0..N PROVE h[n] = r[n]
      OBVIOUS
    <3>1. CASE n = 0
      BY <1>2, <3>1
    <3>2. CASE n \in 1..N
      BY <1>2, <3>2
    <3> QED BY <1>2, <3>1, <3>2
  <2>2. r = [n \in 0..N |-> r[n]]
    OBVIOUS
  <2> HIDE DEF r
  <2>3. h = r
    BY <1>2, <2>1, <2>2
  <2> QED BY <2>3 DEF r
<1> HIDE DEF height
<1>4. Eq(height)
  BY <1>3 DEF height
<1>5. \A n \in 0..N : height[n] = h[n]
  <2> DEFINE S == {n \in 0..N : height[n] = h[n]}
  <2>1. 0 \in S
    BY <1>2, <1>4
  <2>2. \A i \in 0..(N - 1) : i \in S => i + 1 \in S
    <3> SUFFICES ASSUME NEW i \in 0..(N - 1), height[i] = h[i] PROVE height[i + 1] = h[i + 1]
      BY <1>2
    <3>1. i + 1 \in 1..N /\ i + 1 \in 0..N /\ (i + 1) - 1 = i /\ i + 1 # 0
      BY <1>2
    <3>2. h[i + 1] = Left(h[i], q[i + 1])
      BY <1>2, <3>1
    <3>3. height[i + 1] = Left(height[i], q[i + 1])
      BY <1>4, <3>1
    <3> QED BY <3>2, <3>3
  <2> HIDE DEF S
  <2>3. 0..N \subseteq S
    BY <1>2, <2>1, <2>2, UpTo
  <2> QED BY <2>3 DEF S
<1>6. \A n \in 1..N : height[n - 1] >= Takes(q[n])
  <2>1. \A n \in 1..N : n - 1 \in 0..N
    BY <1>2
  <2> QED BY <1>2, <1>5, <2>1
<1>7. height[N] = 1
  BY <1>2, <1>5
<1> QED BY <1>6, <1>7 DEF height, N

(* The list handed to AST_dll_to_tree is a complete postfix expression, for  *)
(* every tape the automaton accepts.                                         *)
THEOREM PostfixComplete == Spec => []PostfixIsComplete
<1>1. Init => ZeroInv /\ PostInv
  BY DEF Init, ZeroInv, Pairwise, PostInv
<1>2. Inv /\ Conserved /\ ZeroInv /\ PostInv /\ [Next]_vars => (ZeroInv /\ PostInv)'
  BY NextZero, NextComplete
<1>3. Inv /\ PostInv => PostfixIsComplete
  BY HeightsAre DEF Inv, TypeOK, PostInv, PostfixIsComplete
<1> QED BY <1>1, <1>2, <1>3, SpecBoth, PTL DEF Spec

-----------------------------------------------------------------------------
(* Where the tape is cut.                                                  *)

(* The tape, the tokens given back and the number of tokens taken are those  *)
(* of Cut, which Statements and ExprCall put in the place of the loop of     *)
(* DLL_parse (precedence_parser.c:545-577).                                  *)
CutAsCalled ==
    pc # "collect" =>
        /\ list = Cut(got).list /\ Len(got) = Cut(got).taken
        /\ pc # "return" => Tape = Cut(got).tape

(* Every token on the tape has joined those before it. *)
AllJoined == pc = "collect" => \A i \in 1..Len(pp_list) : Joins(got, i)

(* How many tokens join. *)
CutAt(s, n) == (n < Len(s) => ~Joins(s, n + 1)) /\ \A i \in 1..n : Joins(s, i)

LEMMA CutIs ==
    ASSUME NEW s \in Seq(Lexemes), NEW n \in 0..Len(s), CutAt(s, n)
    PROVE  (CHOOSE m \in 0..Len(s) :
                 /\ m < Len(s) => ~Joins(s, m + 1)
                 /\ \A i \in 1..m : Joins(s, i)) = n
<1>1. ASSUME NEW m \in 0..Len(s), CutAt(s, m) PROVE m = n
  <2>1. Len(s) \in Nat
    OBVIOUS
  <2>2. ~(m < n)
    <3> SUFFICES ASSUME m < n PROVE FALSE
      OBVIOUS
    <3>1. m + 1 \in 1..n /\ m < Len(s)
      BY <2>1
    <3> QED BY <1>1, <3>1 DEF CutAt
  <2>3. ~(n < m)
    <3> SUFFICES ASSUME n < m PROVE FALSE
      OBVIOUS
    <3>1. n + 1 \in 1..m /\ n < Len(s)
      BY <2>1
    <3> QED BY <1>1, <3>1 DEF CutAt
  <2> QED BY <2>1, <2>2, <2>3
<1> QED BY <1>1 DEF CutAt

(* The tape while it grows: the retagged tokens but the one in hand. *)
LEMMA CollectFacts ==
    ASSUME Inv, Conserved, pc = "collect", token.type # "EOF"
    PROVE  /\ token \in Lexemes /\ got \in Seq(Lexemes) /\ pp_list \in Seq(Retagged)
           /\ Len(got) = Len(pp_list) + 1 /\ Len(pp_list) \in Nat
           /\ \A i \in 1..Len(pp_list) : pp_list[i] = Retag(got[i])
           /\ Retag(got[Len(pp_list) + 1]) = Retag(token)
<1> DEFINE n == Len(pp_list)
           t == Retag(token)
<1>1. token \in Lexemes /\ got \in Seq(Lexemes) /\ pp_list \in Seq(Retagged) /\ n \in Nat
  BY EofType DEF Inv, TypeOK, CollectInv
<1>2. t \in Retagged /\ Record(t) = <<t>>
  BY <1>1, RetagType DEF Retagged
<1>3. AllRetagged(got) = pp_list \o <<t>>
  BY <1>2, TakenNow DEF Conserved, TokensConserved
<1> HIDE DEF t, n
<1>4. /\ Len(pp_list \o <<t>>) = n + 1 /\ (pp_list \o <<t>>)[n + 1] = t
      /\ \A i \in 1..n : (pp_list \o <<t>>)[i] = pp_list[i]
  BY <1>1, <1>2 DEF n
<1>5. Len(AllRetagged(got)) = Len(got) /\ \A i \in 1..Len(got) : AllRetagged(got)[i] = Retag(got[i])
  BY <1>1 DEF AllRetagged
<1>6. Len(got) = n + 1
  BY <1>3, <1>4, <1>5
<1>7. \A i \in 1..n : pp_list[i] = Retag(got[i])
  <2>1. \A i \in 1..n : i \in 1..Len(got)
    BY <1>1, <1>6
  <2> QED BY <1>3, <1>4, <1>5, <2>1
<1>8. Retag(got[n + 1]) = t
  <2>1. n + 1 \in 1..Len(got)
    BY <1>1, <1>6
  <2> QED BY <1>3, <1>4, <1>5, <2>1
<1> QED BY <1>1, <1>6, <1>7, <1>8 DEF n, t

(* The conditions of the loop only look at the end of the tape. *)
LEMMA JoinsNow ==
    ASSUME Inv, Conserved, pc = "collect", token.type # "EOF"
    PROVE  LET t == Retag(token) IN
           Joins(got, Len(pp_list) + 1) <=>
               ~EndsTape(t) /\ ~BeginsStatement(pp_list, t) /\ ~BeginsCall(pp_list, t)
<1> DEFINE n == Len(pp_list)
           t == Retag(token)
           last == IF n + 1 = 1 THEN <<>> ELSE <<Retag(got[n + 1 - 1])>>
<1>1. /\ n \in Nat /\ Retag(got[n + 1]) = t /\ pp_list \in Seq(Retagged)
      /\ \A i \in 1..n : pp_list[i] = Retag(got[i])
  BY CollectFacts
<1>2. Joins(got, n + 1) <=> ~EndsTape(t) /\ ~BeginsStatement(last, t) /\ ~BeginsCall(last, t)
  BY <1>1 DEF Joins
<1> HIDE DEF t
<1>3. CASE n = 0
  <2>1. pp_list = <<>> /\ last = <<>>
    BY <1>1, <1>3
  <2> QED BY <1>2, <2>1 DEF t, n
<1>4. CASE n # 0
  <2>1. n + 1 - 1 = n /\ n \in 1..n /\ n + 1 # 1
    BY <1>1, <1>4
  <2>2. last = <<pp_list[n]>>
    BY <1>1, <2>1
  <2>3. last # <<>> /\ Len(last) = 1 /\ last[Len(last)] = pp_list[n] /\ pp_list # <<>>
    BY <2>2, <1>4
  <2> HIDE DEF last
  <2>4. BeginsStatement(last, t) <=> BeginsStatement(pp_list, t)
    BY <2>3 DEF BeginsStatement, n
  <2>5. BeginsCall(last, t) <=> BeginsCall(pp_list, t)
    BY <2>3 DEF BeginsCall, n
  <2> QED BY <1>2, <2>4, <2>5 DEF t, n
<1> QED BY <1>3, <1>4

(* What Cut returns, given where the tape ends. *)
LEMMA CutValue ==
    ASSUME NEW s \in Seq(Lexemes), NEW n \in 0..Len(s), CutAt(s, n),
           NEW r, r = [i \in 1..n |-> Retag(s[i])]
    PROVE  LET over == Retag(s[n + 1]) IN
           /\ n = Len(s) => Cut(s) = [tape |-> r, list |-> <<>>, taken |-> n]
           /\ n # Len(s) /\ ~EndsTape(over) /\ BeginsCall(r, over) =>
                Cut(s) = [tape |-> SubSeq(r, 1, n - 1), list |-> <<r[n], over>>, taken |-> n + 1]
           /\ n # Len(s) /\ ~(~EndsTape(over) /\ BeginsCall(r, over)) =>
                Cut(s) = [tape |-> r, list |-> <<over>>, taken |-> n + 1]
BY CutIs DEF Cut

CutInv == AllJoined /\ CutAsCalled

LEMMA TapeRetagged ==
    ASSUME Inv, Conserved, pc = "collect", token.type # "EOF"
    PROVE  pp_list = [i \in 1..Len(pp_list) |-> Retag(got[i])]
<1>1. pp_list \in Seq(Retagged) /\ \A i \in 1..Len(pp_list) : pp_list[i] = Retag(got[i])
  BY CollectFacts
<1>2. pp_list = [i \in 1..Len(pp_list) |-> pp_list[i]]
  BY <1>1
<1> QED BY <1>1, <1>2

LEMMA CollectCut == ASSUME Inv, Conserved, CutInv, Collect PROVE CutInv'
<1> DEFINE n == Len(pp_list)
<1>1. /\ pc = "collect" /\ pc' = "collect" /\ token.type # "EOF"
      /\ pp_list' = Append(pp_list, Retag(token))
      /\ ~EndsTape(Retag(token)) /\ ~BeginsStatement(pp_list, Retag(token))
      /\ ~BeginsCall(pp_list, Retag(token))
  BY DEF Collect
<1>2. got \in Seq(Lexemes) /\ Len(got) = n + 1 /\ n \in Nat /\ pp_list \in Seq(Retagged)
  BY <1>1, CollectFacts
<1>3. \A i \in 1..(n + 1) : Joins(got, i)
  <2>1. Joins(got, n + 1)
    BY <1>1, JoinsNow
  <2>2. \A i \in 1..n : Joins(got, i)
    BY <1>1 DEF CutInv, AllJoined
  <2>3. \A i \in 1..(n + 1) : i \in 1..n \/ i = n + 1
    BY <1>2
  <2> QED BY <2>1, <2>2, <2>3
<1>4. \A i \in 1..(n + 1) : got'[i] = got[i]
  <2>1. PICK next \in Lexemes \cup {EofToken} : got' = got \o Record(next)
    BY DEF Collect, Delivered
  <2>2. Record(next) \in Seq(Lexemes)
    BY RecordSeq
  <2> QED BY <1>2, <2>1, <2>2
<1>5. Len(pp_list') = n + 1
  BY <1>1, <1>2
<1> HIDE DEF n
<1>6. \A i \in 1..(n + 1) : Joins(got', i)
  <2> SUFFICES ASSUME NEW i \in 1..(n + 1) PROVE Joins(got', i)
    OBVIOUS
  <2>1. got'[i] = got[i] /\ (i # 1 => got'[i - 1] = got[i - 1])
    <3>1. i # 1 => i - 1 \in 1..(n + 1)
      BY <1>2
    <3> QED BY <1>4, <3>1
  <2>2. Joins(got, i)
    BY <1>3
  <2> QED BY <2>1, <2>2 DEF Joins
<1> QED BY <1>1, <1>5, <1>6 DEF CutInv, AllJoined, CutAsCalled

LEMMA GiveBackCut == ASSUME Inv, Conserved, CutInv, GiveBack PROVE CutInv'
<1> DEFINE n == Len(pp_list)
           t == Retag(token)
<1>1. /\ pc = "collect" /\ pc' = "expr" /\ token.type # "EOF" /\ got' = got /\ pp_list' = pp_list
      /\ list' = <<t>> /\ (EndsTape(t) \/ BeginsStatement(pp_list, t))
  BY DEF GiveBack
<1>2. /\ token \in Lexemes /\ got \in Seq(Lexemes) /\ Len(got) = n + 1 /\ n \in Nat
      /\ pp_list \in Seq(Retagged) /\ Retag(got[n + 1]) = t
  BY <1>1, CollectFacts
<1>3. CutAt(got, n)
  <2>1. ~Joins(got, n + 1)
    BY <1>1, JoinsNow
  <2> QED BY <1>1, <2>1 DEF CutInv, AllJoined, CutAt
<1>4. ~(~EndsTape(t) /\ BeginsCall(pp_list, t))
  <2>1. t.type = "IDENTIFIER" => t.spec # "("
    BY <1>2, LexemesAssumption DEF Retag, Scanned, TokenSet, Literals
  <2> QED BY <1>1, <2>1 DEF BeginsStatement, BeginsCall
<1>5. Cut(got) = [tape |-> pp_list, list |-> <<t>>, taken |-> n + 1]
  <2>1. pp_list = [i \in 1..n |-> Retag(got[i])]
    BY <1>1, TapeRetagged
  <2>2. n \in 0..Len(got) /\ n # Len(got)
    BY <1>2
  <2> HIDE DEF n, t
  <2> QED BY <1>2, <1>3, <1>4, <2>1, <2>2, CutValue
<1>6. Tape' = pp_list
  <2>1. Tape = pp_list
    BY <1>2, TapeOpen
  <2> QED BY <1>1, <2>1 DEF Tape
<1> QED BY <1>1, <1>2, <1>5, <1>6 DEF CutInv, AllJoined, CutAsCalled

LEMMA GiveBackCallCut == ASSUME Inv, Conserved, CutInv, GiveBackCall PROVE CutInv'
<1> DEFINE n == Len(pp_list)
           name == pp_list[n]
           front == SubSeq(pp_list, 1, n - 1)
<1>1. /\ pc = "collect" /\ pc' = "expr" /\ token.type # "EOF" /\ got' = got
      /\ pp_list' = front /\ list' = <<name, token>>
      /\ ~EndsTape(token) /\ BeginsCall(pp_list, token)
  BY DEF GiveBackCall
<1>2. /\ token \in Lexemes /\ got \in Seq(Lexemes) /\ Len(got) = n + 1 /\ n \in Nat
      /\ pp_list \in Seq(Retagged) /\ Retag(got[n + 1]) = Retag(token)
  BY <1>1, CollectFacts
<1>3. Retag(token) = token
  BY <1>1 DEF BeginsCall, Retag
<1>4. CutAt(got, n)
  <2>1. ~Joins(got, n + 1)
    BY <1>1, <1>3, JoinsNow
  <2> QED BY <1>1, <2>1 DEF CutInv, AllJoined, CutAt
<1>5. Cut(got) = [tape |-> front, list |-> <<name, token>>, taken |-> n + 1]
  <2>1. pp_list = [i \in 1..n |-> Retag(got[i])]
    BY <1>1, TapeRetagged
  <2>2. n \in 0..Len(got) /\ n # Len(got)
    BY <1>2
  <2> HIDE DEF n
  <2> QED BY <1>1, <1>2, <1>3, <1>4, <2>1, <2>2, CutValue
<1>6. Tape' = front
  <2>1. n # 0
    BY <1>1 DEF BeginsCall
  <2>2. front \in Seq(Retagged)
    BY <1>2, <2>1
  <2> HIDE DEF front
  <2>3. front # <<>> => front[Len(front)] \in Retagged
    BY <2>2
  <2> QED BY <1>1, <2>3, RetaggedFacts DEF Tape
<1> QED BY <1>1, <1>2, <1>5, <1>6 DEF CutInv, AllJoined, CutAsCalled

LEMMA EndOfFileCut == ASSUME Inv, Conserved, CutInv, EndOfFile PROVE CutInv'
<1> DEFINE n == Len(pp_list)
<1>1. /\ pc = "collect" /\ pc' = "expr" /\ got' = got /\ pp_list' = pp_list /\ list' = <<>>
      /\ token = EofToken /\ got \in Seq(Lexemes) /\ pp_list \in Seq(Retagged)
  BY LexemeFacts DEF EndOfFile, Inv, TypeOK, CollectInv, Conserved
<1>2. AllRetagged(got) = pp_list
  BY <1>1, EofRetag, TakenNow, ConcatEmptySeq DEF Conserved, TokensConserved
<1>3. n \in Nat /\ Len(got) = n /\ pp_list = [i \in 1..n |-> Retag(got[i])]
  BY <1>1, <1>2 DEF AllRetagged
<1>4. CutAt(got, n)
  BY <1>1, <1>3 DEF CutInv, AllJoined, CutAt
<1>5. Cut(got) = [tape |-> pp_list, list |-> <<>>, taken |-> n]
  <2>1. n \in 0..Len(got)
    BY <1>3
  <2> HIDE DEF n
  <2> QED BY <1>1, <1>3, <1>4, <2>1, CutValue
<1>6. Tape' = pp_list
  <2>1. Tape = pp_list
    BY <1>1, TapeOpen
  <2> QED BY <1>1, <2>1 DEF Tape
<1> QED BY <1>1, <1>3, <1>5, <1>6 DEF CutInv, AllJoined, CutAsCalled

(* "$" is appended to the tape and is no part of it. *)
LEMMA BeginKeepsTape == ASSUME Inv, BeginExpression PROVE Tape' = Tape
<1> DEFINE dollar == [token EXCEPT !.spec = "$", !.attr = "$"]
           n == Len(pp_list)
<1>1. /\ pp_list \in Seq(Retagged) /\ pp_list \in Seq(TokenSet) /\ pp_list' = Append(pp_list, dollar)
      /\ token \in TokenSet
  BY DEF BeginExpression, Inv, TypeOK, CollectInv
<1>2. dollar \in TokenSet /\ dollar.spec = "$"
  <2>1. "$" \in Attributes /\ "$" \in Specs
    BY AttributesAssumption DEF Specs, TableSymbols
  <2> QED BY <1>1, <2>1 DEF TokenSet
<1> HIDE DEF dollar
<1>3. pp_list' # <<>> /\ Len(pp_list') = n + 1 /\ pp_list'[n + 1] = dollar /\ n \in Nat
  BY <1>1, <1>2
<1>4. Tape' = SubSeq(pp_list', 1, n)
  BY <1>2, <1>3 DEF Tape
<1>5. SubSeq(pp_list', 1, n) = pp_list
  <2>1. /\ SubSeq(pp_list', 1, n) \in Seq(TokenSet) /\ Len(SubSeq(pp_list', 1, n)) = n
        /\ \A i \in 1..n : SubSeq(pp_list', 1, n)[i] = pp_list[i]
    BY <1>1, <1>2, <1>3
  <2> QED BY <1>1, <2>1, SeqEqual
<1> QED BY <1>1, <1>4, <1>5, TapeOpen

LEMMA NextCut == ASSUME Inv, Conserved, CutInv, [Next]_vars PROVE CutInv'
<1> DEFINE Keeps == pc # "collect" /\ pc' # "collect" /\ list' = list /\ got' = got
<1>1. ASSUME Keeps, pc # "return", pc' = "return" \/ Tape' = Tape PROVE CutInv'
  BY <1>1 DEF CutInv, AllJoined, CutAsCalled
<1>2. CASE Collect \/ GiveBack \/ GiveBackCall \/ EndOfFile
  BY <1>2, CollectCut, GiveBackCut, GiveBackCallCut, EndOfFileCut
<1>3. CASE BeginExpression
  <2>1. Keeps /\ pc # "return" /\ Tape' = Tape
    BY <1>3, BeginKeepsTape DEF BeginExpression
  <2> QED BY <1>1, <2>1
<1>4. CASE ReturnEmpty \/ Accept
  BY <1>1, <1>4 DEF ReturnEmpty, Accept, Cell, Parsing
<1>5. CASE GoesOn \/ Ends
  <2>1. Keeps /\ pc # "return" /\ pp_list' = pp_list
    BY <1>5, GoesOnFacts, EndsFacts
  <2>2. Tape' = Tape
    BY <2>1 DEF Tape
  <2> QED BY <1>1, <2>1, <2>2
<1>6. CASE UNCHANGED vars
  <2>1. pc' = pc /\ list' = list /\ got' = got /\ pp_list' = pp_list
    BY <1>6 DEF vars
  <2>2. Tape' = Tape
    BY <2>1 DEF Tape
  <2> QED BY <2>1, <2>2 DEF CutInv, AllJoined, CutAsCalled
<1> QED BY <1>2, <1>3, <1>4, <1>5, <1>6, Steps

(* The loop that collects the tape cuts it where Cut says, for every input:  *)
(* the one step that stands for a call in Statements takes and gives back    *)
(* exactly what the call does.                                               *)
THEOREM TapeIsCut == Spec => []CutAsCalled
<1>1. Init => CutInv
  BY DEF Init, CutInv, AllJoined, CutAsCalled
<1>2. Inv /\ Conserved /\ CutInv /\ [Next]_vars => CutInv'
  BY NextCut
<1>3. CutInv => CutAsCalled
  BY DEF CutInv
<1> QED BY <1>1, <1>2, <1>3, SpecBoth, PTL DEF Spec
=============================================================================

----------------------- MODULE PrecedenceParser_proofs -----------------------
(***************************************************************************)
(* Proofs about PrecedenceParser.  The heart is StackShape, the shape that *)
(* the precedence table forces on the stack of parse_expression: from it   *)
(* follow HandleFits, AcceptsOneExpression and the rest of TypeOK.         *)
(***************************************************************************)
EXTENDS PrecedenceParser, SequenceTheorems, TLAPS

ExprTypes == VarTypes \cup {"BOOL"}

(* y may lie on x on the stack. *)
Adjacent(x, y) ==
    \/ x \in BinaryOps \cup {"#", "$"} /\ y \in {"MARK", "E"}
    \/ x = "(" /\ y \in {"MARK", "E", ")"}
    \/ x = "MARK" /\ y \in BinaryOps \cup {"#", "i", "(", "E"}
    \/ x = "E" /\ y \in BinaryOps \cup {")"}

StackShape(s) ==
    /\ s # <<>> /\ s[1].spec = "$"
    /\ \A k \in 1..(Len(s) - 1) : Adjacent(s[k].spec, s[k + 1].spec)
    /\ s[Len(s)].spec # "MARK"
    /\ \A k \in 2..(Len(s) - 1) : s[k].spec = "E" =>
            s[k - 1].spec = IF s[k + 1].spec = ")" THEN "(" ELSE "MARK"
    /\ s[Len(s)].spec = "E" => s[Len(s) - 1].spec # "MARK"

-----------------------------------------------------------------------------
(* The symbols of the table that are not binary operators. *)
LEMMA Alphabet ==
    /\ {"E", "MARK", "$", "i", "(", ")", "#", "EMPTY", "others"} \cap BinaryOps = {}
    /\ AddOps \subseteq BinaryOps /\ MulOps \subseteq BinaryOps /\ RelOps \subseteq BinaryOps
    /\ ".." \in BinaryOps
BY DEF BinaryOps, AddOps, MulOps, RelOps

(* The entries of pp_table, by kind: the rows and the columns they lie in. *)
LEMMA TableCells ==
    ASSUME NEW r, NEW c
    PROVE  /\ pp_table(r, c) = "<" => /\ r \in BinaryOps \cup {"#", "(", "$"}
                                      /\ c \in BinaryOps \cup {"#", "i", "("}
           /\ pp_table(r, c) = ">" => /\ r \in BinaryOps \cup {"#", "i", ")"}
                                      /\ c \in BinaryOps \cup {")", "$"}
           /\ pp_table(r, c) = "=" => r = "(" /\ c = ")"
           /\ pp_table(r, c) = "#" => r = "$" /\ c = "$"
<1>1. c \in Shifts(r) => /\ r \in BinaryOps \cup {"#", "(", "$"}
                         /\ c \in BinaryOps \cup {"#", "i", "("}
  BY Alphabet DEF Shifts
<1>2. c \in Reduces(r) => /\ r \in BinaryOps \cup {"#", "i", ")"}
                          /\ c \in BinaryOps \cup {")", "$"}
  BY Alphabet DEF Reduces
<1> QED BY <1>1, <1>2 DEF pp_table

(* The top terminal is the top of the stack, or lies under one nonterminal. *)
LEMMA TopTerm ==
    ASSUME NEW s \in Seq(TokenSet), StackShape(s)
    PROVE  /\ Len(s) \in Nat \ {0}
           /\ s[Len(s)].spec = "E" => Len(s) > 1
           /\ TopTermAt(s) = IF s[Len(s)].spec = "E" THEN Len(s) - 1 ELSE Len(s)
           /\ TopTermAt(s) \in DOMAIN s
           /\ stack_top_term(s).spec \notin {"E", "MARK"}
<1>1. Len(s) \in Nat \ {0} /\ DOMAIN s = 1..Len(s)
  BY DEF StackShape
<1>2. s[Len(s)].spec = "E" => Len(s) > 1
  BY <1>1 DEF StackShape
<1> DEFINE p == IF s[Len(s)].spec = "E" THEN Len(s) - 1 ELSE Len(s)
<1>3. p \in DOMAIN s
  BY <1>1, <1>2
<1>4. s[p].spec # "E" /\ \A j \in DOMAIN s : j > p => s[j].spec = "E"
  <2>1. CASE s[Len(s)].spec = "E"
    <3>1. Len(s) - 1 \in 1..(Len(s) - 1) /\ (Len(s) - 1) + 1 = Len(s)
      BY <1>1, <1>2, <2>1
    <3>2. Adjacent(s[Len(s) - 1].spec, "E")
      BY <2>1, <3>1 DEF StackShape
    <3> QED BY <1>1, <2>1, <3>2, Alphabet DEF Adjacent
  <2>2. CASE s[Len(s)].spec # "E"
    BY <1>1, <2>2
  <2> QED BY <2>1, <2>2
<1>5. TopTermAt(s) = p
  <2>1. \A q \in DOMAIN s :
            (s[q].spec # "E" /\ \A j \in DOMAIN s : j > q => s[j].spec = "E") => q = p
    BY <1>1, <1>3, <1>4
  <2> HIDE DEF p
  <2> QED BY <1>3, <1>4, <2>1 DEF TopTermAt
<1>6. s[p].spec # "MARK"
  BY <1>1, <1>2 DEF StackShape
<1> QED BY <1>1, <1>2, <1>3, <1>4, <1>5, <1>6 DEF stack_top_term

(* The lowest symbol is "$" and no other one is. *)
LEMMA OneDollar ==
    ASSUME NEW s \in Seq(TokenSet), StackShape(s), NEW k \in DOMAIN s, s[k].spec = "$"
    PROVE  k = 1
<1> SUFFICES ASSUME k # 1 PROVE FALSE
  OBVIOUS
<1>1. k - 1 \in 1..(Len(s) - 1) /\ (k - 1) + 1 = k
  OBVIOUS
<1>2. Adjacent(s[k - 1].spec, "$")
  BY <1>1 DEF StackShape
<1> QED BY <1>2, Alphabet DEF Adjacent

(* When the top terminal ends a handle, the topmost mark lies one to three   *)
(* elements below the top, and "$", an operator or "(" lies under it.        *)
LEMMA Marked ==
    ASSUME NEW s \in Seq(TokenSet), StackShape(s),
           stack_top_term(s).spec \in BinaryOps \cup {"#", "i", ")"}
    PROVE  /\ MarkAt(s) \in 2..(Len(s) - 1)
           /\ Len(s) \in (MarkAt(s) + 1)..(MarkAt(s) + 3)
           /\ s[MarkAt(s)].spec = "MARK"
           /\ \A j \in DOMAIN s : j > MarkAt(s) => s[j].spec # "MARK"
<1> DEFINE n == Len(s)
           IsMark(m) == /\ m \in 2..(n - 1) /\ n \in (m + 1)..(m + 3) /\ s[m].spec = "MARK"
                        /\ \A j \in DOMAIN s : j > m => s[j].spec # "MARK"
<1>1. n \in Nat \ {0} /\ DOMAIN s = 1..n /\ s[1].spec = "$" /\ s[n].spec # "MARK"
  BY TopTerm DEF StackShape
<1>2. \A k \in 2..n : Adjacent(s[k - 1].spec, s[k].spec)
  <2> SUFFICES ASSUME NEW k \in 2..n PROVE Adjacent(s[k - 1].spec, s[k].spec)
    OBVIOUS
  <2>1. k - 1 \in 1..(n - 1) /\ (k - 1) + 1 = k
    BY <1>1
  <2> QED BY <2>1 DEF StackShape
<1>3. \A k \in 2..(n - 1) : s[k].spec = "E" =>
        s[k - 1].spec = IF s[k + 1].spec = ")" THEN "(" ELSE "MARK"
  BY DEF StackShape
<1>4. ASSUME NEW p \in 2..n, s[p].spec \in BinaryOps \cup {"#", "i", ")"}
      PROVE  \E m \in 2..(p - 1) :
                /\ p <= m + 3 /\ s[m].spec = "MARK"
                /\ \A j \in (m + 1)..p : s[j].spec # "MARK"
                /\ s[p].spec \in BinaryOps \cup {"#", "i"} => p <= m + 2
  <2>0. s[p].spec \notin {"MARK", "E", "$", "("}
    BY <1>4, Alphabet
  <2>1. CASE s[p].spec \in {"#", "i"}
    <3>1. s[p - 1].spec = "MARK"
      BY <1>2, <2>1, Alphabet DEF Adjacent
    <3> QED BY <1>1, <2>0, <3>1
  <2>2. CASE s[p].spec \in BinaryOps
    <3>1. s[p - 1].spec \in {"MARK", "E"}
      BY <1>2, <2>2, Alphabet DEF Adjacent
    <3>2. CASE s[p - 1].spec = "MARK"
      BY <1>1, <2>0, <3>2
    <3>3. CASE s[p - 1].spec = "E"
      <4>1. p - 1 \in 2..(n - 1) /\ (p - 1) + 1 = p /\ (p - 1) - 1 = p - 2
        BY <1>1, <3>3
      <4>2. s[p - 2].spec = "MARK"
        BY <1>3, <2>2, <3>3, <4>1, Alphabet
      <4> QED BY <1>1, <2>0, <3>3, <4>1, <4>2
    <3> QED BY <3>1, <3>2, <3>3
  <2>3. CASE s[p].spec = ")"
    <3>1. s[p - 1].spec \in {"(", "E"}
      BY <1>2, <2>3, Alphabet DEF Adjacent
    <3>2. ASSUME NEW q \in 1..(p - 1), s[q].spec = "("
          PROVE  q \in 2..(p - 1) /\ s[q - 1].spec = "MARK" /\ q - 1 # 1
      <4>1. q \in 2..(p - 1)
        BY <1>1, <3>2
      <4>2. s[q - 1].spec = "MARK"
        BY <1>2, <3>2, <4>1, Alphabet DEF Adjacent
      <4> QED BY <1>1, <4>1, <4>2
    <3>3. CASE s[p - 1].spec = "("
      BY <1>1, <2>0, <2>3, <3>2, <3>3
    <3>4. CASE s[p - 1].spec = "E"
      <4>1. p - 1 \in 2..(n - 1) /\ (p - 1) + 1 = p /\ (p - 1) - 1 = p - 2
        BY <1>1, <3>4
      <4>2. s[p - 2].spec = "(" /\ p - 2 \in 1..(p - 1)
        BY <1>3, <2>3, <3>4, <4>1
      <4>3. p - 2 \in 2..(p - 1) /\ s[p - 3].spec = "MARK" /\ p - 3 # 1
        BY <3>2, <4>2
      <4> QED BY <1>1, <2>0, <2>3, <3>4, <4>2, <4>3, Alphabet
    <3> QED BY <3>1, <3>3, <3>4
  <2> QED BY <1>4, <2>1, <2>2, <2>3
<1>5. \E m \in 2..(n - 1) : IsMark(m)
  <2>1. CASE s[n].spec # "E"
    <3>1. s[n].spec \in BinaryOps \cup {"#", "i", ")"} /\ n \in 2..n
      BY <1>1, <2>1, TopTerm, Alphabet DEF stack_top_term
    <3>2. PICK m \in 2..(n - 1) :
                /\ n <= m + 3 /\ s[m].spec = "MARK"
                /\ \A j \in (m + 1)..n : s[j].spec # "MARK"
      BY <1>4, <3>1
    <3>3. \A j \in DOMAIN s : j > m => s[j].spec # "MARK"
      BY <1>1, <3>2
    <3>4. n \in (m + 1)..(m + 3)
      BY <1>1, <3>2
    <3> QED BY <3>2, <3>3, <3>4
  <2>2. CASE s[n].spec = "E"
    <3>1. s[n - 1].spec \in BinaryOps \cup {"#", "i", ")"} /\ n > 1
      BY <2>2, TopTerm DEF stack_top_term
    <3>2. s[n - 1].spec \in BinaryOps \cup {"#"} /\ n - 1 \in 2..n
      BY <1>1, <1>2, <2>2, <3>1, Alphabet DEF Adjacent
    <3>3. PICK m \in 2..(n - 1 - 1) :
                /\ n - 1 <= m + 2 /\ s[m].spec = "MARK"
                /\ \A j \in (m + 1)..(n - 1) : s[j].spec # "MARK"
      BY <1>4, <3>2
    <3>4. \A j \in DOMAIN s : j > m => s[j].spec # "MARK"
      BY <1>1, <2>2, <3>3
    <3>5. m \in 2..(n - 1) /\ n \in (m + 1)..(m + 3)
      BY <1>1, <3>3
    <3> QED BY <3>3, <3>4, <3>5
  <2> QED BY <2>1, <2>2
<1>6. PICK m \in 2..(n - 1) : IsMark(m)
  BY <1>5
<1>7. MarkAt(s) = m
  <2>1. m \in DOMAIN s
    BY <1>1
  <2>2. \A q \in DOMAIN s :
          (s[q].spec = "MARK" /\ \A j \in DOMAIN s : j > q => s[j].spec # "MARK") => q = m
    BY <1>1, <1>6, <2>1
  <2> QED BY <1>6, <2>1, <2>2 DEF MarkAt
<1> QED BY <1>6, <1>7

-----------------------------------------------------------------------------
(* The three ways the stack changes keep its shape.                        *)

LEMMA SpecialTokens ==
    /\ EofToken \in TokenSet /\ DollarToken \in TokenSet
    /\ MarkToken \in TokenSet /\ EmptyToken \in TokenSet
<1>1. "EOF" \in TokenTypes /\ "UNDEF" \in TokenTypes
  BY DEF TokenTypes
<1>2. "others" \in Specs /\ "$" \in Specs /\ "MARK" \in Specs /\ "EMPTY" \in Specs
  BY DEF Specs, TableSymbols
<1>3. "" \in Attributes /\ "$" \in Attributes /\ "[<]" \in Attributes
  BY AttributesAssumption
<1> QED BY <1>1, <1>2, <1>3 DEF TokenSet, EofToken, DollarToken, MarkToken, EmptyToken

LEMMA StackMark ==
    ASSUME NEW s \in Seq(TokenSet), StackShape(s)
    PROVE  /\ stack_mark(s) \in Seq(TokenSet)
           /\ Len(stack_mark(s)) = Len(s) + 1
           /\ \A k \in 1..TopTermAt(s) : stack_mark(s)[k] = s[k]
           /\ stack_mark(s)[TopTermAt(s) + 1] = MarkToken
           /\ TopTermAt(s) < Len(s) => stack_mark(s)[Len(s) + 1] = s[Len(s)]
<1> DEFINE p == TopTermAt(s)
           below == SubSeq(s, 1, p)
           above == SubSeq(s, p + 1, Len(s))
<1>1. p \in 1..Len(s) /\ Len(s) \in Nat /\ p >= Len(s) - 1
  BY TopTerm
<1>2. MarkToken \in TokenSet
  BY SpecialTokens
<1>3. below \in Seq(TokenSet) /\ Len(below) = p /\ \A k \in 1..p : below[k] = s[k]
  BY <1>1
<1>4. above \in Seq(TokenSet) /\ Len(above) = Len(s) - p
  BY <1>1
<1>5. p < Len(s) => above[1] = s[Len(s)]
  <2> SUFFICES ASSUME p < Len(s) PROVE above[1] = s[Len(s)]
    OBVIOUS
  <2>1. p + 1 = Len(s)
    BY <1>1
  <2>2. above = SubSeq(s, Len(s), Len(s))
    BY <2>1
  <2> QED BY <1>1, <2>1, <2>2
<1> HIDE DEF p, below, above
<1>6. stack_mark(s) = below \o <<MarkToken>> \o above
  BY DEF stack_mark, p, below, above
<1>7. below \o <<MarkToken>> \in Seq(TokenSet) /\ Len(below \o <<MarkToken>>) = p + 1
  BY <1>1, <1>2, <1>3
<1>8. /\ \A k \in 1..p : (below \o <<MarkToken>>)[k] = s[k]
      /\ (below \o <<MarkToken>>)[p + 1] = MarkToken
  BY <1>1, <1>2, <1>3
<1>9. /\ stack_mark(s) \in Seq(TokenSet) /\ Len(stack_mark(s)) = Len(s) + 1
      /\ \A k \in 1..(p + 1) : stack_mark(s)[k] = (below \o <<MarkToken>>)[k]
  BY <1>1, <1>4, <1>6, <1>7
<1>10. p < Len(s) => stack_mark(s)[Len(s) + 1] = s[Len(s)]
  BY <1>1, <1>4, <1>5, <1>6, <1>7
<1>11. \A k \in 1..p : stack_mark(s)[k] = s[k]
  <2> SUFFICES ASSUME NEW k \in 1..p PROVE stack_mark(s)[k] = s[k]
    OBVIOUS
  <2>1. k \in 1..(p + 1)
    BY <1>1
  <2> QED BY <1>8, <1>9, <2>1
<1>12. stack_mark(s)[p + 1] = MarkToken
  <2>1. p + 1 \in 1..(p + 1)
    BY <1>1
  <2> QED BY <1>8, <1>9, <2>1
<1> QED BY <1>9, <1>10, <1>11, <1>12 DEF p

LEMMA MarkAndShiftShape ==
    ASSUME NEW s \in Seq(TokenSet), StackShape(s), NEW t \in TokenSet,
           stack_top_term(s).spec \in BinaryOps \cup {"#", "(", "$"},
           t.spec \in BinaryOps \cup {"#", "i", "("},
           s[Len(s)].spec = "E" => t.spec \notin {"#", "i", "("}
    PROVE  LET u == Append(stack_mark(s), t) IN
           /\ u \in Seq(TokenSet) /\ Len(u) = Len(s) + 2 /\ u[Len(u)] = t
           /\ StackShape(u)
           /\ \A k \in DOMAIN u : u[k] \in {MarkToken, t} \/ \E j \in DOMAIN s : u[k] = s[j]
<1> DEFINE n == Len(s)
           p == TopTermAt(s)
           u == Append(stack_mark(s), t)
<1>1. /\ n \in Nat \ {0} /\ DOMAIN s = 1..n /\ p \in 1..n
      /\ p = IF s[n].spec = "E" THEN n - 1 ELSE n
      /\ s[p].spec \in BinaryOps \cup {"#", "(", "$"}
  BY TopTerm DEF stack_top_term
<1>2. /\ u \in Seq(TokenSet) /\ Len(u) = n + 2 /\ DOMAIN u = 1..(n + 2)
      /\ u[n + 2] = t
      /\ \A k \in 1..p : u[k] = s[k]
      /\ u[p + 1] = MarkToken
      /\ p < n => u[n + 1] = s[n]
  <2>1. /\ stack_mark(s) \in Seq(TokenSet) /\ Len(stack_mark(s)) = n + 1
        /\ \A k \in 1..p : stack_mark(s)[k] = s[k]
        /\ stack_mark(s)[p + 1] = MarkToken
        /\ p < n => stack_mark(s)[n + 1] = s[n]
    BY StackMark
  <2> HIDE DEF n, p
  <2>2. /\ u \in Seq(TokenSet) /\ Len(u) = n + 2 /\ u[n + 2] = t
        /\ \A k \in 1..(n + 1) : u[k] = stack_mark(s)[k]
    BY <1>1, <2>1
  <2> HIDE DEF u
  <2>3. \A k \in 1..p : k \in 1..(n + 1)
    BY <1>1
  <2>4. p + 1 \in 1..(n + 1) /\ n + 1 \in 1..(n + 1)
    BY <1>1
  <2> QED BY <2>1, <2>2, <2>3, <2>4
<1>3. s[1].spec = "$" /\ MarkToken.spec = "MARK"
  BY DEF StackShape, MarkToken
<1>4. \A k \in 1..(n - 1) : Adjacent(s[k].spec, s[k + 1].spec)
  BY DEF StackShape
<1>5. \A k \in 2..(n - 1) : s[k].spec = "E" =>
        s[k - 1].spec = IF s[k + 1].spec = ")" THEN "(" ELSE "MARK"
  BY DEF StackShape
<1> HIDE DEF n, p, u
<1>6. u # <<>> /\ u[1].spec = "$" /\ u[Len(u)].spec \notin {"MARK", "E"}
  BY <1>1, <1>2, <1>3, Alphabet
<1>7. ASSUME NEW k \in 1..(n + 1) PROVE Adjacent(u[k].spec, u[k + 1].spec)
  <2>1. CASE k < p
    <3>1. k \in 1..(n - 1) /\ k \in 1..p /\ k + 1 \in 1..p
      BY <1>1, <1>7, <2>1
    <3> QED BY <1>2, <1>4, <3>1
  <2>2. CASE k = p
    <3>1. u[k].spec \in BinaryOps \cup {"#", "(", "$"} /\ u[k + 1].spec = "MARK"
      BY <1>1, <1>2, <1>3, <2>2
    <3> QED BY <3>1 DEF Adjacent
  <2>3. CASE k = p + 1
    <3>1. CASE p = n
      BY <1>1, <1>2, <1>3, <2>3, <3>1 DEF Adjacent
    <3>2. CASE p < n
      <4>1. p + 2 = n + 1 /\ s[n].spec = "E"
        BY <1>1, <3>2
      <4> QED BY <1>1, <1>2, <1>3, <2>3, <3>2, <4>1 DEF Adjacent
    <3> QED BY <1>1, <3>1, <3>2
  <2>4. CASE k > p + 1
    <3>1. k = n + 1 /\ p < n /\ s[n].spec = "E"
      BY <1>1, <1>7, <2>4
    <3>2. t.spec \in BinaryOps
      BY <3>1 DEF n
    <3>3. u[k].spec = "E" /\ u[k + 1] = t
      BY <1>1, <1>2, <3>1
    <3> QED BY <3>2, <3>3 DEF Adjacent
  <2> QED BY <1>1, <1>7, <2>1, <2>2, <2>3, <2>4
<1>8. ASSUME NEW k \in 2..(n + 1), u[k].spec = "E"
      PROVE u[k - 1].spec = IF u[k + 1].spec = ")" THEN "(" ELSE "MARK"
  <2>1. CASE k < p
    <3>1. k \in 2..(n - 1) /\ k \in 1..p /\ k + 1 \in 1..p /\ k - 1 \in 1..p
      BY <1>1, <1>8, <2>1
    <3> QED BY <1>2, <1>5, <1>8, <3>1
  <2>2. CASE k = p \/ k = p + 1
    BY <1>1, <1>2, <1>3, <1>8, <2>2, Alphabet
  <2>3. CASE k > p + 1
    <3>1. k = n + 1 /\ p = n - 1 /\ s[n].spec = "E"
      BY <1>1, <1>8, <2>3
    <3>2. t.spec \in BinaryOps /\ t.spec # ")"
      BY <3>1, Alphabet DEF n
    <3>3. u[k - 1].spec = "MARK" /\ u[k + 1] = t
      BY <1>1, <1>2, <1>3, <3>1
    <3> QED BY <3>2, <3>3
  <2> QED BY <1>1, <1>8, <2>1, <2>2, <2>3
<1>9. StackShape(u)
  BY <1>1, <1>2, <1>6, <1>7, <1>8 DEF StackShape
<1>10. ASSUME NEW k \in 1..(n + 2)
       PROVE u[k] \in {MarkToken, t} \/ \E j \in DOMAIN s : u[k] = s[j]
  <2>1. k \in 1..p \/ k = p + 1 \/ (k = n + 1 /\ p < n) \/ k = n + 2
    BY <1>1, <1>10
  <2> QED BY <1>1, <1>2, <2>1
<1> QED BY <1>2, <1>9, <1>10 DEF u, n

LEMMA ShiftShape ==
    ASSUME NEW s \in Seq(TokenSet), StackShape(s), NEW t \in TokenSet,
           stack_top_term(s).spec = "(", t.spec = ")"
    PROVE  LET u == Append(s, t) IN
           /\ u \in Seq(TokenSet) /\ Len(u) = Len(s) + 1 /\ u[Len(u)] = t
           /\ StackShape(u)
           /\ \A k \in DOMAIN u : u[k] = t \/ \E j \in DOMAIN s : u[k] = s[j]
<1> DEFINE n == Len(s)
           u == Append(s, t)
<1>1. /\ n \in Nat \ {0} /\ DOMAIN s = 1..n
      /\ IF s[n].spec = "E" THEN n > 1 /\ s[n - 1].spec = "(" ELSE s[n].spec = "("
  BY TopTerm DEF stack_top_term
<1>2. /\ u \in Seq(TokenSet) /\ Len(u) = n + 1 /\ DOMAIN u = 1..(n + 1)
      /\ u[n + 1] = t /\ \A k \in 1..n : u[k] = s[k]
  BY <1>1
<1> HIDE DEF n, u
<1>3. /\ s[1].spec = "$"
      /\ \A k \in 1..(n - 1) : Adjacent(s[k].spec, s[k + 1].spec)
      /\ \A k \in 2..(n - 1) : s[k].spec = "E" =>
            s[k - 1].spec = IF s[k + 1].spec = ")" THEN "(" ELSE "MARK"
  BY DEF StackShape, n
<1>4. ASSUME NEW k \in 1..n PROVE Adjacent(u[k].spec, u[k + 1].spec)
  <2>1. CASE k < n
    BY <1>1, <1>2, <1>3, <2>1
  <2>2. CASE k = n
    BY <1>1, <1>2, <2>2 DEF Adjacent
  <2> QED BY <1>1, <2>1, <2>2
<1>5. ASSUME NEW k \in 2..n, u[k].spec = "E"
      PROVE u[k - 1].spec = IF u[k + 1].spec = ")" THEN "(" ELSE "MARK"
  <2>1. CASE k < n
    BY <1>1, <1>2, <1>3, <1>5, <2>1
  <2>2. CASE k = n
    BY <1>1, <1>2, <1>5, <2>2
  <2> QED BY <1>1, <2>1, <2>2
<1>6. StackShape(u)
  BY <1>1, <1>2, <1>3, <1>4, <1>5 DEF StackShape
<1> QED BY <1>1, <1>2, <1>6 DEF u, n

LEMMA ReducedShape ==
    ASSUME NEW s \in Seq(TokenSet), StackShape(s), NEW t \in TokenSet, t.spec = "E",
           stack_top_term(s).spec \in BinaryOps \cup {"#", "i", ")"}
    PROVE  LET u == Replaced(s, t) IN
           /\ u \in Seq(TokenSet) /\ Len(u) > 1 /\ u[Len(u)] = t
           /\ StackShape(u)
           /\ \A k \in DOMAIN u : u[k] = t \/ \E j \in DOMAIN s : u[k] = s[j]
<1> DEFINE n == Len(s)
           m == MarkAt(s)
           u == Replaced(s, t)
<1>1. /\ n \in Nat \ {0} /\ DOMAIN s = 1..n
      /\ m \in 2..(n - 1) /\ s[m].spec = "MARK"
  BY TopTerm, Marked
<1>2. /\ u \in Seq(TokenSet) /\ Len(u) = m /\ DOMAIN u = 1..m
      /\ u[m] = t /\ \A k \in 1..(m - 1) : u[k] = s[k]
  BY <1>1 DEF Replaced
<1> HIDE DEF n, m, u
<1>3. /\ s[1].spec = "$"
      /\ \A k \in 1..(n - 1) : Adjacent(s[k].spec, s[k + 1].spec)
      /\ \A k \in 2..(n - 1) : s[k].spec = "E" =>
            s[k - 1].spec = IF s[k + 1].spec = ")" THEN "(" ELSE "MARK"
  BY DEF StackShape, n
<1>4. s[m - 1].spec \in BinaryOps \cup {"#", "(", "$"}
  <2>1. m - 1 \in 1..(n - 1) /\ (m - 1) + 1 = m
    BY <1>1
  <2>2. Adjacent(s[m - 1].spec, "MARK")
    BY <1>1, <1>3, <2>1
  <2> QED BY <2>2, Alphabet DEF Adjacent
<1>5. ASSUME NEW k \in 1..(m - 1) PROVE Adjacent(u[k].spec, u[k + 1].spec)
  <2>1. CASE k < m - 1
    BY <1>1, <1>2, <1>3, <2>1
  <2>2. CASE k = m - 1
    <3>1. u[k] = s[m - 1] /\ u[k + 1].spec = "E"
      BY <1>1, <1>2, <2>2
    <3> QED BY <1>4, <3>1 DEF Adjacent
  <2> QED BY <1>1, <2>1, <2>2
<1>6. ASSUME NEW k \in 2..(m - 1), u[k].spec = "E"
      PROVE u[k - 1].spec = IF u[k + 1].spec = ")" THEN "(" ELSE "MARK"
  <2>1. CASE k < m - 1
    BY <1>1, <1>2, <1>3, <1>6, <2>1
  <2>2. CASE k = m - 1
    BY <1>1, <1>2, <1>4, <1>6, <2>2, Alphabet
  <2> QED BY <1>1, <2>1, <2>2
<1>7. u[m - 1].spec # "MARK" /\ u[m].spec = "E" /\ u[1].spec = "$"
  BY <1>1, <1>2, <1>3, <1>4, Alphabet
<1>8. StackShape(u)
  BY <1>1, <1>2, <1>5, <1>6, <1>7 DEF StackShape
<1> QED BY <1>1, <1>2, <1>8 DEF u

-----------------------------------------------------------------------------
(* Tokens and nonterminals.                                                *)

Retagged == {Retag(t) : t \in Lexemes}

(* What is known of the elements of the stack. *)
StackSymbol(t) ==
    /\ t.spec \in StackSymbols
    /\ t.spec = "E" => t.type \in ExprTypes
    /\ t.spec \notin {"E", "MARK", "$"} => t \in Retagged

LEMMA LexemeFacts ==
    ASSUME NEW t \in Lexemes
    PROVE  /\ t \in TokenSet /\ t.type # "EOF" /\ t.spec \notin {"$", "MARK", "E", "EMPTY"}
           /\ t.spec = "i" => t.type \in Literals \cup {"IDENTIFIER"}
BY LexemesAssumption DEF Scanned, TableSymbols, BinaryOps, AddOps, MulOps, RelOps,
   Keywords, Datatypes, Literals

LEMMA RetaggedFacts ==
    ASSUME NEW u \in Retagged
    PROVE  /\ u \in TokenSet /\ u.spec \notin {"$", "MARK", "E", "EMPTY"}
           /\ u.spec = "i" => OperandType(u) \in VarTypes
<1>1. PICK t \in Lexemes : u = Retag(t)
  BY DEF Retagged
<1>2. CASE t.spec = "nil"
  <2>1. u = [t EXCEPT !.spec = "i", !.type = "NIL"]
    BY <1>1, <1>2 DEF Retag
  <2>2. u.spec = "i" /\ u.type = "NIL"
    BY <2>1, LexemeFacts DEF TokenSet
  <2>3. u \in TokenSet
    BY <2>1, LexemeFacts DEF TokenSet, TokenTypes, Specs, TableSymbols
  <2> QED BY <2>2, <2>3 DEF OperandType, VarTypes
<1>3. CASE t.spec # "nil"
  <2>1. u = t
    BY <1>1, <1>3 DEF Retag
  <2> QED BY <2>1, LexemeFacts, VarTypeAssumption DEF OperandType, VarTypes, Literals
<1> QED BY <1>2, <1>3

LEMMA ExprTypesAreTypes == ExprTypes \subseteq TokenTypes /\ "E" \in Specs
BY DEF ExprTypes, VarTypes, TokenTypes, Literals, Specs

(* reduce's token[] holds symbols of the stack or SPEC_EMPTY. *)
LEMMA RhsFacts ==
    ASSUME NEW s \in Seq(TokenSet), StackShape(s),
           stack_top_term(s).spec \in BinaryOps \cup {"#", "i", ")"}, NEW k \in 0..2
    PROVE  Rhs(s)[k] = EmptyToken \/ \E j \in DOMAIN s : Rhs(s)[k] = s[j]
<1> DEFINE m == MarkAt(s)
           h == Handle(s)
<1>1. m \in 2..(Len(s) - 1) /\ Len(s) \in Nat
  BY Marked
<1>2. h \in Seq(TokenSet) /\ Len(h) = Len(s) - m
  BY <1>1 DEF Handle
<1>3. \A i \in 1..Len(h) : h[i] = s[m + i] /\ m + i \in DOMAIN s
  BY <1>1 DEF Handle
<1>4. Rhs(s)[k] = IF k + Len(h) < 3 THEN EmptyToken ELSE h[k + Len(h) - 2]
  BY DEF Rhs
<1> HIDE DEF m, h
<1>5. CASE ~(k + Len(h) < 3)
  <2>1. k + Len(h) - 2 \in 1..Len(h)
    BY <1>1, <1>2, <1>5
  <2> QED BY <1>3, <1>4, <1>5, <2>1
<1> QED BY <1>4, <1>5

LEMMA NontOperandFacts ==
    ASSUME NEW r, r[2] \in Retagged, r[2].spec = "i"
    PROVE  NontOperand(r) \in TokenSet /\ NontOperand(r).spec = "E" /\ NontOperand(r).type \in ExprTypes
<1>1. OperandType(r[2]) \in ExprTypes
  BY RetaggedFacts DEF ExprTypes
<1>2. "0" \in Attributes /\ "E" \in Attributes
  BY AttributesAssumption
<1> QED BY <1>1, <1>2, ExprTypesAreTypes DEF NontOperand, TokenSet

LEMMA NontBinaryFacts ==
    ASSUME NEW r, IsBinary(r), NontBinary(r).type # "NONE"
    PROVE  NontBinary(r) \in TokenSet /\ NontBinary(r).spec = "E" /\ NontBinary(r).type \in ExprTypes
<1> DEFINE type == BinaryType(r[1].spec, r[0].type, r[2].type)
<1>1. r[1].spec \in BinaryOps /\ type # "NONE"
  BY DEF IsBinary, NontBinary
<1>2. type \in {"INTEGER", "DECIMAL", "BOOL", "STRING"}
  BY <1>1 DEF BinaryType, ArithmeticType, BinaryOps, AddOps, MulOps, RelOps
<1>3. type \in ExprTypes
  BY <1>2 DEF ExprTypes, VarTypes
<1>4. "0" \in Attributes /\ "E" \in Attributes
  BY AttributesAssumption
<1> QED BY <1>3, <1>4, ExprTypesAreTypes DEF NontBinary, TokenSet

LEMMA NontLengthFacts ==
    ASSUME NEW r, r[2] \in TokenSet, r[2].spec = "E"
    PROVE  NontLength(r) \in TokenSet /\ NontLength(r).spec = "E" /\ NontLength(r).type \in ExprTypes
BY ExprTypesAreTypes DEF NontLength, TokenSet, ExprTypes, VarTypes

-----------------------------------------------------------------------------
(* The inductive invariant: TypeOK needs to know what the tape and the stack *)
(* are made of, and that a nonterminal on top waits for no operand.          *)

CollectInv ==
    /\ pc = "collect" => token \in Lexemes \cup {EofToken}
    /\ pc \in {"collect", "expr"} => pp_list \in Seq(Retagged)

TapeInv ==
    /\ Len(pp_list) > 1 /\ pp_list[Len(pp_list)].spec = "$"
    /\ \A k \in 1..(Len(pp_list) - 1) : pp_list[k] \in Retagged
    /\ element \in DOMAIN pp_list

StackInv ==
    /\ StackShape(stack)
    /\ \A k \in DOMAIN stack : StackSymbol(stack[k])
    /\ stack[Len(stack)].spec = "E" => input \notin {"#", "i", "("}
    /\ Len(stack) = 1 => element = 1

ParseInv == pc = "parse" => TapeInv /\ StackInv

Inv == TypeOK /\ CollectInv /\ ParseInv

LEMMA EofType == EofToken.type = "EOF"
BY DEF EofToken

LEMMA RetaggedSeq ==
    ASSUME NEW q \in Seq(Retagged)
    PROVE  q \in Seq(TokenSet) /\ \A k \in DOMAIN q : q[k] \in Retagged
<1>1. Retagged \subseteq TokenSet
  BY RetaggedFacts
<1> QED BY <1>1

LEMMA RecordSeq ==
    ASSUME NEW t \in Lexemes \cup {EofToken}
    PROVE  Record(t) \in Seq(Lexemes)
<1>1. CASE t = EofToken
  <2>1. t.type = "EOF"
    BY <1>1 DEF EofToken
  <2>2. Record(t) = <<>>
    BY <2>1 DEF Record
  <2> QED BY <2>2
<1>2. CASE t \in Lexemes
  BY <1>2, LexemeFacts DEF Record
<1> QED BY <1>1, <1>2

LEMMA InitInv == Init => Inv
<1> SUFFICES ASSUME Init PROVE Inv
  OBVIOUS
<1> USE DEF Init
<1>1. token \in Lexemes \cup {EofToken}
  BY DEF Delivered
<1>2. token \in TokenSet
  BY <1>1, LexemeFacts, SpecialTokens
<1>3. got \in Seq(Lexemes)
  BY <1>1, RecordSeq
<1>4. TypeOK
  BY <1>2, <1>3 DEF TypeOK, VarTypes
<1> QED BY <1>1, <1>4 DEF Inv, CollectInv, ParseInv

(* A shift or a reduction: the stack grows, the tape advances or not. *)
LEMMA StackStep ==
    ASSUME Inv, pc = "parse", pc' = pc, pp_list' = pp_list,
           UNCHANGED <<token, list, ret_code, exit_code, got>>,
           AST_list' \in Seq(TokenSet),
           stack' \in Seq(TokenSet), StackShape(stack'), Len(stack') > 1,
           \A k \in DOMAIN stack' : StackSymbol(stack'[k]),
           element' \in DOMAIN pp_list,
           stack'[Len(stack')].spec = "E" => pp_list[element'].spec \notin {"#", "i", "("}
    PROVE  Inv'
<1>1. TapeInv'
  BY DEF Inv, ParseInv, TapeInv
<1>2. StackInv'
  BY DEF StackInv, StackSymbol, Retagged, input
<1>3. stack' # <<>> /\ \A k \in DOMAIN stack' : stack'[k].spec \in StackSymbols
  BY DEF StackSymbol, StackShape
<1>4. element' \in Nat
  BY DEF Inv, TypeOK
<1>5. TypeOK'
  BY <1>3, <1>4 DEF Inv, TypeOK
<1> QED BY <1>1, <1>2, <1>5 DEF Inv, CollectInv, ParseInv

(* What is known when the table is looked up. *)
LEMMA ParsingFacts ==
    ASSUME Inv, pc = "parse"
    PROVE  /\ stack \in Seq(TokenSet) /\ StackShape(stack)
           /\ pp_list \in Seq(TokenSet) /\ element \in DOMAIN pp_list
           /\ AST_list \in Seq(TokenSet)
           /\ pp_list[element] \in TokenSet
           /\ \A k \in DOMAIN stack : StackSymbol(stack[k])
           /\ input # "$" => /\ element + 1 \in DOMAIN pp_list
                            /\ pp_list[element] \in Retagged
<1>1. /\ stack \in Seq(TokenSet) /\ StackShape(stack)
      /\ pp_list \in Seq(TokenSet) /\ element \in DOMAIN pp_list
      /\ AST_list \in Seq(TokenSet)
      /\ \A k \in DOMAIN stack : StackSymbol(stack[k])
  BY DEF Inv, TypeOK, ParseInv, TapeInv, StackInv
<1>2. ASSUME input # "$" PROVE element + 1 \in DOMAIN pp_list /\ pp_list[element] \in Retagged
  <2>1. element # Len(pp_list)
    BY <1>2 DEF Inv, ParseInv, TapeInv, input
  <2> QED BY <1>1, <2>1 DEF Inv, ParseInv, TapeInv
<1> QED BY <1>1, <1>2

LEMMA ShiftInv == ASSUME Inv, Shift PROVE Inv'
<1> DEFINE t == pp_list[element]
<1>1. pc = "parse" /\ stack_top_term(stack).spec = "(" /\ t.spec = ")"
  BY TableCells DEF Shift, Cell, Parsing, stack_n, input
<1>2. t \in TokenSet /\ t \in Retagged /\ element + 1 \in DOMAIN pp_list
  BY <1>1, ParsingFacts DEF input
<1>3. /\ stack' = Append(stack, t) /\ element' = element + 1
      /\ UNCHANGED <<pc, token, pp_list, list, AST_list, ret_code, exit_code, got>>
  BY DEF Shift, Advance
<1> HIDE DEF t
<1>4. /\ stack' \in Seq(TokenSet) /\ StackShape(stack')
      /\ Len(stack') = Len(stack) + 1 /\ stack'[Len(stack')] = t
      /\ \A k \in DOMAIN stack' : stack'[k] = t \/ \E j \in DOMAIN stack : stack'[k] = stack[j]
  BY <1>1, <1>2, <1>3, ParsingFacts, ShiftShape
<1>5. StackSymbol(t)
  BY <1>1, <1>2 DEF StackSymbol, StackSymbols, TableSymbols
<1>6. \A k \in DOMAIN stack' : StackSymbol(stack'[k])
  BY <1>1, <1>4, <1>5, ParsingFacts
<1>7. Len(stack') > 1 /\ AST_list' \in Seq(TokenSet)
  BY <1>1, <1>3, <1>4, ParsingFacts, TopTerm
<1> QED BY <1>1, <1>2, <1>3, <1>4, <1>6, <1>7, StackStep

LEMMA MarkAndShiftInv == ASSUME Inv, MarkAndShift PROVE Inv'
<1> DEFINE t == pp_list[element]
<1>1. /\ pc = "parse" /\ stack_top_term(stack).spec \in BinaryOps \cup {"#", "(", "$"}
      /\ t.spec \in BinaryOps \cup {"#", "i", "("}
  BY TableCells DEF MarkAndShift, Cell, Parsing, stack_n, input
<1>2. t.spec \notin {"$", "E", "MARK"}
  BY <1>1, Alphabet
<1>3. t \in TokenSet /\ t \in Retagged /\ element + 1 \in DOMAIN pp_list
  BY <1>1, <1>2, ParsingFacts DEF input
<1>4. /\ stack' = Append(stack_mark(stack), t) /\ element' = element + 1
      /\ UNCHANGED <<pc, token, pp_list, list, AST_list, ret_code, exit_code, got>>
  BY DEF MarkAndShift, Advance
<1>5. stack[Len(stack)].spec = "E" => t.spec \notin {"#", "i", "("}
  BY <1>1 DEF Inv, ParseInv, StackInv, input
<1> HIDE DEF t
<1>6. /\ stack' \in Seq(TokenSet) /\ StackShape(stack')
      /\ Len(stack') = Len(stack) + 2 /\ stack'[Len(stack')] = t
      /\ \A k \in DOMAIN stack' :
            stack'[k] \in {MarkToken, t} \/ \E j \in DOMAIN stack : stack'[k] = stack[j]
  BY <1>1, <1>3, <1>4, <1>5, ParsingFacts, MarkAndShiftShape
<1>7. StackSymbol(t) /\ StackSymbol(MarkToken)
  BY <1>1, <1>2, <1>3 DEF StackSymbol, StackSymbols, TableSymbols, MarkToken
<1>8. \A k \in DOMAIN stack' : StackSymbol(stack'[k])
  BY <1>1, <1>6, <1>7, ParsingFacts
<1>9. Len(stack') > 1 /\ AST_list' \in Seq(TokenSet)
  BY <1>1, <1>4, <1>6, ParsingFacts, TopTerm
<1> QED BY <1>1, <1>2, <1>3, <1>4, <1>6, <1>8, <1>9, StackStep

LEMMA PushInv ==
    ASSUME Inv, Cell(">"),
           NEW nont \in TokenSet, nont.spec = "E", nont.type \in ExprTypes,
           NEW postfix \in Seq(TokenSet), Push(nont, postfix)
    PROVE  Inv'
<1>1. /\ pc = "parse" /\ stack_top_term(stack).spec \in BinaryOps \cup {"#", "i", ")"}
      /\ input \in BinaryOps \cup {")", "$"}
  BY TableCells DEF Cell, Parsing, stack_n
<1>2. /\ stack' = Replaced(stack, nont) /\ AST_list' = AST_list \o postfix
      /\ UNCHANGED <<pc, token, pp_list, list, element, ret_code, exit_code, got>>
  BY DEF Push
<1>3. /\ stack' \in Seq(TokenSet) /\ StackShape(stack') /\ Len(stack') > 1
      /\ \A k \in DOMAIN stack' : stack'[k] = nont \/ \E j \in DOMAIN stack : stack'[k] = stack[j]
  BY <1>1, <1>2, ParsingFacts, ReducedShape
<1>4. StackSymbol(nont)
  BY DEF StackSymbol, StackSymbols
<1>5. \A k \in DOMAIN stack' : StackSymbol(stack'[k])
  BY <1>1, <1>3, <1>4, ParsingFacts
<1>6. pp_list[element'].spec \notin {"#", "i", "("} /\ element' \in DOMAIN pp_list
  BY <1>1, <1>2, ParsingFacts, Alphabet DEF input
<1>7. AST_list' \in Seq(TokenSet)
  BY <1>1, <1>2, ParsingFacts
<1> QED BY <1>1, <1>2, <1>3, <1>5, <1>6, <1>7, StackStep

(* The symbols of a right-hand side are tokens, and what StackSymbol says.   *)
LEMMA RhsSymbols ==
    ASSUME Inv, Cell(">"), NEW k \in 0..2
    PROVE  /\ Rhs(stack)[k] \in TokenSet
           /\ Rhs(stack)[k].spec # "EMPTY" => StackSymbol(Rhs(stack)[k])
<1>1. pc = "parse" /\ stack_top_term(stack).spec \in BinaryOps \cup {"#", "i", ")"}
  BY TableCells DEF Cell, Parsing, stack_n
<1>2. stack \in Seq(TokenSet) /\ StackShape(stack)
      /\ \A j \in DOMAIN stack : StackSymbol(stack[j])
  BY <1>1, ParsingFacts
<1>3. EmptyToken \in TokenSet /\ EmptyToken.spec = "EMPTY"
  BY SpecialTokens DEF EmptyToken
<1>4. Rhs(stack)[k] = EmptyToken \/ \E j \in DOMAIN stack : Rhs(stack)[k] = stack[j]
  BY <1>1, <1>2, RhsFacts
<1> QED BY <1>2, <1>3, <1>4

LEMMA ReduceOperandInv == ASSUME Inv, ReduceOperand PROVE Inv'
<1> DEFINE r == Rhs(stack)
<1>1. Cell(">") /\ r[2].spec = "i" /\ Push(NontOperand(r), <<r[2]>>)
  BY DEF ReduceOperand, IsOperand
<1>2. r[2] \in TokenSet /\ r[2] \in Retagged
  BY <1>1, RhsSymbols DEF StackSymbol
<1> HIDE DEF r
<1> QED BY <1>1, <1>2, NontOperandFacts, PushInv

LEMMA ReduceParensInv == ASSUME Inv, ReduceParens PROVE Inv'
<1> DEFINE r == Rhs(stack)
<1>1. Cell(">") /\ r[1].spec = "E" /\ Push(r[1], <<>>)
  BY DEF ReduceParens, IsParens
<1>2. r[1] \in TokenSet /\ r[1].type \in ExprTypes
  BY <1>1, RhsSymbols DEF StackSymbol
<1>3. <<>> \in Seq(TokenSet)
  OBVIOUS
<1> HIDE DEF r
<1> QED BY <1>1, <1>2, <1>3, PushInv

LEMMA ReduceLengthInv == ASSUME Inv, ReduceLength PROVE Inv'
<1> DEFINE r == Rhs(stack)
<1>1. Cell(">") /\ r[2].spec = "E" /\ Push(NontLength(r), <<r[1]>>)
  BY DEF ReduceLength, IsLength
<1>2. r[1] \in TokenSet /\ r[2] \in TokenSet
  BY <1>1, RhsSymbols
<1> HIDE DEF r
<1> QED BY <1>1, <1>2, NontLengthFacts, PushInv

LEMMA ReduceBinaryInv == ASSUME Inv, ReduceBinary PROVE Inv'
<1> DEFINE r == Rhs(stack)
<1>1. /\ Cell(">") /\ IsBinary(r) /\ NontBinary(r).type # "NONE"
      /\ Push(NontBinary(r), <<r[1]>>)
  BY DEF ReduceBinary
<1>2. r[1] \in TokenSet
  BY <1>1, RhsSymbols
<1> HIDE DEF r
<1>3. <<r[1]>> \in Seq(TokenSet)
  BY <1>2
<1>4. /\ NontBinary(r) \in TokenSet /\ NontBinary(r).spec = "E"
      /\ NontBinary(r).type \in ExprTypes
  BY <1>1, NontBinaryFacts
<1> QED BY <1>1, <1>3, <1>4, PushInv

(* error(code) only stops the program. *)
LEMMA ErrorInv ==
    ASSUME Inv, NEW code \in {2, 6, 9}, error(code)
    PROVE  Inv'
BY DEF Inv, error, TypeOK, Outcomes, CollectInv, ParseInv

(* An accepted expression is all there is on the stack. *)
LEMMA AcceptFacts ==
    ASSUME Inv, Cell("#")
    PROVE  Len(stack) = 2 /\ stack[2].spec = "E" /\ stack[2].type \in ExprTypes
<1>1. pc = "parse" /\ stack_top_term(stack).spec = "$" /\ input = "$"
  BY TableCells DEF Cell, Parsing, stack_n
<1>2. /\ stack \in Seq(TokenSet) /\ StackShape(stack)
      /\ \A k \in DOMAIN stack : StackSymbol(stack[k])
  BY <1>1, ParsingFacts
<1>3. TopTermAt(stack) = 1
  BY <1>1, <1>2, TopTerm, OneDollar DEF stack_top_term
<1>4. Len(stack) # 1
  <2>1. element = 1 => pp_list[element] \in Retagged
    BY <1>1 DEF Inv, ParseInv, TapeInv
  <2>2. element # 1
    BY <1>1, <2>1, RetaggedFacts DEF input
  <2> QED BY <1>1, <2>2 DEF Inv, ParseInv, StackInv
<1>5. Len(stack) = 2 /\ stack[2].spec = "E"
  <2>1. /\ Len(stack) \in Nat
        /\ 1 = IF stack[Len(stack)].spec = "E" THEN Len(stack) - 1 ELSE Len(stack)
    BY <1>2, <1>3, TopTerm
  <2>2. stack[Len(stack)].spec = "E"
    BY <1>4, <2>1
  <2>3. Len(stack) = 2
    BY <2>1, <2>2
  <2> QED BY <2>2, <2>3
<1> QED BY <1>2, <1>5 DEF StackSymbol

LEMMA AcceptInv == ASSUME Inv, Accept PROVE Inv'
<1>1. ret_code' \in ExprTypes
  BY AcceptFacts DEF Accept
<1> QED BY <1>1 DEF Inv, Accept, TypeOK, Outcomes, CollectInv, ParseInv, ExprTypes

LEMMA CollectTokenInv == ASSUME Inv, Collect PROVE Inv'
<1> DEFINE t == Retag(token)
<1>1. token \in Lexemes
  BY EofType DEF Collect, Inv, CollectInv
<1>2. t \in Retagged
  BY <1>1 DEF Retagged
<1>3. pp_list \in Seq(Retagged) /\ pp_list' = Append(pp_list, t)
  BY DEF Collect, Inv, CollectInv
<1>4. pp_list' \in Seq(Retagged)
  BY <1>2, <1>3
<1>5. pp_list' \in Seq(TokenSet)
  BY <1>4, RetaggedSeq
<1>6. PICK next \in Delivered(Len(got)) : token' = next /\ got' = got \o Record(next)
  BY DEF Collect
<1>7. next \in Lexemes \cup {EofToken} /\ token' \in TokenSet
  BY <1>6, LexemeFacts, SpecialTokens DEF Delivered
<1>8. got' \in Seq(Lexemes)
  BY <1>6, <1>7, RecordSeq DEF Inv, TypeOK
<1> QED BY <1>4, <1>5, <1>6, <1>7, <1>8 DEF Collect, Inv, TypeOK, CollectInv, ParseInv

LEMMA GiveBackInv == ASSUME Inv, GiveBack PROVE Inv'
<1>1. Retag(token) \in TokenSet
  <2>1. token \in Lexemes
    BY EofType DEF GiveBack, Inv, CollectInv
  <2> QED BY <2>1, RetaggedFacts DEF Retagged
<1>2. list' \in Seq(TokenSet)
  BY <1>1 DEF GiveBack
<1> QED BY <1>1, <1>2 DEF GiveBack, Inv, TypeOK, CollectInv, ParseInv

LEMMA GiveBackCallInv == ASSUME Inv, GiveBackCall PROVE Inv'
<1> DEFINE name == pp_list[Len(pp_list)]
<1>1. pp_list \in Seq(Retagged) /\ pp_list # <<>> /\ token \in TokenSet
  BY DEF GiveBackCall, BeginsCall, Inv, TypeOK, CollectInv
<1>2. name \in TokenSet
  BY <1>1, RetaggedSeq
<1>3. pp_list' \in Seq(Retagged)
  BY <1>1 DEF GiveBackCall
<1>4. pp_list' \in Seq(TokenSet)
  BY <1>3, RetaggedSeq
<1>5. list' = <<name, token>> /\ token' = name
  BY DEF GiveBackCall
<1> HIDE DEF name
<1>6. list' \in Seq(TokenSet) /\ token' \in TokenSet
  BY <1>1, <1>2, <1>5
<1> QED BY <1>3, <1>4, <1>6 DEF GiveBackCall, Inv, TypeOK, CollectInv, ParseInv

LEMMA BeginExpressionInv == ASSUME Inv, BeginExpression PROVE Inv'
<1> DEFINE dollar == [token EXCEPT !.spec = "$", !.attr = "$"]
           n == Len(pp_list)
<1>1. /\ pp_list \in Seq(Retagged) /\ pp_list # <<>>
      /\ pp_list' = Append(pp_list, dollar) /\ stack' = <<DollarToken>>
      /\ element' = 1 /\ token' = dollar /\ pc' = "parse"
  BY DEF BeginExpression, Inv, CollectInv
<1>2. dollar \in TokenSet /\ dollar.spec = "$"
  <2>1. "$" \in Attributes /\ "$" \in Specs
    BY AttributesAssumption DEF Specs, TableSymbols
  <2> QED BY <2>1 DEF Inv, TypeOK, TokenSet
<1>3. pp_list \in Seq(TokenSet) /\ \A k \in 1..n : pp_list[k] \in Retagged
  BY <1>1, RetaggedSeq
<1>4. n \in Nat \ {0}
  BY <1>1
<1> HIDE DEF dollar, n
<1>5. /\ pp_list' \in Seq(TokenSet) /\ Len(pp_list') = n + 1
      /\ pp_list'[n + 1] = dollar /\ \A k \in 1..n : pp_list'[k] = pp_list[k]
  BY <1>1, <1>2, <1>3 DEF n
<1>6. TapeInv'
  BY <1>1, <1>2, <1>3, <1>4, <1>5 DEF TapeInv
<1>7. DollarToken \in TokenSet /\ DollarToken.spec = "$"
  BY SpecialTokens DEF DollarToken
<1>8. /\ stack' \in Seq(TokenSet) /\ Len(stack') = 1 /\ stack'[1] = DollarToken
      /\ DOMAIN stack' = {1} /\ stack' # <<>>
  BY <1>1, <1>7
<1>9. StackShape(stack')
  BY <1>7, <1>8 DEF StackShape
<1>10. StackInv'
  <2>1. StackSymbol(DollarToken)
    BY <1>7 DEF StackSymbol, StackSymbols, TableSymbols
  <2>2. \A k \in DOMAIN stack' : StackSymbol(stack'[k])
    BY <1>8, <2>1
  <2>3. stack'[Len(stack')].spec # "E"
    BY <1>7, <1>8
  <2> QED BY <1>1, <1>9, <2>2, <2>3 DEF StackInv, StackSymbol, Retagged
<1>11. TypeOK'
  <2>1. \A i \in DOMAIN stack' : stack'[i].spec \in StackSymbols
    BY <1>7, <1>8 DEF StackSymbols, TableSymbols
  <2>2. element' \in DOMAIN pp_list'
    BY <1>6 DEF TapeInv
  <2> QED BY <1>1, <1>2, <1>5, <1>8, <2>1, <2>2 DEF BeginExpression, Inv, TypeOK
<1> QED BY <1>1, <1>6, <1>10, <1>11 DEF Inv, CollectInv, ParseInv

LEMMA NextInv == ASSUME Inv, [Next]_vars PROVE Inv'
<1>1. CASE UNCHANGED vars
  BY <1>1 DEF vars, Inv, TypeOK, CollectInv, ParseInv, TapeInv, StackInv, input
<1>2. CASE Collect
  BY <1>2, CollectTokenInv
<1>3. CASE GiveBack
  BY <1>3, GiveBackInv
<1>4. CASE GiveBackCall
  BY <1>4, GiveBackCallInv
<1>5. CASE EndOfFile
  BY <1>5 DEF EndOfFile, Inv, TypeOK, CollectInv, ParseInv
<1>6. CASE ReturnEmpty
  BY <1>6 DEF ReturnEmpty, Inv, TypeOK, CollectInv, ParseInv, Outcomes
<1>7. CASE BeginExpression
  BY <1>7, BeginExpressionInv
<1>8. CASE Shift
  BY <1>8, ShiftInv
<1>9. CASE MarkAndShift
  BY <1>9, MarkAndShiftInv
<1>10. CASE ReduceOperand \/ ReduceParens \/ ReduceLength \/ ReduceBinary
  BY <1>10, ReduceOperandInv, ReduceParensInv, ReduceLengthInv, ReduceBinaryInv
<1>11. CASE TypeError \/ ZeroDivision \/ NoRule \/ Reject
  BY <1>11, ErrorInv DEF TypeError, ZeroDivision, NoRule, Reject
<1>12. CASE Accept
  BY <1>12, AcceptInv
<1>13. CASE OffTable
  <2>1. CASE error(2)
    BY <2>1, ErrorInv
  <2>2. CASE pc' = "undefined" /\ UNCHANGED <<token, pp_list, list, stack, element,
                                              AST_list, ret_code, exit_code, got>>
    BY <2>2 DEF Inv, TypeOK, CollectInv, ParseInv, Outcomes
  <2> QED BY <1>13, <2>1, <2>2 DEF OffTable
<1>14. CASE Halted
  BY <1>1, <1>14 DEF Halted
<1> QED BY <1>1, <1>2, <1>3, <1>4, <1>5, <1>6, <1>7, <1>8, <1>9, <1>10, <1>11, <1>12,
           <1>13, <1>14 DEF Next

LEMMA SpecInv == Spec => []Inv
BY InitInv, NextInv, PTL DEF Spec

(* Every variable keeps its type, and the automaton never runs off its tape  *)
(* or empties its stack, for every set of lexemes and every tape.            *)
THEOREM TypeCorrect == Spec => []TypeOK
<1>1. Inv => TypeOK
  BY DEF Inv
<1> QED BY <1>1, SpecInv, PTL

(* reduce never pops more than three symbols and always finds its mark.      *)
THEOREM HandleAlwaysFits == Spec => []HandleFits
<1>1. Inv => HandleFits
  <2> SUFFICES ASSUME Inv, Cell(">") PROVE \E m \in DOMAIN stack :
                  /\ stack[m].spec = "MARK"
                  /\ \A i \in DOMAIN stack : i > m => stack[i].spec # "MARK"
                  /\ Len(stack) \in (m + 1)..(m + 3)
    BY DEF HandleFits
  <2>1. pc = "parse" /\ stack_top_term(stack).spec \in BinaryOps \cup {"#", "i", ")"}
    BY TableCells DEF Cell, Parsing, stack_n
  <2>2. stack \in Seq(TokenSet) /\ StackShape(stack)
    BY <2>1, ParsingFacts
  <2>3. MarkAt(stack) \in DOMAIN stack
    BY <2>1, <2>2, Marked, TopTerm
  <2> QED BY <2>1, <2>2, <2>3, Marked
<1> QED BY <1>1, SpecInv, PTL

(* The table accepts only one complete expression, and its type is known.    *)
THEOREM AcceptsOnlyOneExpression == Spec => []AcceptsOneExpression
<1>1. Inv => AcceptsOneExpression
  BY AcceptFacts DEF AcceptsOneExpression, ExprTypes
<1> QED BY <1>1, SpecInv, PTL

-----------------------------------------------------------------------------
(* Conservation of the tokens.                                             *)

AllRetagged(g) == [i \in DOMAIN g |-> Retag(g[i])]

LEMMA RetagExtends ==
    ASSUME NEW g \in Seq(Lexemes), NEW t \in Lexemes
    PROVE  /\ AllRetagged(g) \in Seq(Retagged)
           /\ AllRetagged(g \o <<t>>) = AllRetagged(g) \o <<Retag(t)>>
<1> DEFINE n == Len(g)
           gt == g \o <<t>>
<1>1. n \in Nat /\ DOMAIN g = 1..n /\ \A i \in 1..n : g[i] \in Lexemes
  OBVIOUS
<1>2. /\ gt \in Seq(Lexemes) /\ Len(gt) = n + 1 /\ DOMAIN gt = 1..(n + 1)
      /\ gt[n + 1] = t /\ \A i \in 1..n : gt[i] = g[i]
  OBVIOUS
<1> HIDE DEF n, gt
<1>3. AllRetagged(g) \in Seq(Retagged) /\ Len(AllRetagged(g)) = n
  BY <1>1 DEF AllRetagged, Retagged
<1>4. AllRetagged(gt) \in Seq(Retagged) /\ Len(AllRetagged(gt)) = n + 1
  <2>1. \A i \in 1..(n + 1) : gt[i] \in Lexemes
    BY <1>1, <1>2
  <2> QED BY <1>1, <1>2, <2>1 DEF AllRetagged, Retagged
<1>5. <<Retag(t)>> \in Seq(Retagged) /\ Len(<<Retag(t)>>) = 1
  BY DEF Retagged
<1> DEFINE right == AllRetagged(g) \o <<Retag(t)>>
<1>6. right \in Seq(Retagged) /\ Len(right) = n + 1
  BY <1>1, <1>3, <1>5
<1>7. \A i \in 1..n : right[i] = Retag(g[i])
  BY <1>1, <1>3, <1>5 DEF AllRetagged
<1>8. right[n + 1] = Retag(t)
  BY <1>1, <1>3, <1>5
<1> HIDE DEF right
<1>9. \A i \in 1..(n + 1) : AllRetagged(gt)[i] = right[i]
  BY <1>1, <1>2, <1>7, <1>8 DEF AllRetagged
<1>10. AllRetagged(gt) = right
  BY <1>4, <1>6, <1>9, SeqEqual
<1> QED BY <1>3, <1>10 DEF gt, right

LEMMA Pairs ==
    ASSUME NEW a \in Retagged, NEW b \in Retagged
    PROVE  <<a>> \o <<b>> = <<a, b>>
<1>1. /\ <<a>> \in Seq(Retagged) /\ Len(<<a>>) = 1
      /\ <<b>> \in Seq(Retagged) /\ Len(<<b>>) = 1
  OBVIOUS
<1> DEFINE left == <<a>> \o <<b>>
           right == <<a, b>>
<1>2. left \in Seq(Retagged) /\ Len(left) = 2 /\ left[1] = a /\ left[2] = b
  BY <1>1
<1>3. right \in Seq(Retagged) /\ Len(right) = 2 /\ right[1] = a /\ right[2] = b
  OBVIOUS
<1> HIDE DEF left, right
<1>4. \A i \in 1..2 : left[i] = right[i]
  BY <1>2, <1>3
<1>5. left = right
  BY <1>2, <1>3, <1>4, SeqEqual
<1> QED BY <1>5 DEF left, right

Conserved ==
    /\ TokensConserved
    /\ pc = "collect" => list = <<>>

LEMMA TakenNow == Taken = AllRetagged(got)
BY DEF Taken, AllRetagged

LEMMA EofRetag == Retag(EofToken) = EofToken /\ Record(EofToken) = <<>>
<1>1. EofToken.spec = "others"
  BY DEF EofToken
<1> QED BY <1>1, EofType DEF Retag, Record

LEMMA RetagType ==
    ASSUME NEW t \in Lexemes
    PROVE  Record(Retag(t)) = <<Retag(t)>>
<1>1. Retag(t).type # "EOF"
  BY LexemeFacts DEF Retag, TokenSet
<1> QED BY <1>1 DEF Record

(* The next token of the scanner is recorded as it will be looked at. *)
LEMMA NextTaken ==
    ASSUME NEW g \in Seq(Lexemes), NEW t \in Lexemes \cup {EofToken}
    PROVE  AllRetagged(g \o Record(t)) = AllRetagged(g) \o Record(Retag(t))
<1>1. CASE t \in Lexemes
  <2>1. Record(t) = <<t>>
    BY <1>1, LexemeFacts DEF Record
  <2> QED BY <1>1, <2>1, RetagExtends, RetagType
<1>2. CASE t = EofToken
  <2>1. g \o <<>> = g
    BY ConcatEmptySeq
  <2>2. AllRetagged(g) \o <<>> = AllRetagged(g)
    <3>1. AllRetagged(g) \in Seq(Retagged)
      BY DEF AllRetagged, Retagged
    <3> QED BY <3>1, ConcatEmptySeq
  <2> QED BY <1>2, <2>1, <2>2, EofRetag
<1> QED BY <1>1, <1>2

(* A tape without "$" is its own Tape. *)
LEMMA TapeOpen ==
    ASSUME pp_list \in Seq(Retagged)
    PROVE  Tape = pp_list
<1>1. CASE pp_list # <<>>
  <2>1. pp_list[Len(pp_list)] \in Retagged
    BY <1>1
  <2> QED BY <2>1, RetaggedFacts DEF Tape
<1>2. CASE pp_list = <<>>
  BY <1>2 DEF Tape
<1> QED BY <1>1, <1>2

LEMMA InitConserved == Init => Conserved
<1> SUFFICES ASSUME Init PROVE Conserved
  OBVIOUS
<1>1. token \in Lexemes \cup {EofToken} /\ got = Record(token) /\ pc = "collect"
      /\ pp_list = <<>> /\ list = <<>>
  BY DEF Init, Delivered
<1>2. AllRetagged(<<>> \o Record(token)) = AllRetagged(<<>>) \o Record(Retag(token))
  <2>1. <<>> \in Seq(Lexemes)
    OBVIOUS
  <2> QED BY <1>1, <2>1, NextTaken
<1>3. <<>> \o Record(token) = Record(token)
  BY <1>1, RecordSeq, ConcatEmptySeq
<1>4. AllRetagged(<<>>) = <<>>
  BY DEF AllRetagged
<1> QED BY <1>1, <1>2, <1>3, <1>4, TakenNow DEF Conserved, TokensConserved

LEMMA CollectConserved == ASSUME Inv, Conserved, Collect PROVE Conserved'
<1> DEFINE t == Retag(token)
<1>1. token \in Lexemes /\ got \in Seq(Lexemes) /\ pp_list \in Seq(Retagged)
  BY EofType DEF Collect, Inv, TypeOK, CollectInv
<1>2. t \in Retagged /\ Record(t) = <<t>>
  BY <1>1, RetagType DEF Retagged
<1>3. /\ pc = "collect" /\ pc' = pc /\ list' = list
      /\ pp_list' = Append(pp_list, t)
  BY DEF Collect
<1>4. PICK next \in Lexemes \cup {EofToken} :
        token' = next /\ got' = got \o Record(next)
  BY DEF Collect, Delivered
<1> HIDE DEF t
<1>5. AllRetagged(got) = pp_list \o <<t>>
  BY <1>2, <1>3, TakenNow DEF Conserved, TokensConserved, t
<1>6. pp_list' = pp_list \o <<t>>
  BY <1>1, <1>2, <1>3, AppendIsConcat
<1>7. AllRetagged(got') = pp_list' \o Record(Retag(token'))
  BY <1>1, <1>4, <1>5, <1>6, NextTaken
<1>8. Taken' = AllRetagged(got')
  BY DEF Taken, AllRetagged
<1> QED BY <1>3, <1>7, <1>8 DEF Conserved, TokensConserved

LEMMA GiveBackConserved == ASSUME Inv, Conserved, GiveBack PROVE Conserved'
<1> DEFINE t == Retag(token)
<1>1. token \in Lexemes /\ pp_list' = pp_list /\ pp_list' \in Seq(Retagged)
  BY EofType DEF GiveBack, Inv, CollectInv
<1>2. Record(t) = <<t>> /\ list' = <<t>> /\ pc = "collect" /\ pc' = "expr"
  BY <1>1, RetagType DEF GiveBack
<1>3. Taken' = Taken /\ Tape' = Tape
  BY <1>1 DEF GiveBack, Taken, Tape
<1>4. Tape = pp_list
  BY <1>1, TapeOpen
<1> QED BY <1>1, <1>2, <1>3, <1>4 DEF Conserved, TokensConserved

LEMMA GiveBackCallConserved == ASSUME Inv, Conserved, GiveBackCall PROVE Conserved'
<1> DEFINE n == Len(pp_list)
           front == SubSeq(pp_list, 1, n - 1)
           name == pp_list[n]
<1>1. /\ token \in Lexemes /\ token.spec = "(" /\ pp_list \in Seq(Retagged) /\ pp_list # <<>>
      /\ pp_list' = front /\ list' = <<name, token>> /\ got' = got
      /\ pc = "collect" /\ pc' = "expr"
  BY EofType DEF GiveBackCall, BeginsCall, Inv, CollectInv
<1>2. Retag(token) = token /\ token \in Retagged /\ Record(token) = <<token>>
  <2>1. Retag(token) = token
    BY <1>1 DEF Retag
  <2> QED BY <1>1, <2>1, RetagType DEF Retagged
<1>3. Taken' = pp_list \o <<token>>
  <2>1. Taken' = Taken
    BY <1>1 DEF Taken
  <2> QED BY <1>1, <1>2, <2>1 DEF Conserved, TokensConserved
<1>4. n \in Nat \ {0} /\ name \in Retagged /\ front \in Seq(Retagged)
  BY <1>1
<1>5. pp_list = front \o <<name>>
  <2>1. pp_list = SubSeq(pp_list, 1, n)
    BY <1>1, SubSeqFull
  <2>2. 1 \in 1..n /\ n \in 1..n
    BY <1>4
  <2>3. SubSeq(pp_list, 1, n) = front \o <<name>>
    BY <1>1, <2>2, SubSeqRecursiveSecond
  <2> QED BY <2>1, <2>3
<1> HIDE DEF n, front, name
<1>6. (front \o <<name>>) \o <<token>> = front \o (<<name>> \o <<token>>)
  <2>1. <<name>> \in Seq(Retagged) /\ <<token>> \in Seq(Retagged)
    BY <1>2, <1>4
  <2> QED BY <1>4, <2>1, ConcatAssociative
<1>7. <<name>> \o <<token>> = <<name, token>>
  BY <1>2, <1>4, Pairs
<1>8. Tape' = pp_list'
  <2>1. pp_list' \in Seq(Retagged)
    BY <1>1, <1>4
  <2>2. pp_list' # <<>> => pp_list'[Len(pp_list')] \in Retagged
    BY <2>1
  <2> QED BY <2>2, RetaggedFacts DEF Tape
<1> QED BY <1>1, <1>3, <1>5, <1>6, <1>7, <1>8 DEF Conserved, TokensConserved

LEMMA BeginExpressionConserved == ASSUME Inv, Conserved, BeginExpression PROVE Conserved'
<1> DEFINE dollar == [token EXCEPT !.spec = "$", !.attr = "$"]
           n == Len(pp_list)
<1>1. /\ pp_list \in Seq(Retagged) /\ pp_list' = Append(pp_list, dollar)
      /\ list' = list /\ got' = got /\ pc = "expr" /\ pc' = "parse"
  BY DEF BeginExpression, Inv, CollectInv
<1>2. pp_list \in Seq(TokenSet) /\ dollar \in TokenSet /\ dollar.spec = "$"
  <2>1. "$" \in Attributes /\ "$" \in Specs
    BY AttributesAssumption DEF Specs, TableSymbols
  <2> QED BY <1>1, <2>1, RetaggedSeq DEF Inv, TypeOK, TokenSet
<1> HIDE DEF dollar
<1>3. pp_list' # <<>> /\ Len(pp_list') = n + 1 /\ pp_list'[n + 1] = dollar /\ n \in Nat
  BY <1>1, <1>2
<1>4. Tape' = SubSeq(pp_list', 1, n)
  BY <1>2, <1>3 DEF Tape
<1>5. SubSeq(pp_list', 1, n) = pp_list
  <2>1. /\ SubSeq(pp_list', 1, n) \in Seq(TokenSet) /\ Len(SubSeq(pp_list', 1, n)) = n
        /\ \A i \in 1..n : SubSeq(pp_list', 1, n)[i] = pp_list[i]
    BY <1>1, <1>2, <1>3
  <2> QED BY <1>2, <2>1, SeqEqual
<1>6. Tape = pp_list
  BY <1>1, TapeOpen
<1>7. Taken' = Taken
  BY <1>1 DEF Taken
<1> QED BY <1>1, <1>4, <1>5, <1>6, <1>7 DEF Conserved, TokensConserved

LEMMA NextConserved == ASSUME Inv, Conserved, [Next]_vars PROVE Conserved'
<1> DEFINE Keeps == pp_list' = pp_list /\ list' = list /\ got' = got
<1>1. ASSUME Keeps PROVE Taken' = Taken /\ Tape' = Tape
  BY <1>1 DEF Taken, Tape
<1>2. CASE UNCHANGED vars
  BY <1>1, <1>2 DEF vars, Conserved, TokensConserved
<1>3. CASE Collect
  BY <1>3, CollectConserved
<1>4. CASE GiveBack
  BY <1>4, GiveBackConserved
<1>5. CASE GiveBackCall
  BY <1>5, GiveBackCallConserved
<1>6. CASE EndOfFile
  <2>1. /\ pc = "collect" /\ pc' = "expr" /\ Keeps /\ pp_list \in Seq(Retagged)
        /\ list = <<>> /\ token = EofToken
    BY <1>6, LexemeFacts DEF EndOfFile, Inv, CollectInv, Conserved
  <2>2. Taken = pp_list \o list
    BY <2>1, EofRetag DEF Conserved, TokensConserved
  <2> QED BY <1>1, <2>1, <2>2, TapeOpen DEF Conserved, TokensConserved
<1>7. CASE ReturnEmpty
  BY <1>7 DEF ReturnEmpty, Conserved, TokensConserved
<1>8. CASE BeginExpression
  BY <1>8, BeginExpressionConserved
<1>9. CASE Shift \/ MarkAndShift \/ ReduceOperand \/ ReduceParens \/ ReduceLength
           \/ ReduceBinary
  <2>1. pc = "parse" /\ pc' = "parse" /\ Keeps
    BY <1>9 DEF Shift, MarkAndShift, ReduceOperand, ReduceParens, ReduceLength,
       ReduceBinary, Cell, Parsing, Advance, Push
  <2> QED BY <1>1, <2>1 DEF Conserved, TokensConserved
<1>10. CASE TypeError \/ ZeroDivision \/ NoRule \/ Reject \/ OffTable
  <2>1. pc = "parse" /\ pc' \in {"exit", "undefined"} /\ Keeps
    BY <1>10 DEF TypeError, ZeroDivision, NoRule, Reject, OffTable, error, Cell, Parsing
  <2> QED BY <1>1, <2>1 DEF Conserved, TokensConserved
<1>11. CASE Accept
  BY <1>11 DEF Accept, Conserved, TokensConserved
<1>12. CASE Halted
  BY <1>2, <1>12 DEF Halted
<1> QED BY <1>2, <1>3, <1>4, <1>5, <1>6, <1>7, <1>8, <1>9, <1>10, <1>11, <1>12 DEF Next

(* No token is lost, duplicated or handed back out of order, whatever the    *)
(* lexemes, the length of the input and the place where the tape ends.       *)
THEOREM TokensAreConserved == Spec => []TokensConserved
<1>1. Init => Inv /\ Conserved
  BY InitInv, InitConserved
<1>2. Inv /\ Conserved /\ [Next]_vars => (Inv /\ Conserved)'
  BY NextInv, NextConserved
<1>3. Conserved => TokensConserved
  BY DEF Conserved
<1> QED BY <1>1, <1>2, <1>3, PTL DEF Spec
=============================================================================

------------------------- MODULE ExprReference_proofs -------------------------
(***************************************************************************)
(* Facts about the reference definitions of expressions, for sequences of  *)
(* any length: that the recursive function Reading exists and satisfies    *)
(* its equation, how a phrase is read from its parts, and what every       *)
(* phrase looks like.                                                      *)
(***************************************************************************)
EXTENDS ExprReference, NaturalFacts, FiniteSetTheorems, SequenceTheorems

Phrases == Rules \X Seq(TokenSet)

Of(rule, s) == Reading[<<rule, s>>]

(* A rule reads shorter phrases, or the same one with a rule of lower rank. *)
Rank(rule) ==
    CASE rule = "primary" -> 0 [] rule = "concatenation" -> 1 [] rule = "operation" -> 2 [] OTHER -> 3

Level(x) == 4 * Len(x[2]) + Rank(x[1])

LEMMA Ranks ==
    /\ Rank("primary") = 0 /\ Rank("concatenation") = 1 /\ Rank("operation") = 2 /\ Rank("expression") = 3
    /\ \A r \in Rules : Rank(r) \in 0..3
BY DEF Rank, Rules

LEMMA Levels ==
    /\ \A x \in Phrases : Level(x) \in Nat /\ x = <<x[1], x[2]>> /\ x[1] \in Rules /\ x[2] \in Seq(TokenSet)
    /\ \A r \in Rules, s \in Seq(TokenSet) :
          <<r, s>> \in Phrases /\ Len(s) \in Nat /\ Level(<<r, s>>) = 4 * Len(s) + Rank(r)
<1>1. \A r \in Rules, s \in Seq(TokenSet) :
          <<r, s>> \in Phrases /\ Len(s) \in Nat /\ Level(<<r, s>>) = 4 * Len(s) + Rank(r)
  BY DEF Phrases, Level
<1>2. ASSUME NEW x \in Phrases
      PROVE  x = <<x[1], x[2]>> /\ x[1] \in Rules /\ x[2] \in Seq(TokenSet)
  BY DEF Phrases
<1>3. ASSUME NEW x \in Phrases PROVE Level(x) \in Nat
  <2>1. Len(x[2]) \in Nat /\ Rank(x[1]) \in 0..3
    BY <1>2, Ranks
  <2> HIDE DEF Phrases
  <2> QED BY <2>1 DEF Level
<1> QED BY <1>1, <1>2, <1>3

(* The parts of a sequence are shorter. *)
LEMMA PartLengths ==
    ASSUME NEW s \in Seq(TokenSet), NEW k \in 1..Len(s)
    PROVE  /\ Before(s, k) \in Seq(TokenSet) /\ Len(Before(s, k)) = k - 1
           /\ After(s, k) \in Seq(TokenSet) /\ Len(After(s, k)) = Len(s) - k
           /\ \A i \in 1..(k - 1) : Before(s, k)[i] = s[i]
           /\ \A i \in 1..(Len(s) - k) : After(s, k)[i] = s[k + i]
<1>0. Len(s) \in Nat /\ \A i \in 1..Len(s) : s[i] \in TokenSet
  OBVIOUS
<1>1. \A i \in 1..(k - 1) : s[i] \in TokenSet
  BY <1>0
<1>2. \A i \in (k + 1)..Len(s) : s[i] \in TokenSet
  BY <1>0
<1>3. /\ SubSeq(s, 1, k - 1) \in Seq(TokenSet) /\ Len(SubSeq(s, 1, k - 1)) = k - 1
      /\ \A i \in 1..(k - 1) : SubSeq(s, 1, k - 1)[i] = s[i]
  BY <1>0, <1>1, SubSeqProperties
<1>4. /\ SubSeq(s, k + 1, Len(s)) \in Seq(TokenSet) /\ Len(SubSeq(s, k + 1, Len(s))) = Len(s) - k
      /\ \A i \in 1..(Len(s) - k) : SubSeq(s, k + 1, Len(s))[i] = s[k + i]
  BY <1>0, <1>2, SubSeqProperties
<1> QED BY <1>3, <1>4 DEF Before, After

(* The tokens between two parentheses. *)
Inner(s) == SubSeq(s, 2, Len(s) - 1)

LEMMA InnerLength ==
    ASSUME NEW s \in Seq(TokenSet), Len(s) > 1
    PROVE  /\ Inner(s) \in Seq(TokenSet) /\ Len(Inner(s)) = Len(s) - 2
           /\ \A i \in 1..(Len(s) - 2) : Inner(s)[i] = s[i + 1]
<1>0. Len(s) \in Nat /\ \A i \in 1..Len(s) : s[i] \in TokenSet
  OBVIOUS
<1>1. \A i \in 2..(Len(s) - 1) : s[i] \in TokenSet
  BY <1>0
<1>2. PICK m \in Int, n \in Int : m = 2 /\ n = Len(s) - 1
  BY <1>0
<1>3. \A i \in m..n : s[i] \in TokenSet
  BY <1>1, <1>2
<1>4. /\ SubSeq(s, m, n) \in Seq(TokenSet) /\ Len(SubSeq(s, m, n)) = IF m <= n THEN n - m + 1 ELSE 0
      /\ \A i \in 1..(n - m + 1) : SubSeq(s, m, n)[i] = s[m + i - 1]
  BY <1>3, SubSeqProperties
<1>5. Inner(s) = SubSeq(s, m, n)
  BY <1>2 DEF Inner
<1>6. Inner(s) \in Seq(TokenSet) /\ Len(Inner(s)) = Len(s) - 2
  BY <1>0, <1>2, <1>4, <1>5
<1>7. ASSUME NEW i \in 1..(Len(s) - 2) PROVE Inner(s)[i] = s[i + 1]
  <2>1. i \in 1..(n - m + 1) /\ m + i - 1 = i + 1
    BY <1>0, <1>2
  <2> QED BY <1>4, <1>5, <2>1
<1> QED BY <1>6, <1>7

-----------------------------------------------------------------------------
(* Least and greatest positions.                                            *)

LEMMA MinIs ==
    ASSUME NEW S \in SUBSET Nat, S # {}
    PROVE  Min(S) \in S /\ \A j \in S : Min(S) <= j
<1>1. PICK m \in S : \A j \in S : m <= j
  BY Least
<1>2. \E i \in S : \A j \in S : i <= j
  BY <1>1
<1> QED BY <1>2 DEF Min

LEMMA MaxIs ==
    ASSUME NEW n \in Nat, NEW S \in SUBSET (0..n), S # {}
    PROVE  Max(S) \in S /\ \A j \in S : Max(S) >= j
<1> DEFINE T == {n - i : i \in S}
<1>0. S \subseteq Int /\ \A i \in S : n - i \in Nat
  OBVIOUS
<1>1. T \in SUBSET Nat /\ T # {}
  BY <1>0
<1>2. PICK m \in T : \A j \in T : m <= j
  BY <1>1, Least
<1>3. PICK i \in S : m = n - i
  OBVIOUS
<1>4. \A j \in S : n - j \in T
  OBVIOUS
<1>5. \A j \in S : m <= n - j
  BY <1>2, <1>4
<1>6. \A j \in S : i >= j
  BY <1>0, <1>3, <1>5
<1>7. \E k \in S : \A j \in S : k >= j
  BY <1>6
<1> QED BY <1>7 DEF Max

LEMMA MaxEquals ==
    ASSUME NEW S \in SUBSET Int, NEW k \in S, \A j \in S : j <= k
    PROVE  Max(S) = k
<1>1. \E i \in S : \A j \in S : i >= j
  OBVIOUS
<1>2. Max(S) \in S /\ \A j \in S : Max(S) >= j
  BY <1>1 DEF Max
<1> DEFINE m == Max(S)
<1>3. m \in S /\ m >= k /\ m <= k
  BY <1>2
<1> HIDE DEF m
<1>4. m = k
  BY <1>3
<1> QED BY <1>4 DEF m

LEMMA MinEquals ==
    ASSUME NEW S \in SUBSET Int, NEW k \in S, \A j \in S : k <= j
    PROVE  Min(S) = k
<1>1. \E i \in S : \A j \in S : i <= j
  OBVIOUS
<1>2. Min(S) \in S /\ \A j \in S : Min(S) <= j
  BY <1>1 DEF Min
<1> DEFINE m == Min(S)
<1>3. m \in S /\ m >= k /\ m <= k
  BY <1>2
<1> HIDE DEF m
<1>4. m = k
  BY <1>3
<1> QED BY <1>4 DEF m
-----------------------------------------------------------------------------
(* The rules one by one.                                                    *)

Lowest(s) ==
    IF TopLevel(s, RelOps) # {} THEN RelOps ELSE IF TopLevel(s, AddOps) # {} THEN AddOps ELSE MulOps

(* Where a concatenation and an operation are split. *)
Dots(s) == TopLevel(s, {".."})
FirstDots(s) == Min(Dots(s))
Splits(s) == TopLevel(s, Lowest(s))
LastSplit(s) == Max(Splits(s))

LEMMA ReadPrimary ==
    ASSUME NEW f, NEW s
    PROVE  ReadBy(f, "primary", s) =
             IF Len(s) = 1 /\ s[1].spec = "i" THEN s
             ELSE IF Len(s) > 2 /\ s[1].spec = "(" /\ s[Len(s)].spec = ")"
             THEN f[<<"expression", Inner(s)>>] ELSE NoParse
BY DEF ReadBy, Inner

LEMMA ReadConcatenation ==
    ASSUME NEW f, NEW s
    PROVE  ReadBy(f, "concatenation", s) =
             IF Dots(s) = {} THEN f[<<"primary", s>>]
             ELSE Joined(f[<<"primary", Before(s, FirstDots(s))>>],
                         f[<<"concatenation", After(s, FirstDots(s))>>], s[FirstDots(s)])
BY DEF ReadBy, Dots, FirstDots

LEMMA ReadOperation ==
    ASSUME NEW f, NEW s
    PROVE  ReadBy(f, "operation", s) =
             IF Splits(s) # {}
             THEN IF Dots(Before(s, LastSplit(s))) # {} THEN NoParse
                  ELSE Joined(f[<<"operation", Before(s, LastSplit(s))>>],
                              f[<<"operation", After(s, LastSplit(s))>>], s[LastSplit(s)])
             ELSE IF s # <<>> /\ s[1].spec = "#"
             THEN Joined(<<>>, f[<<"concatenation", After(s, 1)>>], s[1])
             ELSE f[<<"primary", s>>]
<1> DEFINE classes == {c \in {RelOps, AddOps, MulOps} : TopLevel(s, c) # {}}
           lowest == IF RelOps \in classes THEN RelOps ELSE IF AddOps \in classes THEN AddOps ELSE MulOps
<1>1. lowest = Lowest(s)
  BY DEF Lowest
<1>2. classes # {} <=> Splits(s) # {}
  <2>1. classes # {} <=> TopLevel(s, RelOps) # {} \/ TopLevel(s, AddOps) # {} \/ TopLevel(s, MulOps) # {}
    OBVIOUS
  <2> QED BY <2>1 DEF Splits, Lowest
<1> DEFINE k == Max(TopLevel(s, lowest))
<1>3. k = LastSplit(s)
  BY <1>1 DEF LastSplit, Splits
<1>4. ReadBy(f, "operation", s) =
             IF classes # {}
             THEN IF TopLevel(Before(s, k), {".."}) # {} THEN NoParse
                  ELSE Joined(f[<<"operation", Before(s, k)>>], f[<<"operation", After(s, k)>>], s[k])
             ELSE IF s # <<>> /\ s[1].spec = "#"
             THEN Joined(<<>>, f[<<"concatenation", After(s, 1)>>], s[1])
             ELSE f[<<"primary", s>>]
  BY DEF ReadBy
<1> HIDE DEF classes, lowest, k
<1> QED BY <1>2, <1>3, <1>4 DEF Dots

LEMMA ReadExpression ==
    ASSUME NEW f, NEW s
    PROVE  ReadBy(f, "expression", s) =
             IF f[<<"concatenation", s>>] # NoParse THEN f[<<"concatenation", s>>] ELSE f[<<"operation", s>>]
BY DEF ReadBy

(* Where a phrase is split lies inside it. *)
LEMMA SplitPlaces ==
    ASSUME NEW s \in Seq(TokenSet)
    PROVE  /\ Dots(s) # {} => FirstDots(s) \in Dots(s) /\ FirstDots(s) \in 2..(Len(s) - 1)
           /\ Splits(s) # {} => LastSplit(s) \in Splits(s) /\ LastSplit(s) \in 2..(Len(s) - 1)
           /\ \A j \in Dots(s) : FirstDots(s) <= j
           /\ \A j \in Splits(s) : LastSplit(s) >= j
<1>0. Len(s) \in Nat
  OBVIOUS
<1>1. \A ops : TopLevel(s, ops) \subseteq 2..(Len(s) - 1)
  BY DEF TopLevel
<1>2. Dots(s) \subseteq 2..(Len(s) - 1) /\ Splits(s) \subseteq 2..(Len(s) - 1)
  BY <1>1 DEF Dots, Splits
<1>3. Dots(s) \in SUBSET Nat /\ Splits(s) \in SUBSET (0..Len(s))
  BY <1>0, <1>2
<1>4. Dots(s) # {} => FirstDots(s) \in Dots(s) /\ \A j \in Dots(s) : FirstDots(s) <= j
  BY <1>3, MinIs DEF FirstDots
<1>5. Splits(s) # {} => LastSplit(s) \in Splits(s) /\ \A j \in Splits(s) : LastSplit(s) >= j
  BY <1>0, <1>3, MaxIs DEF LastSplit
<1> QED BY <1>2, <1>4, <1>5

-----------------------------------------------------------------------------
(* Reading exists.                                                          *)

LEMMA ReadAgrees ==
    ASSUME NEW f, NEW g, NEW r \in Rules, NEW s \in Seq(TokenSet),
           \A y \in Phrases : Level(y) < Level(<<r, s>>) => f[y] = g[y]
    PROVE  ReadBy(f, r, s) = ReadBy(g, r, s)
<1>0. Len(s) \in Nat /\ Level(<<r, s>>) = 4 * Len(s) + Rank(r)
  BY Levels
<1>1. ASSUME NEW q \in Rules, NEW t \in Seq(TokenSet), 4 * Len(t) + Rank(q) < 4 * Len(s) + Rank(r)
      PROVE  f[<<q, t>>] = g[<<q, t>>]
  BY <1>0, <1>1, Levels
<1>2. ASSUME NEW q \in Rules, NEW t \in Seq(TokenSet), Len(t) < Len(s)
      PROVE  f[<<q, t>>] = g[<<q, t>>]
  <2>1. Len(t) \in Nat /\ Rank(q) \in 0..3 /\ Rank(r) \in 0..3
    BY Ranks
  <2> QED BY <1>0, <1>1, <1>2, <2>1
<1>3. {"primary", "concatenation", "operation", "expression"} = Rules
  BY DEF Rules
<1>4. CASE r = "primary"
  <2>1. Len(s) > 2 => f[<<"expression", Inner(s)>>] = g[<<"expression", Inner(s)>>]
    <3> SUFFICES ASSUME Len(s) > 2 PROVE f[<<"expression", Inner(s)>>] = g[<<"expression", Inner(s)>>]
      OBVIOUS
    <3>1. Inner(s) \in Seq(TokenSet) /\ Len(Inner(s)) < Len(s)
      BY <1>0, InnerLength
    <3>2. "expression" \in Rules
      BY <1>3
    <3> QED BY <1>2, <3>1, <3>2
  <2> QED BY <1>4, <2>1, ReadPrimary
<1>5. CASE r = "concatenation"
  <2>1. f[<<"primary", s>>] = g[<<"primary", s>>]
    BY <1>0, <1>1, <1>3, <1>5, Ranks
  <2> DEFINE k == FirstDots(s)
  <2>2. CASE Dots(s) # {}
    <3>1. k \in 1..Len(s)
      BY <1>0, <2>2, SplitPlaces
    <3>2. /\ Before(s, k) \in Seq(TokenSet) /\ Len(Before(s, k)) < Len(s)
          /\ After(s, k) \in Seq(TokenSet) /\ Len(After(s, k)) < Len(s)
      BY <1>0, <3>1, PartLengths
    <3>3. /\ f[<<"primary", Before(s, k)>>] = g[<<"primary", Before(s, k)>>]
          /\ f[<<"concatenation", After(s, k)>>] = g[<<"concatenation", After(s, k)>>]
      BY <1>2, <1>3, <3>2
    <3> QED BY <1>5, <2>2, <3>3, ReadConcatenation
  <2> QED BY <1>5, <2>1, <2>2, ReadConcatenation
<1>6. CASE r = "operation"
  <2>1. f[<<"primary", s>>] = g[<<"primary", s>>]
    BY <1>0, <1>1, <1>3, <1>6, Ranks
  <2>2. s # <<>> => f[<<"concatenation", After(s, 1)>>] = g[<<"concatenation", After(s, 1)>>]
    <3>1. s # <<>> => 1 \in 1..Len(s)
      BY <1>0
    <3>2. s # <<>> => After(s, 1) \in Seq(TokenSet) /\ Len(After(s, 1)) < Len(s)
      BY <1>0, <3>1, PartLengths
    <3> QED BY <1>2, <1>3, <3>2
  <2> DEFINE k == LastSplit(s)
  <2>3. Splits(s) # {} => /\ f[<<"operation", Before(s, k)>>] = g[<<"operation", Before(s, k)>>]
                         /\ f[<<"operation", After(s, k)>>] = g[<<"operation", After(s, k)>>]
    <3> SUFFICES ASSUME Splits(s) # {}
                 PROVE  /\ f[<<"operation", Before(s, k)>>] = g[<<"operation", Before(s, k)>>]
                        /\ f[<<"operation", After(s, k)>>] = g[<<"operation", After(s, k)>>]
      OBVIOUS
    <3>1. k \in 1..Len(s)
      BY <1>0, SplitPlaces
    <3>2. /\ Before(s, k) \in Seq(TokenSet) /\ Len(Before(s, k)) < Len(s)
          /\ After(s, k) \in Seq(TokenSet) /\ Len(After(s, k)) < Len(s)
      BY <1>0, <3>1, PartLengths
    <3> QED BY <1>2, <1>3, <3>2
  <2> QED BY <1>6, <2>1, <2>2, <2>3, ReadOperation
<1>7. CASE r = "expression"
  <2>1. /\ f[<<"concatenation", s>>] = g[<<"concatenation", s>>]
        /\ f[<<"operation", s>>] = g[<<"operation", s>>]
    BY <1>0, <1>1, <1>3, <1>7, Ranks
  <2> QED BY <1>7, <2>1, ReadExpression
<1> QED BY <1>4, <1>5, <1>6, <1>7 DEF Rules

Below(n) == {x \in Phrases : Level(x) < n}

(* h is Reading for the phrases below level n. *)
Fits(h, n) == h = [x \in Below(n) |-> ReadBy(h, x[1], x[2])]

LEMMA FitsAgree ==
    ASSUME NEW n \in Nat, NEW m \in Nat, NEW h, NEW g, Fits(h, n), Fits(g, m)
    PROVE  \A x \in Phrases : Level(x) < n /\ Level(x) < m => h[x] = g[x]
<1> DEFINE S == {i \in Nat : \A x \in Phrases : Level(x) < i /\ Level(x) < n /\ Level(x) < m => h[x] = g[x]}
<1>1. 0 \in S
  BY Levels
<1>2. ASSUME NEW i \in 0..(n - 1), i \in S PROVE i + 1 \in S
  <2> SUFFICES ASSUME NEW x \in Phrases, Level(x) < i + 1, Level(x) < n, Level(x) < m
               PROVE  h[x] = g[x]
    OBVIOUS
  <2>1. Level(x) \in Nat /\ x = <<x[1], x[2]>> /\ x[1] \in Rules /\ x[2] \in Seq(TokenSet)
    BY Levels
  <2>0. \A y \in Phrases : Level(y) < i /\ Level(y) < n /\ Level(y) < m => h[y] = g[y]
    BY <1>2
  <2>2. ASSUME NEW y \in Phrases, Level(y) < Level(x) PROVE h[y] = g[y]
    <3>1. Level(y) \in Nat
      BY Levels
    <3> QED BY <2>0, <2>1, <2>2, <3>1
  <2>3. ReadBy(h, x[1], x[2]) = ReadBy(g, x[1], x[2])
    BY <2>1, <2>2, ReadAgrees
  <2>4. x \in Below(n) /\ x \in Below(m)
    BY DEF Below
  <2> QED BY <2>3, <2>4 DEF Fits
<1> HIDE DEF S
<1>3. 0..n \subseteq S
  BY <1>1, <1>2, UpTo
<1>4. n \in S
  BY <1>3
<1> QED BY <1>4 DEF S

LEMMA FitsExists ==
    ASSUME NEW n \in Nat
    PROVE  \E h : Fits(h, n)
<1> DEFINE S == {i \in Nat : \E h : Fits(h, i)}
<1>1. 0 \in S
  <2>1. Below(0) = {}
    BY Levels DEF Below
  <2> DEFINE h == [x \in Below(0) |-> 0]
  <2>2. Fits(h, 0)
    BY <2>1 DEF Fits
  <2> QED BY <2>2
<1>2. ASSUME NEW i \in 0..(n - 1), i \in S PROVE i + 1 \in S
  <2>1. PICK h : Fits(h, i)
    BY <1>2
  <2> DEFINE g == [x \in Below(i + 1) |-> ReadBy(h, x[1], x[2])]
  <2>2. ASSUME NEW y \in Phrases, Level(y) < i PROVE h[y] = g[y]
    <3>1. y \in Below(i) /\ y \in Below(i + 1)
      BY <2>2, Levels DEF Below
    <3> QED BY <2>1, <3>1 DEF Fits
  <2>3. ASSUME NEW x \in Below(i + 1) PROVE ReadBy(h, x[1], x[2]) = ReadBy(g, x[1], x[2])
    <3>1. /\ x \in Phrases /\ Level(x) \in Nat /\ Level(x) < i + 1
          /\ x = <<x[1], x[2]>> /\ x[1] \in Rules /\ x[2] \in Seq(TokenSet)
      BY Levels DEF Below
    <3> HIDE DEF g
    <3>2. ASSUME NEW y \in Phrases, Level(y) < Level(x) PROVE h[y] = g[y]
      <4>1. Level(y) \in Nat
        BY Levels
      <4> QED BY <2>2, <3>1, <3>2, <4>1
    <3> QED BY <3>1, <3>2, ReadAgrees
  <2>4. g = [x \in Below(i + 1) |-> ReadBy(g, x[1], x[2])]
    BY <2>3
  <2>5. Fits(g, i + 1)
    BY <2>4 DEF Fits
  <2> QED BY <2>5
<1> HIDE DEF S
<1>3. 0..n \subseteq S
  BY <1>1, <1>2, UpTo
<1>4. n \in S
  BY <1>3
<1> QED BY <1>4 DEF S

(* Reading satisfies its equation. *)
LEMMA ReadingIs ==
    ASSUME NEW r \in Rules, NEW s \in Seq(TokenSet)
    PROVE  Of(r, s) = ReadBy(Reading, r, s)
<1> DEFINE fit(n) == CHOOSE h : Fits(h, n)
           g == [x \in Phrases |-> fit(Level(x) + 1)[x]]
           P(f) == f = [x \in Phrases |-> ReadBy(f, x[1], x[2])]
<1>1. \A n \in Nat : Fits(fit(n), n)
  BY FitsExists
<1> HIDE DEF fit
<1>2. ASSUME NEW x \in Phrases PROVE g[x] = ReadBy(g, x[1], x[2])
  <2>1. /\ Level(x) \in Nat /\ Level(x) + 1 \in Nat
        /\ x = <<x[1], x[2]>> /\ x[1] \in Rules /\ x[2] \in Seq(TokenSet)
    BY Levels
  <2> DEFINE h == fit(Level(x) + 1)
  <2>2. Fits(h, Level(x) + 1)
    BY <1>1, <2>1
  <2>3. x \in Below(Level(x) + 1)
    BY <2>1 DEF Below
  <2>4. g[x] = ReadBy(h, x[1], x[2])
    BY <2>2, <2>3 DEF Fits
  <2>5. ASSUME NEW y \in Phrases, Level(y) < Level(x) PROVE h[y] = g[y]
    <3>1. Level(y) \in Nat /\ Level(y) + 1 \in Nat /\ Level(y) < Level(x) + 1 /\ Level(y) < Level(y) + 1
      BY <2>1, <2>5, Levels
    <3>2. Fits(fit(Level(y) + 1), Level(y) + 1)
      BY <1>1, <3>1
    <3> HIDE DEF h
    <3>3. h[y] = fit(Level(y) + 1)[y]
      BY <2>1, <2>2, <3>1, <3>2, FitsAgree
    <3> QED BY <3>3
  <2> HIDE DEF g, h
  <2>6. ReadBy(h, x[1], x[2]) = ReadBy(g, x[1], x[2])
    BY <2>1, <2>5, ReadAgrees
  <2> QED BY <2>4, <2>6
<1>3. P(g)
  BY <1>2
<1>4. Reading = CHOOSE f : P(f)
  BY DEF Reading, Phrases
<1> HIDE DEF P, g
<1>5. P(Reading)
  BY <1>3, <1>4, Zenon
<1>6. Reading = [x \in Phrases |-> ReadBy(Reading, x[1], x[2])]
  BY <1>5 DEF P
<1>7. <<r, s>> \in Phrases
  BY Levels
<1> QED BY <1>6, <1>7 DEF Of

-----------------------------------------------------------------------------
(* Depth.                                                                   *)

Tally(s, sym, i) == Cardinality({j \in 1..(i - 1) : s[j].spec = sym})

Turn(t) == IF t.spec = "(" THEN 1 ELSE IF t.spec = ")" THEN -1 ELSE 0

LEMMA TallyFirst == \A s, sym : Tally(s, sym, 1) = 0
<1> SUFFICES ASSUME NEW s, NEW sym PROVE Tally(s, sym, 1) = 0
  OBVIOUS
<1>1. {j \in 1..(1 - 1) : s[j].spec = sym} = {}
  OBVIOUS
<1> QED BY <1>1, FS_EmptySet DEF Tally

LEMMA TallyNext ==
    ASSUME NEW s, NEW sym, NEW i \in Nat \ {0}
    PROVE  /\ Tally(s, sym, i) \in Nat
           /\ Tally(s, sym, i + 1) = Tally(s, sym, i) + (IF s[i].spec = sym THEN 1 ELSE 0)
<1> DEFINE S(k) == {j \in 1..(k - 1) : s[j].spec = sym}
<1>1. IsFiniteSet(S(i))
  <2>1. 1 \in Int /\ i - 1 \in Int
    OBVIOUS
  <2>2. IsFiniteSet(1..(i - 1))
    BY <2>1, FS_Interval, Zenon
  <2>3. S(i) \in SUBSET (1..(i - 1))
    OBVIOUS
  <2> QED BY <2>2, <2>3, FS_Subset
<1>2. Tally(s, sym, i) \in Nat
  BY <1>1, FS_CardinalityType DEF Tally
<1>3. CASE s[i].spec = sym
  <2>1. S(i + 1) = S(i) \cup {i} /\ i \notin S(i)
    BY <1>3
  <2>2. Tally(s, sym, i + 1) = Tally(s, sym, i) + 1
    BY <1>1, <2>1, FS_AddElement DEF Tally
  <2> QED BY <1>2, <1>3, <2>2
<1>4. CASE s[i].spec # sym
  <2>1. S(i + 1) = S(i)
    BY <1>4
  <2>2. Tally(s, sym, i + 1) = Tally(s, sym, i)
    BY <2>1 DEF Tally
  <2> QED BY <1>2, <1>4, <2>2
<1> QED BY <1>3, <1>4

LEMMA DepthFirst == \A s : Depth(s, 1) = 0
<1> SUFFICES ASSUME NEW s PROVE Depth(s, 1) = 0
  OBVIOUS
<1>1. Tally(s, "(", 1) = 0 /\ Tally(s, ")", 1) = 0
  BY TallyFirst
<1> QED BY <1>1 DEF Depth, Tally

LEMMA DepthNext ==
    ASSUME NEW s, NEW i \in Nat \ {0}
    PROVE  Depth(s, i) \in Int /\ Depth(s, i + 1) = Depth(s, i) + Turn(s[i])
<1>1. \A k : Depth(s, k) = Tally(s, "(", k) - Tally(s, ")", k)
  BY DEF Depth, Tally
<1>2. /\ Tally(s, "(", i) \in Nat /\ Tally(s, ")", i) \in Nat
      /\ Tally(s, "(", i + 1) = Tally(s, "(", i) + (IF s[i].spec = "(" THEN 1 ELSE 0)
      /\ Tally(s, ")", i + 1) = Tally(s, ")", i) + (IF s[i].spec = ")" THEN 1 ELSE 0)
  BY TallyNext
<1>3. CASE s[i].spec = "("
  BY <1>1, <1>2, <1>3 DEF Turn
<1>4. CASE s[i].spec = ")"
  BY <1>1, <1>2, <1>4 DEF Turn
<1>5. CASE s[i].spec \notin {"(", ")"}
  BY <1>1, <1>2, <1>5 DEF Turn
<1> QED BY <1>3, <1>4, <1>5

(* The n tokens of w lie in s after the first a. *)
Inside(s, w, a, n) == \A i \in 1..n : w[i] = s[a + i]

LEMMA DepthInside ==
    ASSUME NEW s, NEW w, NEW a \in Nat, NEW n \in Nat, Inside(s, w, a, n)
    PROVE  \A i \in 1..(n + 1) : Depth(s, a + i) = Depth(s, a + 1) + Depth(w, i)
<1> DEFINE S == {k \in 0..n : Depth(s, a + (k + 1)) = Depth(s, a + 1) + Depth(w, k + 1)}
<1>1. 0 \in S
  <2>1. Depth(w, 1) = 0 /\ Depth(s, a + 1) \in Int
    BY DepthFirst, DepthNext
  <2> QED BY <2>1
<1>2. ASSUME NEW k \in 0..(n - 1), k \in S PROVE k + 1 \in S
  <2>1. Depth(s, a + (k + 1)) = Depth(s, a + 1) + Depth(w, k + 1)
    BY <1>2
  <2>2. /\ Depth(s, a + 1) \in Int
        /\ Depth(w, k + 1) \in Int /\ Depth(w, (k + 1) + 1) = Depth(w, k + 1) + Turn(w[k + 1])
    BY DepthNext
  <2>3. a + (k + 1) \in Nat \ {0} /\ (a + (k + 1)) + 1 = a + ((k + 1) + 1)
    OBVIOUS
  <2>4. Depth(s, (a + (k + 1)) + 1) = Depth(s, a + (k + 1)) + Turn(s[a + (k + 1)])
    BY <2>3, DepthNext
  <2>5. w[k + 1] = s[a + (k + 1)] /\ Turn(w[k + 1]) \in Int
    BY DEF Turn, Inside
  <2>6. Depth(s, a + ((k + 1) + 1)) = Depth(s, a + 1) + Depth(w, (k + 1) + 1)
    BY <2>1, <2>2, <2>3, <2>4, <2>5
  <2> QED BY <2>6
<1> HIDE DEF S
<1>3. 0..n \subseteq S
  BY <1>1, <1>2, UpTo
<1>4. ASSUME NEW i \in 1..(n + 1) PROVE Depth(s, a + i) = Depth(s, a + 1) + Depth(w, i)
  <2>1. i - 1 \in S
    BY <1>3
  <2>2. (i - 1) + 1 = i
    OBVIOUS
  <2> QED BY <2>1, <2>2 DEF S
<1> QED BY <1>4

(* All parentheses are closed, and none before it is opened. *)
Closed(s) == Depth(s, Len(s) + 1) = 0 /\ \A i \in 1..(Len(s) + 1) : Depth(s, i) >= 0

Infix == AddOps \cup MulOps \cup RelOps
Ops == Infix \cup {"..", "#"}

(* An operator outside of all parentheses. *)
TopOp(s, i) == i \in 1..Len(s) /\ Depth(s, i) = 0 /\ s[i].spec \in Ops
Flat(s) == \A i : ~TopOp(s, i)

LEMMA Symbols ==
    /\ Infix \subseteq Ops /\ ".." \in Ops /\ "#" \in Ops /\ ".." \notin Infix /\ "#" \notin Infix
    /\ "i" \notin Ops /\ "(" \notin Ops /\ ")" \notin Ops /\ "$" \notin Ops /\ "EMPTY" \notin Ops
    /\ BinaryOps = Infix \cup {".."}
BY DEF Infix, Ops, AddOps, MulOps, RelOps, BinaryOps

(* Depths in a sequence that is split at k, with all parentheses closed     *)
(* before k.                                                                *)
LEMMA SplitDepths ==
    ASSUME NEW s \in Seq(TokenSet), NEW k \in 1..Len(s), s[k].spec \in Ops, Closed(Before(s, k))
    PROVE  /\ Depth(s, k) = 0 /\ Depth(s, k + 1) = 0
           /\ \A i \in 1..k : Depth(s, i) = Depth(Before(s, k), i)
           /\ \A i \in 1..(Len(s) - k + 1) : Depth(s, k + i) = Depth(After(s, k), i)
<1>0. Len(s) \in Nat
  OBVIOUS
<1>1. /\ Len(Before(s, k)) = k - 1 /\ Len(After(s, k)) = Len(s) - k
      /\ \A i \in 1..(k - 1) : Before(s, k)[i] = s[i]
      /\ \A i \in 1..(Len(s) - k) : After(s, k)[i] = s[k + i]
  BY PartLengths
<1> DEFINE u == Before(s, k)
           v == After(s, k)
<1> HIDE DEF u, v
<1>2. ASSUME NEW i \in 1..k PROVE Depth(s, i) = Depth(u, i)
  <2>1. PICK a \in Nat, n \in Nat : a = 0 /\ n = k - 1
    OBVIOUS
  <2>2. Inside(s, u, a, n)
    BY <1>1, <2>1 DEF u, Inside
  <2>30. \A j \in 1..(n + 1) : Depth(s, a + j) = Depth(s, a + 1) + Depth(u, j)
    BY <2>2, DepthInside
  <2>3. Depth(s, a + i) = Depth(s, a + 1) + Depth(u, i)
    BY <2>1, <2>30
  <2>4. Depth(s, 1) = 0 /\ Depth(u, i) \in Int /\ a + i = i /\ a + 1 = 1
    BY <2>1, DepthFirst, DepthNext
  <2> QED BY <2>3, <2>4
<1>3. Depth(s, k) = 0
  <2>1. Depth(u, k) = 0
    BY <1>1 DEF Closed, u
  <2> QED BY <1>2, <2>1
<1>4. Depth(s, k + 1) = 0
  <2>1. Turn(s[k]) = 0
    BY Symbols DEF Turn
  <2>2. Depth(s, k + 1) = Depth(s, k) + Turn(s[k])
    BY <1>0, DepthNext
  <2> QED BY <1>3, <2>1, <2>2
<1>5. ASSUME NEW i \in 1..(Len(s) - k + 1) PROVE Depth(s, k + i) = Depth(v, i)
  <2>0. k \in Nat /\ Len(s) - k \in Nat
    BY <1>0
  <2>1. PICK a \in Nat, n \in Nat : a = k /\ n = Len(s) - k
    BY <2>0
  <2>2. Inside(s, v, a, n)
    BY <1>1, <2>1 DEF v, Inside
  <2>30. \A j \in 1..(n + 1) : Depth(s, a + j) = Depth(s, a + 1) + Depth(v, j)
    BY <2>2, DepthInside
  <2>3. Depth(s, a + i) = Depth(s, a + 1) + Depth(v, i)
    BY <2>1, <2>30
  <2>4. Depth(v, i) \in Int
    BY <1>0, DepthNext
  <2> QED BY <1>4, <2>1, <2>3, <2>4
<1> QED BY <1>2, <1>3, <1>4, <1>5 DEF u, v

LEMMA SplitClosed ==
    ASSUME NEW s \in Seq(TokenSet), NEW k \in 1..Len(s), s[k].spec \in Ops,
           Closed(Before(s, k)), Closed(After(s, k))
    PROVE  Closed(s)
<1>0. Len(s) \in Nat /\ Len(Before(s, k)) = k - 1 /\ Len(After(s, k)) = Len(s) - k
  BY PartLengths
<1>1. /\ \A i \in 1..k : Depth(s, i) = Depth(Before(s, k), i)
      /\ \A i \in 1..(Len(s) - k + 1) : Depth(s, k + i) = Depth(After(s, k), i)
  BY SplitDepths
<1>2. ASSUME NEW i \in 1..(Len(s) + 1) PROVE Depth(s, i) >= 0
  <2>1. CASE i <= k
    BY <1>0, <1>1, <2>1 DEF Closed
  <2>2. CASE i > k
    <3>1. i - k \in 1..(Len(s) - k + 1) /\ k + (i - k) = i
      BY <1>0, <2>2
    <3>2. Depth(After(s, k), i - k) >= 0
      BY <1>0, <3>1 DEF Closed
    <3>3. Depth(s, k + (i - k)) = Depth(After(s, k), i - k)
      BY <1>1, <3>1
    <3> QED BY <3>1, <3>2, <3>3
  <2> QED BY <2>1, <2>2
<1>3. Depth(s, Len(s) + 1) = 0
  <2>1. Len(s) - k + 1 \in 1..(Len(s) - k + 1) /\ k + (Len(s) - k + 1) = Len(s) + 1
    BY <1>0
  <2>2. Depth(After(s, k), Len(s) - k + 1) = 0
    BY <1>0 DEF Closed
  <2>3. Depth(s, k + (Len(s) - k + 1)) = Depth(After(s, k), Len(s) - k + 1)
    BY <1>1, <2>1
  <2> QED BY <2>1, <2>2, <2>3
<1> QED BY <1>2, <1>3 DEF Closed

LEMMA InnerDepths ==
    ASSUME NEW s \in Seq(TokenSet), Len(s) > 1, s[1].spec = "(", s[Len(s)].spec = ")"
    PROVE  /\ Depth(s, 1) = 0
           /\ \A i \in 1..(Len(s) - 1) : Depth(s, i + 1) = Depth(Inner(s), i) + 1
           /\ Depth(s, Len(s) + 1) = Depth(Inner(s), Len(s) - 1)
<1>0. Len(s) \in Nat /\ Len(Inner(s)) = Len(s) - 2 /\ \A i \in 1..(Len(s) - 2) : Inner(s)[i] = s[i + 1]
  BY InnerLength
<1> DEFINE w == Inner(s)
<1> HIDE DEF w
<1>1. Depth(s, 1) = 0
  BY DepthFirst
<1>20. Len(s) - 2 \in Nat
  BY <1>0
<1>2. PICK a \in Nat, n \in Nat : a = 1 /\ n = Len(s) - 2
  BY <1>20
<1>3. Depth(s, a + 1) = 1
  <2>0. a \in Nat \ {0}
    BY <1>2
  <2>1. Depth(s, a + 1) = Depth(s, a) + Turn(s[a])
    BY <2>0, DepthNext
  <2>2. Turn(s[a]) = 1
    BY <1>2 DEF Turn
  <2> QED BY <1>1, <1>2, <2>1, <2>2
<1>4. Inside(s, w, a, n)
  <2> SUFFICES ASSUME NEW i \in 1..n PROVE w[i] = s[a + i]
    BY DEF Inside
  <2>1. i \in 1..(Len(s) - 2) /\ a + i = i + 1
    BY <1>2
  <2> QED BY <1>0, <2>1 DEF w
<1>5. ASSUME NEW i \in 1..(Len(s) - 1) PROVE Depth(s, i + 1) = Depth(w, i) + 1
  <2>1. i \in 1..(n + 1) /\ a + i = i + 1 /\ i \in Nat \ {0}
    BY <1>0, <1>2
  <2>20. \A j \in 1..(n + 1) : Depth(s, a + j) = Depth(s, a + 1) + Depth(w, j)
    BY <1>4, DepthInside
  <2>2. Depth(s, a + i) = Depth(s, a + 1) + Depth(w, i)
    BY <2>1, <2>20
  <2>3. Depth(w, i) \in Int
    BY <2>1, DepthNext
  <2> QED BY <1>3, <2>1, <2>2, <2>3
<1>6. Depth(s, Len(s) + 1) = Depth(w, Len(s) - 1)
  <2> DEFINE m == Len(s)
  <2>0. m \in Nat \ {0} /\ Turn(s[m]) = -1
    BY <1>0 DEF Turn
  <2>1. Depth(s, m + 1) = Depth(s, m) + Turn(s[m]) /\ Turn(s[m]) = -1
    BY <2>0, DepthNext
  <2>2. m - 1 \in 1..(m - 1) /\ (m - 1) + 1 = m /\ m - 1 \in Nat \ {0}
    BY <1>0
  <2>3. Depth(s, (m - 1) + 1) = Depth(w, m - 1) + 1
    BY <1>5, <2>2
  <2>4. Depth(w, m - 1) \in Int
    BY <2>2, DepthNext
  <2> QED BY <2>1, <2>2, <2>3, <2>4
<1> QED BY <1>1, <1>5, <1>6 DEF w

LEMMA InnerClosed ==
    ASSUME NEW s \in Seq(TokenSet), Len(s) > 1, s[1].spec = "(", s[Len(s)].spec = ")", Closed(Inner(s))
    PROVE  Closed(s) /\ Flat(s)
<1>0. Len(s) \in Nat /\ Len(Inner(s)) = Len(s) - 2
  BY InnerLength
<1>1. /\ Depth(s, 1) = 0
      /\ \A i \in 1..(Len(s) - 1) : Depth(s, i + 1) = Depth(Inner(s), i) + 1
      /\ Depth(s, Len(s) + 1) = Depth(Inner(s), Len(s) - 1)
  BY InnerDepths
<1>2. ASSUME NEW i \in 1..(Len(s) - 1) PROVE Depth(Inner(s), i) \in Int /\ Depth(Inner(s), i) >= 0
  <2>1. i \in Nat \ {0} /\ i \in 1..(Len(Inner(s)) + 1)
    BY <1>0
  <2>2. Depth(Inner(s), i) \in Int
    BY <2>1, DepthNext
  <2> QED BY <2>1, <2>2 DEF Closed
<1>3. Depth(Inner(s), Len(s) - 1) = 0
  BY <1>0 DEF Closed
<1>4. ASSUME NEW i \in 2..Len(s) PROVE Depth(s, i) > 0
  <2>1. i - 1 \in 1..(Len(s) - 1) /\ (i - 1) + 1 = i
    BY <1>0
  <2>2. Depth(s, (i - 1) + 1) = Depth(Inner(s), i - 1) + 1
    BY <1>1, <2>1
  <2> QED BY <1>2, <2>1, <2>2
<1>5. ASSUME NEW i \in 1..(Len(s) + 1) PROVE Depth(s, i) >= 0
  <2>1. i = 1 \/ i = Len(s) + 1 \/ i \in 2..Len(s)
    BY <1>0
  <2>2. CASE i \in 2..Len(s)
    <3>1. Depth(s, i) \in Int /\ Depth(s, i) > 0
      BY <1>4, <2>2, DepthNext
    <3> QED BY <3>1
  <2> QED BY <1>1, <1>3, <2>1, <2>2
<1>6. ASSUME NEW i, TopOp(s, i) PROVE FALSE
  <2>1. i \in 1..Len(s) /\ Depth(s, i) = 0 /\ s[i].spec \in Ops
    BY <1>6 DEF TopOp
  <2>2. i = 1 \/ i \in 2..Len(s)
    BY <1>0, <2>1
  <2> QED BY <1>4, <2>1, <2>2, Symbols
<1> QED BY <1>1, <1>3, <1>5, <1>6 DEF Closed, Flat

-----------------------------------------------------------------------------
(* How a phrase is built from shorter ones.                                 *)

Known(rule, s) == Of(rule, s) # NoParse

Single(s) == Len(s) = 1 /\ s[1].spec = "i"

Enclosed(s) == Len(s) > 2 /\ s[1].spec = "(" /\ s[Len(s)].spec = ")" /\ Known("expression", Inner(s))

Concatenates(s, k) ==
    /\ k \in 2..(Len(s) - 1) /\ s[k].spec = ".." /\ Depth(s, k) = 0
    /\ Known("primary", Before(s, k)) /\ Known("concatenation", After(s, k))

Operates(s, k) ==
    /\ k \in 2..(Len(s) - 1) /\ s[k].spec \in Infix /\ Depth(s, k) = 0 /\ Dots(Before(s, k)) = {}
    /\ Known("operation", Before(s, k)) /\ Known("operation", After(s, k))

Measures(s) == s # <<>> /\ s[1].spec = "#" /\ Known("concatenation", After(s, 1))

LEMMA JoinedKnown ==
    ASSUME NEW l, NEW r, NEW t, Joined(l, r, t) # NoParse
    PROVE  l # NoParse /\ r # NoParse /\ Joined(l, r, t) = l \o r \o <<t>>
BY DEF Joined

LEMMA ReadingPrimary ==
    ASSUME NEW s \in Seq(TokenSet), Known("primary", s)
    PROVE  Single(s) \/ Enclosed(s)
<1>1. Of("primary", s) = ReadBy(Reading, "primary", s)
  BY ReadingIs DEF Rules
<1> QED BY <1>1, ReadPrimary DEF Known, Single, Enclosed, Of

LEMMA ReadingConcatenation ==
    ASSUME NEW s \in Seq(TokenSet), Known("concatenation", s)
    PROVE  Known("primary", s) \/ \E k : Concatenates(s, k)
<1>1. Of("concatenation", s) = ReadBy(Reading, "concatenation", s)
  BY ReadingIs DEF Rules
<1>2. CASE Dots(s) = {}
  BY <1>1, <1>2, ReadConcatenation DEF Known, Of
<1>3. CASE Dots(s) # {}
  <2> DEFINE k == FirstDots(s)
  <2>1. k \in Dots(s) /\ k \in 2..(Len(s) - 1)
    BY <1>3, SplitPlaces
  <2>2. s[k].spec = ".." /\ Depth(s, k) = 0
    BY <2>1 DEF Dots, TopLevel
  <2>3. Of("concatenation", s) = Joined(Of("primary", Before(s, k)), Of("concatenation", After(s, k)), s[k])
    BY <1>1, <1>3, ReadConcatenation DEF Of
  <2>4. Known("primary", Before(s, k)) /\ Known("concatenation", After(s, k))
    BY <2>3, JoinedKnown DEF Known
  <2>5. Concatenates(s, k)
    BY <2>1, <2>2, <2>4 DEF Concatenates
  <2> QED BY <2>5
<1> QED BY <1>2, <1>3

LEMMA ReadingOperation ==
    ASSUME NEW s \in Seq(TokenSet), Known("operation", s)
    PROVE  Known("primary", s) \/ Measures(s) \/ \E k : Operates(s, k)
<1>1. Of("operation", s) = ReadBy(Reading, "operation", s)
  BY ReadingIs DEF Rules
<1>2. CASE Splits(s) # {}
  <2> DEFINE k == LastSplit(s)
  <2>1. k \in Splits(s) /\ k \in 2..(Len(s) - 1)
    BY <1>2, SplitPlaces
  <2>2. s[k].spec \in Infix /\ Depth(s, k) = 0
    BY <2>1 DEF Splits, TopLevel, Lowest, Infix
  <2>3. Dots(Before(s, k)) = {}
    BY <1>1, <1>2, ReadOperation DEF Known
  <2>4. Of("operation", s) = Joined(Of("operation", Before(s, k)), Of("operation", After(s, k)), s[k])
    BY <1>1, <1>2, <2>3, ReadOperation DEF Of
  <2>5. Known("operation", Before(s, k)) /\ Known("operation", After(s, k))
    BY <2>4, JoinedKnown DEF Known
  <2>6. Operates(s, k)
    BY <2>1, <2>2, <2>3, <2>5 DEF Operates
  <2> QED BY <2>6
<1>3. CASE Splits(s) = {} /\ s # <<>> /\ s[1].spec = "#"
  <2>1. Of("operation", s) = Joined(<<>>, Of("concatenation", After(s, 1)), s[1])
    BY <1>1, <1>3, ReadOperation DEF Of
  <2>2. Known("concatenation", After(s, 1))
    BY <2>1, JoinedKnown DEF Known
  <2> QED BY <1>3, <2>2 DEF Measures
<1>4. CASE Splits(s) = {} /\ ~(s # <<>> /\ s[1].spec = "#")
  BY <1>1, <1>4, ReadOperation DEF Known, Of
<1> QED BY <1>2, <1>3, <1>4

LEMMA ReadingExpression ==
    ASSUME NEW s \in Seq(TokenSet), Known("expression", s)
    PROVE  Known("concatenation", s) \/ Known("operation", s)
<1>1. Of("expression", s) = ReadBy(Reading, "expression", s)
  BY ReadingIs DEF Rules
<1> QED BY <1>1, ReadExpression DEF Known, Of

(* What every phrase looks like. *)
LEMMA ReadingCases ==
    ASSUME NEW s \in Seq(TokenSet), NEW r \in Rules, Known(r, s)
    PROVE  \/ Single(s) \/ Enclosed(s)
           \/ r \in {"concatenation", "expression"} /\ \E k : Concatenates(s, k)
           \/ r \in {"operation", "expression"} /\ (Measures(s) \/ \E k : Operates(s, k))
BY ReadingPrimary, ReadingConcatenation, ReadingOperation, ReadingExpression DEF Rules

(* What holds of all phrases when it holds of one whose parts it holds of.  *)
LEMMA PhraseInduction ==
    ASSUME NEW P,
           \A s \in Seq(TokenSet) :
               (\A w \in Seq(TokenSet), r \in Rules : Len(w) < Len(s) /\ Known(r, w) => <<r, w>> \in P)
               => \A r \in Rules : Known(r, s) => <<r, s>> \in P
    PROVE  \A s \in Seq(TokenSet), r \in Rules : Known(r, s) => <<r, s>> \in P
<1> SUFFICES ASSUME NEW s \in Seq(TokenSet) PROVE \A r \in Rules : Known(r, s) => <<r, s>> \in P
  OBVIOUS
<1> DEFINE S == {n \in Nat : \A w \in Seq(TokenSet), r \in Rules : Len(w) < n /\ Known(r, w) => <<r, w>> \in P}
<1>0. \A w \in Seq(TokenSet) : Len(w) \in Nat
  OBVIOUS
<1>1. 0 \in S
  BY <1>0
<1>2. ASSUME NEW n \in 0..Len(s), n \in S PROVE n + 1 \in S
  <2> SUFFICES ASSUME NEW w \in Seq(TokenSet), Len(w) < n + 1
               PROVE  \A r \in Rules : Known(r, w) => <<r, w>> \in P
    BY <1>0
  <2>1. \A v \in Seq(TokenSet), r \in Rules : Len(v) < n /\ Known(r, v) => <<r, v>> \in P
    BY <1>2
  <2>2. \A v \in Seq(TokenSet) : Len(v) < Len(w) => Len(v) < n
    BY <1>0
  <2>3. \A v \in Seq(TokenSet), r \in Rules : Len(v) < Len(w) /\ Known(r, v) => <<r, v>> \in P
    BY <2>1, <2>2
  <2> QED BY <2>3
<1> HIDE DEF S
<1>3. PICK m \in Nat : m = Len(s) + 1
  BY <1>0
<1>4. \A n \in 0..(m - 1) : n \in S => n + 1 \in S
  BY <1>0, <1>2, <1>3
<1>5. 0..m \subseteq S
  BY <1>1, <1>4, UpTo
<1>6. m \in S /\ Len(s) < m
  BY <1>0, <1>3, <1>5
<1> QED BY <1>6 DEF S

-----------------------------------------------------------------------------
(* Parentheses in phrases.                                                  *)

Balanced(r, s) ==
    /\ s # <<>> /\ Closed(s)
    /\ r = "primary" => Flat(s)
    /\ r = "concatenation" => \A i : TopOp(s, i) => s[i].spec = ".."

LEMMA SingleClosed ==
    ASSUME NEW s \in Seq(TokenSet), Single(s)
    PROVE  s # <<>> /\ Closed(s) /\ Flat(s)
<1>1. Len(s) = 1 /\ s[1].spec = "i"
  BY DEF Single
<1>2. Depth(s, 1) = 0
  BY DepthFirst
<1>3. Depth(s, 1 + 1) = 0
  <2>1. PICK a \in Nat \ {0} : a = 1
    OBVIOUS
  <2>2. Depth(s, a + 1) = Depth(s, a) + Turn(s[a])
    BY DepthNext
  <2>3. Turn(s[a]) = 0
    BY <1>1, <2>1 DEF Turn
  <2> QED BY <1>2, <2>1, <2>2, <2>3
<1>4. Closed(s)
  <2>1. \A i \in 1..(Len(s) + 1) : i = 1 \/ i = 1 + 1
    BY <1>1
  <2> QED BY <1>1, <1>2, <1>3, <2>1 DEF Closed
<1>5. \A i : ~TopOp(s, i)
  BY <1>1, Symbols DEF TopOp
<1> QED BY <1>1, <1>4, <1>5 DEF Flat

(* The top-level operators of a split sequence. *)
LEMMA SplitOps ==
    ASSUME NEW s \in Seq(TokenSet), NEW k \in 1..Len(s), s[k].spec \in Ops, Closed(Before(s, k))
    PROVE  /\ \A i : i < k => (TopOp(s, i) <=> TopOp(Before(s, k), i))
           /\ TopOp(s, k)
           /\ \A i \in Int : i > k => (TopOp(s, i) <=> TopOp(After(s, k), i - k))
           /\ \A i : TopOp(After(s, k), i) => TopOp(s, k + i)
<1>0. Len(s) \in Nat
  OBVIOUS
<1>1. /\ Len(Before(s, k)) = k - 1 /\ Len(After(s, k)) = Len(s) - k
      /\ \A i \in 1..(k - 1) : Before(s, k)[i] = s[i]
      /\ \A i \in 1..(Len(s) - k) : After(s, k)[i] = s[k + i]
  BY PartLengths
<1>2. /\ Depth(s, k) = 0
      /\ \A i \in 1..k : Depth(s, i) = Depth(Before(s, k), i)
      /\ \A i \in 1..(Len(s) - k + 1) : Depth(s, k + i) = Depth(After(s, k), i)
  BY SplitDepths
<1> DEFINE u == Before(s, k)
           v == After(s, k)
<1> HIDE DEF u, v
<1>3. ASSUME NEW i, i < k PROVE TopOp(s, i) <=> TopOp(u, i)
  <2>1. i \in 1..(k - 1) => Depth(s, i) = Depth(u, i) /\ u[i] = s[i]
    BY <1>0, <1>1, <1>2 DEF u
  <2>2. i \in 1..Len(s) => i \in 1..(k - 1)
    BY <1>0, <1>3
  <2>3. i \in 1..Len(u) <=> i \in 1..(k - 1)
    BY <1>1 DEF u
  <2>4. i \in 1..(k - 1) => i \in 1..Len(s)
    BY <1>0
  <2> QED BY <2>1, <2>2, <2>3, <2>4 DEF TopOp
<1>4. ASSUME NEW j \in 1..(Len(s) - k) PROVE TopOp(s, k + j) <=> TopOp(v, j)
  <2>1. Depth(s, k + j) = Depth(v, j) /\ v[j] = s[k + j] /\ k + j \in 1..Len(s) /\ j \in 1..Len(v)
    BY <1>0, <1>1, <1>2 DEF v
  <2> QED BY <2>1 DEF TopOp
<1>5. ASSUME NEW i \in Int, i > k PROVE TopOp(s, i) <=> TopOp(v, i - k)
  <2>1. CASE i \in 1..Len(s)
    <3>1. i - k \in 1..(Len(s) - k) /\ k + (i - k) = i
      BY <1>0, <1>5, <2>1
    <3> QED BY <1>4, <3>1
  <2>2. CASE i \notin 1..Len(s)
    <3>1. i - k \notin 1..Len(v)
      BY <1>0, <1>1, <1>5, <2>2 DEF v
    <3> QED BY <2>2, <3>1 DEF TopOp
  <2> QED BY <2>1, <2>2
<1>6. ASSUME NEW i, TopOp(v, i) PROVE TopOp(s, k + i)
  <2>1. i \in 1..(Len(s) - k)
    BY <1>1, <1>6 DEF TopOp, v
  <2> QED BY <1>4, <1>6, <2>1
<1>7. TopOp(s, k)
  BY <1>2 DEF TopOp
<1> QED BY <1>3, <1>5, <1>6, <1>7 DEF u, v

LEMMA EmptyBefore ==
    ASSUME NEW s \in Seq(TokenSet), s # <<>>
    PROVE  Len(s) \in Nat /\ 1 \in 1..Len(s) /\ Len(Before(s, 1)) = 0 /\ Closed(Before(s, 1))
<1>1. Len(s) \in Nat /\ 1 \in 1..Len(s)
  OBVIOUS
<1>2. Len(Before(s, 1)) = 0
  BY <1>1, PartLengths
<1>3. Depth(Before(s, 1), 1) = 0
  BY DepthFirst
<1> QED BY <1>1, <1>2, <1>3 DEF Closed

LEMMA PhraseBalanced ==
    \A s \in Seq(TokenSet), r \in Rules : Known(r, s) => Balanced(r, s)
<1> DEFINE P == {x \in Phrases : Balanced(x[1], x[2])}
<1>0. \A s \in Seq(TokenSet), r \in Rules : <<r, s>> \in P <=> Balanced(r, s)
  BY DEF Phrases
<1>1. ASSUME NEW s \in Seq(TokenSet),
             \A w \in Seq(TokenSet), r \in Rules : Len(w) < Len(s) /\ Known(r, w) => Balanced(r, w),
             NEW r \in Rules, Known(r, s)
      PROVE  Balanced(r, s)
  <2>0. Len(s) \in Nat /\ {"primary", "concatenation", "operation", "expression"} = Rules
    BY DEF Rules
  <2>1. CASE Single(s)
    BY <2>1, SingleClosed DEF Balanced, Flat
  <2>2. CASE Enclosed(s)
    <3>1. Len(s) > 1 /\ s[1].spec = "(" /\ s[Len(s)].spec = ")" /\ Known("expression", Inner(s))
      BY <2>0, <2>2 DEF Enclosed
    <3>2. Inner(s) \in Seq(TokenSet) /\ Len(Inner(s)) < Len(s)
      BY <2>0, <3>1, InnerLength
    <3>3. Closed(Inner(s))
      BY <1>1, <2>0, <3>1, <3>2 DEF Balanced
    <3>4. Closed(s) /\ Flat(s) /\ s # <<>>
      BY <2>0, <3>1, <3>3, InnerClosed
    <3> QED BY <3>4 DEF Balanced, Flat
  <2>3. ASSUME r \in {"concatenation", "expression"}, NEW k, Concatenates(s, k) PROVE Balanced(r, s)
    <3>1. k \in 1..Len(s) /\ s[k].spec = ".." /\ Known("primary", Before(s, k)) /\ Known("concatenation", After(s, k))
      BY <2>0, <2>3 DEF Concatenates
    <3>2. /\ Before(s, k) \in Seq(TokenSet) /\ Len(Before(s, k)) < Len(s)
          /\ After(s, k) \in Seq(TokenSet) /\ Len(After(s, k)) < Len(s)
      <4>1. /\ Before(s, k) \in Seq(TokenSet) /\ Len(Before(s, k)) = k - 1
            /\ After(s, k) \in Seq(TokenSet) /\ Len(After(s, k)) = Len(s) - k
        BY <3>1, PartLengths
      <4> QED BY <2>0, <3>1, <4>1
    <3>3. Balanced("primary", Before(s, k)) /\ Balanced("concatenation", After(s, k))
      BY <1>1, <2>0, <3>1, <3>2
    <3>4. s[k].spec \in Ops
      BY <3>1, Symbols
    <3>5. Closed(s)
      BY <3>1, <3>3, <3>4, SplitClosed DEF Balanced
    <3>6. ASSUME NEW i, TopOp(s, i) PROVE s[i].spec = ".."
      <4>1. i \in 1..Len(s) /\ i \in Int
        BY <2>0, <3>6 DEF TopOp
      <4>2. ~(i < k)
        BY <3>1, <3>3, <3>4, <3>6, SplitOps DEF Balanced, Flat
      <4>3. CASE i > k
        <5>1. TopOp(After(s, k), i - k)
          BY <3>1, <3>3, <3>4, <3>6, <4>1, <4>3, SplitOps DEF Balanced
        <5>2. After(s, k)[i - k].spec = ".."
          BY <3>3, <5>1 DEF Balanced
        <5>3. i - k \in 1..(Len(s) - k) /\ k + (i - k) = i
          BY <2>0, <3>1, <4>1, <4>3
        <5>4. After(s, k)[i - k] = s[k + (i - k)]
          BY <3>1, <5>3, PartLengths
        <5> QED BY <5>2, <5>3, <5>4
      <4> QED BY <3>1, <4>1, <4>2, <4>3
    <3>7. s # <<>> /\ r # "primary"
      BY <2>0, <2>3, <3>1
    <3> QED BY <3>5, <3>6, <3>7 DEF Balanced
  <2>4. ASSUME r \in {"operation", "expression"}, Measures(s) PROVE Balanced(r, s)
    <3>1. s # <<>> /\ s[1].spec = "#" /\ Known("concatenation", After(s, 1))
      BY <2>4 DEF Measures
    <3>2. 1 \in 1..Len(s) /\ Closed(Before(s, 1))
      BY <3>1, EmptyBefore
    <3>3. After(s, 1) \in Seq(TokenSet) /\ Len(After(s, 1)) < Len(s)
      BY <2>0, <3>2, PartLengths
    <3>4. Closed(After(s, 1))
      BY <1>1, <2>0, <3>1, <3>3 DEF Balanced
    <3>5. Closed(s)
      BY <3>1, <3>2, <3>4, SplitClosed, Symbols
    <3>6. r # "primary" /\ r # "concatenation"
      BY <2>4
    <3> QED BY <3>1, <3>5, <3>6 DEF Balanced
  <2>5. ASSUME r \in {"operation", "expression"}, NEW k, Operates(s, k) PROVE Balanced(r, s)
    <3>1. k \in 1..Len(s) /\ s[k].spec \in Ops /\ Known("operation", Before(s, k)) /\ Known("operation", After(s, k))
      BY <2>0, <2>5, Symbols DEF Operates
    <3>2. /\ Before(s, k) \in Seq(TokenSet) /\ Len(Before(s, k)) < Len(s)
          /\ After(s, k) \in Seq(TokenSet) /\ Len(After(s, k)) < Len(s)
      <4>1. /\ Before(s, k) \in Seq(TokenSet) /\ Len(Before(s, k)) = k - 1
            /\ After(s, k) \in Seq(TokenSet) /\ Len(After(s, k)) = Len(s) - k
        BY <3>1, PartLengths
      <4> QED BY <2>0, <3>1, <4>1
    <3>3. Balanced("operation", Before(s, k)) /\ Balanced("operation", After(s, k))
      BY <1>1, <2>0, <3>1, <3>2
    <3>4. Closed(s)
      BY <3>1, <3>3, SplitClosed DEF Balanced
    <3>5. s # <<>> /\ r # "primary" /\ r # "concatenation"
      BY <2>0, <2>5, <3>1
    <3> QED BY <3>4, <3>5 DEF Balanced
  <2> QED BY <1>1, <2>1, <2>2, <2>3, <2>4, <2>5, ReadingCases
<1> HIDE DEF P
<1>2. \A s \in Seq(TokenSet) :
          (\A w \in Seq(TokenSet), r \in Rules : Len(w) < Len(s) /\ Known(r, w) => <<r, w>> \in P)
          => \A r \in Rules : Known(r, s) => <<r, s>> \in P
  BY <1>0, <1>1
<1>3. \A s \in Seq(TokenSet), r \in Rules : Known(r, s) => <<r, s>> \in P
  BY <1>2, PhraseInduction
<1> QED BY <1>0, <1>3

-----------------------------------------------------------------------------
(* The operators of a phrase outside of its parentheses, and what a phrase  *)
(* reads as when its parts are known.                                       *)

TopSyms(s) == {s[i].spec : i \in {j \in 1..Len(s) : TopOp(s, j)}}

(* The sequence s is a phrase of the rule, and p its postfix form. *)
Yields(rule, s, p) == p \in Seq(TokenSet) /\ p # NoParse /\ Of(rule, s) = p

LEMMA TopSymsAre ==
    ASSUME NEW s \in Seq(TokenSet)
    PROVE  /\ \A o : o \in TopSyms(s) <=> \E i : TopOp(s, i) /\ s[i].spec = o
           /\ TopSyms(s) \subseteq Ops
           /\ Flat(s) <=> TopSyms(s) = {}
BY DEF TopSyms, TopOp, Flat

LEMMA SplitSyms ==
    ASSUME NEW s \in Seq(TokenSet), NEW k \in 1..Len(s), s[k].spec \in Ops, Closed(Before(s, k))
    PROVE  TopSyms(s) = TopSyms(Before(s, k)) \cup {s[k].spec} \cup TopSyms(After(s, k))
<1> DEFINE u == Before(s, k)
           v == After(s, k)
<1>0. /\ u \in Seq(TokenSet) /\ v \in Seq(TokenSet) /\ Len(u) = k - 1 /\ Len(v) = Len(s) - k
      /\ \A i \in 1..(k - 1) : u[i] = s[i]
      /\ \A i \in 1..(Len(s) - k) : v[i] = s[k + i]
  BY PartLengths
<1>1. /\ \A i : i < k => (TopOp(s, i) <=> TopOp(u, i))
      /\ TopOp(s, k)
      /\ \A i \in Int : i > k => (TopOp(s, i) <=> TopOp(v, i - k))
      /\ \A i : TopOp(v, i) => TopOp(s, k + i)
  BY SplitOps
<1>2. Len(s) \in Nat
  OBVIOUS
<1> HIDE DEF u, v
<1>3. ASSUME NEW i, TopOp(s, i)
      PROVE  s[i].spec \in TopSyms(u) \cup {s[k].spec} \cup TopSyms(v)
  <2>0. i \in 1..Len(s)
    BY <1>3 DEF TopOp
  <2>1. CASE i < k
    <3>1. i \in 1..(k - 1)
      BY <2>0, <2>1
    <3>2. TopOp(u, i) /\ u[i] = s[i]
      BY <1>0, <1>1, <1>3, <2>1, <3>1
    <3> QED BY <1>0, <3>2, TopSymsAre
  <2>2. CASE i > k
    <3>1. i - k \in 1..(Len(s) - k) /\ k + (i - k) = i
      BY <1>2, <2>0, <2>2
    <3>2. TopOp(v, i - k)
      BY <1>1, <1>3, <2>0, <2>2
    <3>3. v[i - k] = s[k + (i - k)]
      BY <1>0, <3>1
    <3>4. v[i - k].spec = s[i].spec
      BY <3>1, <3>3
    <3> QED BY <1>0, <3>2, <3>4, TopSymsAre
  <2> QED BY <2>0, <2>1, <2>2
<1>4. ASSUME NEW i, TopOp(u, i) PROVE u[i].spec \in TopSyms(s)
  <2>1. i \in 1..(k - 1)
    BY <1>0, <1>4 DEF TopOp
  <2>2. TopOp(s, i) /\ u[i] = s[i]
    BY <1>0, <1>1, <1>4, <2>1
  <2> QED BY <2>2, TopSymsAre
<1>5. ASSUME NEW i, TopOp(v, i) PROVE v[i].spec \in TopSyms(s)
  <2>1. i \in 1..(Len(s) - k)
    BY <1>0, <1>5 DEF TopOp
  <2>2. TopOp(s, k + i) /\ v[i] = s[k + i]
    BY <1>0, <1>1, <1>5, <2>1
  <2> QED BY <2>2, TopSymsAre
<1>6. s[k].spec \in TopSyms(s)
  BY <1>1, TopSymsAre
<1>7. TopSyms(s) \subseteq TopSyms(u) \cup {s[k].spec} \cup TopSyms(v)
  BY <1>3, TopSymsAre
<1>8. TopSyms(u) \subseteq TopSyms(s)
  BY <1>0, <1>4, TopSymsAre
<1>9. TopSyms(v) \subseteq TopSyms(s)
  BY <1>0, <1>5, TopSymsAre
<1> QED BY <1>6, <1>7, <1>8, <1>9 DEF u, v

LEMMA NoTopLevel ==
    ASSUME NEW s \in Seq(TokenSet), NEW c \in SUBSET Ops, c \cap TopSyms(s) = {}
    PROVE  TopLevel(s, c) = {}
<1> SUFFICES ASSUME NEW i \in TopLevel(s, c) PROVE FALSE
  OBVIOUS
<1>1. i \in 2..(Len(s) - 1) /\ s[i].spec \in c /\ Depth(s, i) = 0
  BY DEF TopLevel
<1>2. i \in 1..Len(s)
  BY <1>1
<1>3. TopOp(s, i)
  BY <1>1, <1>2 DEF TopOp
<1> QED BY <1>1, <1>3, TopSymsAre

LEMMA Classes ==
    /\ RelOps \subseteq Ops /\ AddOps \subseteq Ops /\ MulOps \subseteq Ops /\ {".."} \subseteq Ops
    /\ Infix = AddOps \cup MulOps \cup RelOps
    /\ AddOps \cap MulOps = {} /\ AddOps \cap RelOps = {} /\ MulOps \cap RelOps = {}
BY DEF Infix, Ops, AddOps, MulOps, RelOps

(* Without operators of its own a phrase reads the same by every rule. *)
LEMMA FlatReads ==
    ASSUME NEW s \in Seq(TokenSet), Flat(s), NEW r \in Rules
    PROVE  Of(r, s) = Of("primary", s)
<1>1. TopSyms(s) = {}
  BY TopSymsAre
<1>2. Dots(s) = {} /\ Splits(s) = {}
  BY <1>1, NoTopLevel, Classes DEF Dots, Splits, Lowest
<1>3. ~(s # <<>> /\ s[1].spec = "#")
  <2> SUFFICES ASSUME s # <<>>, s[1].spec = "#" PROVE FALSE
    OBVIOUS
  <2>1. 1 \in 1..Len(s)
    OBVIOUS
  <2>2. TopOp(s, 1)
    BY <2>1, DepthFirst, Symbols DEF TopOp
  <2> QED BY <2>2 DEF Flat
<1>4. Of("concatenation", s) = Of("primary", s)
  <2>1. Of("concatenation", s) = ReadBy(Reading, "concatenation", s)
    BY ReadingIs DEF Rules
  <2> QED BY <1>2, <2>1, ReadConcatenation DEF Of
<1>5. Of("operation", s) = Of("primary", s)
  <2>1. Of("operation", s) = ReadBy(Reading, "operation", s)
    BY ReadingIs DEF Rules
  <2> QED BY <1>2, <1>3, <2>1, ReadOperation DEF Of
<1>6. Of("expression", s) = Of("primary", s)
  <2>1. Of("expression", s) = ReadBy(Reading, "expression", s)
    BY ReadingIs DEF Rules
  <2> QED BY <1>4, <1>5, <2>1, ReadExpression DEF Of
<1> QED BY <1>4, <1>5, <1>6 DEF Rules

LEMMA SingleReads ==
    ASSUME NEW s \in Seq(TokenSet), Single(s), NEW r \in Rules
    PROVE  Yields(r, s, s) /\ Closed(s) /\ TopSyms(s) = {}
<1>1. Closed(s) /\ Flat(s)
  BY SingleClosed
<1>2. Of("primary", s) = s
  <2>1. Of("primary", s) = ReadBy(Reading, "primary", s)
    BY ReadingIs DEF Rules
  <2> QED BY <2>1, ReadPrimary DEF Single
<1>3. s # NoParse
  <2> SUFFICES ASSUME s = NoParse PROVE FALSE
    OBVIOUS
  <2>1. s[1] = EmptyToken
    BY DEF NoParse
  <2>2. EmptyToken.spec = "EMPTY" /\ s[1].spec = "i"
    BY DEF EmptyToken, Single
  <2> QED BY <2>1, <2>2
<1> QED BY <1>1, <1>2, <1>3, FlatReads, TopSymsAre DEF Yields

LEMMA EnclosedReads ==
    ASSUME NEW s \in Seq(TokenSet), Len(s) > 2, s[1].spec = "(", s[Len(s)].spec = ")",
           NEW p, Yields("expression", Inner(s), p), NEW r \in Rules
    PROVE  Yields(r, s, p) /\ Closed(s) /\ TopSyms(s) = {}
<1>0. Len(s) \in Nat /\ Inner(s) \in Seq(TokenSet)
  BY InnerLength
<1>1. Closed(Inner(s))
  <2>1. Known("expression", Inner(s)) /\ "expression" \in Rules
    BY DEF Yields, Known, Rules
  <2> QED BY <1>0, <2>1, PhraseBalanced DEF Balanced
<1>2. Closed(s) /\ Flat(s)
  BY <1>0, <1>1, InnerClosed
<1>3. Of("primary", s) = p
  <2>1. Of("primary", s) = ReadBy(Reading, "primary", s)
    BY ReadingIs DEF Rules
  <2>2. Len(s) # 1
    BY <1>0
  <2> QED BY <2>1, <2>2, ReadPrimary DEF Yields, Of
<1> QED BY <1>2, <1>3, FlatReads, TopSymsAre DEF Yields

LEMMA JoinedIs ==
    ASSUME NEW l \in Seq(TokenSet), NEW r \in Seq(TokenSet), l # NoParse, r # NoParse,
           NEW t \in TokenSet, t.spec # "EMPTY"
    PROVE  /\ Joined(l, r, t) = l \o r \o <<t>> /\ Joined(l, r, t) # NoParse
           /\ Joined(l, r, t) \in Seq(TokenSet)
<1> DEFINE w == l \o r \o <<t>>
<1>1. w \in Seq(TokenSet) /\ Len(w) = Len(l) + Len(r) + 1 /\ w[Len(l) + Len(r) + 1] = t
  OBVIOUS
<1>2. Joined(l, r, t) = w
  BY DEF Joined
<1> HIDE DEF w
<1>3. w # NoParse
  <2> SUFFICES ASSUME w = NoParse PROVE FALSE
    OBVIOUS
  <2>1. Len(w) = 1 /\ w[1] = EmptyToken
    BY DEF NoParse
  <2>2. t = EmptyToken
    BY <1>1, <2>1
  <2> QED BY <2>2 DEF EmptyToken
<1> QED BY <1>1, <1>2, <1>3 DEF w

LEMMA ConcatenationReads ==
    ASSUME NEW s \in Seq(TokenSet), NEW k \in 1..Len(s), s[k].spec = "..",
           NEW p, Yields("primary", Before(s, k), p), TopSyms(Before(s, k)) = {},
           NEW q, Yields("concatenation", After(s, k), q),
           NEW r \in {"concatenation", "expression"}
    PROVE  Yields(r, s, p \o q \o <<s[k]>>) /\ Closed(s)
<1> DEFINE u == Before(s, k)
           v == After(s, k)
<1>0. /\ u \in Seq(TokenSet) /\ v \in Seq(TokenSet) /\ Len(u) = k - 1 /\ Len(v) = Len(s) - k
      /\ Len(s) \in Nat /\ s[k] \in TokenSet /\ s[k].spec \in Ops /\ s[k].spec # "EMPTY"
  BY PartLengths, Symbols
<1>1. Balanced("primary", u) /\ Balanced("concatenation", v)
  <2>1. Known("primary", u) /\ Known("concatenation", v)
    BY DEF Known, Yields
  <2> QED BY <1>0, <2>1, PhraseBalanced DEF Rules
<1>2. Closed(s)
  BY <1>0, <1>1, SplitClosed DEF Balanced
<1>3. k \in 2..(Len(s) - 1)
  <2>1. u # <<>> /\ v # <<>>
    BY <1>1 DEF Balanced
  <2>2. Len(u) # 0 /\ Len(v) # 0
    BY <1>0, <2>1
  <2> QED BY <1>0, <2>2
<1>4. TopOp(s, k)
  BY <1>0, <1>1, SplitOps DEF Balanced
<1>5. k \in Dots(s)
  BY <1>3, <1>4 DEF Dots, TopLevel, TopOp
<1>6. ASSUME NEW j \in Dots(s) PROVE k <= j
  <2> SUFFICES ASSUME ~(k <= j) PROVE FALSE
    OBVIOUS
  <2>1. j \in 2..(Len(s) - 1) /\ s[j].spec = ".." /\ Depth(s, j) = 0
    BY <1>6 DEF Dots, TopLevel
  <2>2. j < k /\ j \in 1..Len(s)
    BY <1>0, <2>1
  <2>3. TopOp(s, j)
    BY <2>1, <2>2, Symbols DEF TopOp
  <2>4. TopOp(u, j)
    BY <1>0, <1>1, <2>2, <2>3, SplitOps DEF Balanced
  <2> QED BY <1>0, <2>4, TopSymsAre DEF Flat
<1>7. FirstDots(s) = k
  <2>1. Dots(s) \subseteq Int
    BY DEF Dots, TopLevel
  <2> QED BY <1>5, <1>6, <2>1, MinEquals DEF FirstDots
<1>8. Of("concatenation", s) = Joined(p, q, s[k])
  <2>1. Of("concatenation", s) = ReadBy(Reading, "concatenation", s)
    BY ReadingIs DEF Rules
  <2>2. Dots(s) # {}
    BY <1>5
  <2> QED BY <1>7, <2>1, <2>2, ReadConcatenation DEF Yields, Of
<1>9. /\ Joined(p, q, s[k]) = p \o q \o <<s[k]>> /\ Joined(p, q, s[k]) # NoParse
      /\ Joined(p, q, s[k]) \in Seq(TokenSet)
  BY <1>0, JoinedIs DEF Yields
<1>10. Of("expression", s) = Of("concatenation", s)
  <2>1. Of("expression", s) = ReadBy(Reading, "expression", s)
    BY ReadingIs DEF Rules
  <2> QED BY <1>8, <1>9, <2>1, ReadExpression DEF Of
<1> QED BY <1>2, <1>8, <1>9, <1>10 DEF Yields

(* With an operator other than ".." of its own a phrase is no concatenation. *)
LEMMA NoConcatenation ==
    ASSUME NEW s \in Seq(TokenSet), NEW o \in TopSyms(s), o # ".."
    PROVE  Of("expression", s) = Of("operation", s)
<1>1. ~Known("concatenation", s)
  <2> SUFFICES ASSUME Known("concatenation", s) PROVE FALSE
    OBVIOUS
  <2>1. Balanced("concatenation", s)
    BY PhraseBalanced DEF Rules
  <2>2. PICK i : TopOp(s, i) /\ s[i].spec = o
    BY TopSymsAre
  <2> QED BY <2>1, <2>2 DEF Balanced
<1>2. Of("expression", s) = ReadBy(Reading, "expression", s)
  BY ReadingIs DEF Rules
<1> QED BY <1>1, <1>2, ReadExpression DEF Known, Of

LEMMA LengthReads ==
    ASSUME NEW s \in Seq(TokenSet), s # <<>>, s[1].spec = "#",
           NEW q, Yields("concatenation", After(s, 1), q),
           NEW r \in {"operation", "expression"}
    PROVE  /\ Yields(r, s, q \o <<s[1]>>) /\ Closed(s)
           /\ TopSyms(s) = {"#"} \cup TopSyms(After(s, 1))
<1>0. 1 \in 1..Len(s) /\ Closed(Before(s, 1)) /\ Len(Before(s, 1)) = 0
  BY EmptyBefore
<1> DEFINE v == After(s, 1)
<1>1. /\ v \in Seq(TokenSet) /\ s[1] \in TokenSet /\ s[1].spec \in Ops /\ s[1].spec # "EMPTY"
      /\ Before(s, 1) \in Seq(TokenSet)
  BY <1>0, PartLengths, Symbols
<1>2. Balanced("concatenation", v)
  <2>1. Known("concatenation", v)
    BY DEF Known, Yields
  <2> QED BY <1>1, <2>1, PhraseBalanced DEF Rules
<1>3. Closed(s)
  BY <1>0, <1>1, <1>2, SplitClosed DEF Balanced
<1>4. TopSyms(s) = {"#"} \cup TopSyms(v)
  <2>1. TopSyms(Before(s, 1)) = {}
    BY <1>0 DEF TopSyms
  <2>2. TopSyms(s) = TopSyms(Before(s, 1)) \cup {s[1].spec} \cup TopSyms(v)
    BY <1>0, <1>1, SplitSyms
  <2> QED BY <2>1, <2>2
<1>5. Splits(s) = {}
  <2>1. \A o \in TopSyms(v) : o = ".."
    BY <1>1, <1>2, TopSymsAre DEF Balanced
  <2>2. Lowest(s) \in SUBSET Ops /\ Lowest(s) \subseteq Infix
    BY Classes DEF Lowest
  <2>3. Lowest(s) \cap TopSyms(s) = {}
    BY <1>4, <2>1, <2>2, Symbols
  <2> QED BY <2>2, <2>3, NoTopLevel DEF Splits
<1>6. Of("operation", s) = Joined(<<>>, q, s[1])
  <2>1. Of("operation", s) = ReadBy(Reading, "operation", s)
    BY ReadingIs DEF Rules
  <2> QED BY <1>5, <2>1, ReadOperation DEF Yields, Of
<1>7. <<>> \in Seq(TokenSet) /\ <<>> # NoParse /\ <<>> \o q \o <<s[1]>> = q \o <<s[1]>>
  <2>1. q \in Seq(TokenSet)
    BY DEF Yields
  <2>2. <<>> # NoParse
    BY DEF NoParse
  <2>3. <<>> \o q = q
    BY <2>1
  <2> QED BY <2>2, <2>3
<1>8. /\ Joined(<<>>, q, s[1]) = q \o <<s[1]>> /\ Joined(<<>>, q, s[1]) # NoParse
      /\ Joined(<<>>, q, s[1]) \in Seq(TokenSet)
  <2>1. PICK e \in Seq(TokenSet) : e = <<>>
    BY <1>7
  <2>2. /\ Joined(e, q, s[1]) = e \o q \o <<s[1]>> /\ Joined(e, q, s[1]) # NoParse
        /\ Joined(e, q, s[1]) \in Seq(TokenSet)
    BY <1>1, <1>7, <2>1, JoinedIs DEF Yields
  <2> QED BY <1>7, <2>1, <2>2
<1>9. Of("expression", s) = Of("operation", s)
  BY <1>4, NoConcatenation
<1> QED BY <1>3, <1>4, <1>6, <1>8, <1>9 DEF Yields

(* The classes of operators that bind less tightly than c, or as much.      *)
Looser(c) ==
    CASE c \in MulOps -> RelOps \cup AddOps [] c \in AddOps -> RelOps [] OTHER -> {}
AsTight(c) == CASE c \in MulOps -> MulOps [] c \in AddOps -> AddOps [] OTHER -> RelOps

LEMMA OperationReads ==
    ASSUME NEW s \in Seq(TokenSet), NEW k \in 1..Len(s), s[k].spec \in Infix,
           NEW p, Yields("operation", Before(s, k), p),
           NEW q, Yields("operation", After(s, k), q),
           TopSyms(Before(s, k)) \cap (Looser(s[k].spec) \cup {".."}) = {},
           TopSyms(After(s, k)) \cap (Looser(s[k].spec) \cup AsTight(s[k].spec)) = {},
           NEW r \in {"operation", "expression"}
    PROVE  Yields(r, s, p \o q \o <<s[k]>>) /\ Closed(s)
<1> DEFINE u == Before(s, k)
           v == After(s, k)
           c == s[k].spec
<1>0. /\ u \in Seq(TokenSet) /\ v \in Seq(TokenSet) /\ Len(u) = k - 1 /\ Len(v) = Len(s) - k
      /\ Len(s) \in Nat /\ s[k] \in TokenSet /\ s[k].spec \in Ops /\ s[k].spec # "EMPTY"
  <2>1. /\ u \in Seq(TokenSet) /\ v \in Seq(TokenSet) /\ Len(u) = k - 1 /\ Len(v) = Len(s) - k
    BY PartLengths
  <2>2. Len(s) \in Nat /\ s[k] \in TokenSet
    OBVIOUS
  <2>3. s[k].spec \in Ops
    BY Symbols
  <2>4. s[k].spec # "EMPTY"
    BY <2>3, Symbols
  <2> QED BY <2>1, <2>2, <2>3, <2>4
<1>1. Balanced("operation", u) /\ Balanced("operation", v)
  <2>1. Known("operation", u) /\ Known("operation", v)
    BY DEF Known, Yields
  <2> QED BY <1>0, <2>1, PhraseBalanced DEF Rules
<1>2. Closed(s) /\ TopSyms(s) = TopSyms(u) \cup {c} \cup TopSyms(v)
  BY <1>0, <1>1, SplitClosed, SplitSyms DEF Balanced
<1>3. k \in 2..(Len(s) - 1)
  <2>1. u # <<>> /\ v # <<>>
    BY <1>1 DEF Balanced
  <2>2. Len(u) # 0 /\ Len(v) # 0
    BY <1>0, <2>1
  <2> QED BY <1>0, <2>2
<1>4. TopOp(s, k)
  BY <1>0, <1>1, SplitOps DEF Balanced
<1>5. \A ops : c \in ops => k \in TopLevel(s, ops)
  BY <1>3, <1>4 DEF TopLevel, TopOp
<1>6. c \in AsTight(c) /\ AsTight(c) \in SUBSET Ops /\ AsTight(c) \in {RelOps, AddOps, MulOps}
  BY Classes DEF AsTight
<1>7. Lowest(s) = AsTight(c)
  <2>1. Looser(c) \cap TopSyms(s) = {}
    BY <1>2, Classes DEF Looser
  <2>2. CASE c \in RelOps
    <3>1. k \in TopLevel(s, RelOps) /\ AsTight(c) = RelOps
      BY <1>5, <2>2, Classes DEF AsTight
    <3> QED BY <3>1 DEF Lowest
  <2>3. CASE c \in AddOps
    <3>1. k \in TopLevel(s, AddOps) /\ AsTight(c) = AddOps /\ RelOps \cap TopSyms(s) = {}
      BY <1>5, <2>1, <2>3, Classes DEF AsTight, Looser
    <3>2. TopLevel(s, RelOps) = {}
      BY <3>1, NoTopLevel, Classes
    <3> QED BY <3>1, <3>2 DEF Lowest
  <2>4. CASE c \in MulOps
    <3>1. /\ k \in TopLevel(s, MulOps) /\ AsTight(c) = MulOps
          /\ RelOps \cap TopSyms(s) = {} /\ AddOps \cap TopSyms(s) = {}
      BY <1>5, <2>1, <2>4, Classes DEF AsTight, Looser
    <3>2. TopLevel(s, RelOps) = {} /\ TopLevel(s, AddOps) = {}
      BY <3>1, NoTopLevel, Classes
    <3> QED BY <3>1, <3>2 DEF Lowest
  <2> QED BY <2>2, <2>3, <2>4, Classes
<1>8. k \in Splits(s)
  BY <1>5, <1>6, <1>7 DEF Splits
<1>9. ASSUME NEW j \in Splits(s) PROVE j <= k
  <2> SUFFICES ASSUME ~(j <= k) PROVE FALSE
    OBVIOUS
  <2>1. j \in 2..(Len(s) - 1) /\ s[j].spec \in AsTight(c) /\ Depth(s, j) = 0
    BY <1>7, <1>9 DEF Splits, TopLevel
  <2>2. j > k /\ j \in 1..Len(s) /\ j \in Int
    BY <1>0, <2>1
  <2>3. TopOp(s, j)
    BY <1>6, <2>1, <2>2 DEF TopOp
  <2>4. TopOp(v, j - k)
    BY <1>0, <1>1, <2>2, <2>3, SplitOps DEF Balanced
  <2>5. j - k \in 1..(Len(s) - k) /\ k + (j - k) = j
    BY <1>0, <2>2
  <2>6. v[j - k] = s[k + (j - k)]
    BY <2>5, PartLengths
  <2>7. v[j - k].spec \in AsTight(c)
    BY <2>1, <2>5, <2>6
  <2>8. v[j - k].spec \in TopSyms(v)
    BY <1>0, <2>4, TopSymsAre
  <2> QED BY <2>7, <2>8
<1>10. LastSplit(s) = k
  <2>1. Splits(s) \subseteq Int
    BY DEF Splits, TopLevel
  <2> QED BY <1>8, <1>9, <2>1, MaxEquals DEF LastSplit
<1>11. Dots(u) = {}
  <2>1. {".."} \cap TopSyms(u) = {}
    OBVIOUS
  <2> QED BY <1>0, <2>1, NoTopLevel, Classes DEF Dots
<1>12. Of("operation", s) = Joined(p, q, s[k])
  <2>1. Of("operation", s) = ReadBy(Reading, "operation", s)
    BY ReadingIs DEF Rules
  <2>2. Splits(s) # {}
    BY <1>8
  <2> QED BY <1>10, <1>11, <2>1, <2>2, ReadOperation DEF Yields, Of
<1>13. /\ Joined(p, q, s[k]) = p \o q \o <<s[k]>> /\ Joined(p, q, s[k]) # NoParse
      /\ Joined(p, q, s[k]) \in Seq(TokenSet)
  <2>1. p \in Seq(TokenSet) /\ q \in Seq(TokenSet) /\ p # NoParse /\ q # NoParse
    BY DEF Yields
  <2>2. s[k] \in TokenSet /\ s[k].spec # "EMPTY"
    BY <1>0
  <2> HIDE DEF u, v, c
  <2> QED BY <2>1, <2>2, JoinedIs
<1>14. Of("expression", s) = Of("operation", s)
  <2>1. c \in TopSyms(s) /\ c # ".."
    BY <1>2, Symbols
  <2> QED BY <2>1, NoConcatenation
<1> QED BY <1>2, <1>12, <1>13, <1>14 DEF Yields

(* An expression without a concatenation of its own is an operation.        *)
LEMMA ExpressionIsOperation ==
    ASSUME NEW s \in Seq(TokenSet), NEW p, Yields("expression", s, p), ".." \notin TopSyms(s)
    PROVE  Yields("operation", s, p)
<1>1. CASE TopSyms(s) = {}
  <2>1. Flat(s)
    BY <1>1, TopSymsAre
  <2>2. Of("expression", s) = Of("operation", s)
    BY <2>1, FlatReads DEF Rules
  <2> QED BY <2>2 DEF Yields
<1>2. CASE TopSyms(s) # {}
  <2>1. PICK o \in TopSyms(s) : o # ".."
    BY <1>2
  <2> QED BY <2>1, NoConcatenation DEF Yields
<1> QED BY <1>1, <1>2

-----------------------------------------------------------------------------
(* What a phrase cannot contain: two neighbours that do not go together, and *)
(* a concatenation as an operand of another operator.                        *)

(* y may come after x; "$" is the end. *)
Follows(x, y) ==
    IF x \in {"i", ")"} THEN y \in BinaryOps \cup {")", "$"}
    ELSE y \in {"i", "(", "#"} /\ (x \in {"..", "#"} => y # "#")

Regular(s) ==
    /\ s # <<>>
    /\ \A i \in 1..Len(s) : s[i].spec \in TableSymbols \ {"$"}
    /\ s[1].spec \in {"i", "(", "#"} /\ s[Len(s)].spec \in {"i", ")"}
    /\ \A i \in 1..(Len(s) - 1) : Follows(s[i].spec, s[i + 1].spec)

RegularBy(r, s) == Regular(s) /\ (r \in {"primary", "concatenation"} => s[1].spec # "#")

LEMMA TableSymbolsAre ==
    /\ TableSymbols = Infix \cup {"..", "#", "i", "(", ")", "$"}
    /\ BinaryOps = Infix \cup {".."}
    /\ \A x \in {"..", "#", "i", "(", ")", "$"} : x \notin Infix
BY DEF TableSymbols, BinaryOps, Infix, AddOps, MulOps, RelOps

LEMMA SingleRegular ==
    ASSUME NEW s \in Seq(TokenSet), Single(s)
    PROVE  Regular(s) /\ s[1].spec # "#"
<1>1. Len(s) = 1 /\ s[1].spec = "i"
  BY DEF Single
<1>5. s # <<>>
  BY <1>1
<1>2. "i" \in TableSymbols \ {"$"}
  BY TableSymbolsAre
<1>3. \A i \in 1..Len(s) : i = 1
  BY <1>1
<1>4. \A i \in 1..(Len(s) - 1) : FALSE
  BY <1>1
<1> QED BY <1>1, <1>2, <1>3, <1>4, <1>5 DEF Regular

LEMMA EnclosedRegular ==
    ASSUME NEW s \in Seq(TokenSet), Len(s) > 2, s[1].spec = "(", s[Len(s)].spec = ")", Regular(Inner(s))
    PROVE  Regular(s) /\ s[1].spec # "#"
<1> DEFINE v == Inner(s)
<1>0. Len(s) \in Nat /\ Len(v) = Len(s) - 2 /\ \A i \in 1..(Len(s) - 2) : v[i] = s[i + 1]
  BY InnerLength
<1> HIDE DEF v
<1>1. /\ \A i \in 1..Len(v) : v[i].spec \in TableSymbols \ {"$"}
      /\ v[1].spec \in {"i", "(", "#"} /\ v[Len(v)].spec \in {"i", ")"}
      /\ \A i \in 1..(Len(v) - 1) : Follows(v[i].spec, v[i + 1].spec)
  BY DEF Regular, v
<1>2. ASSUME NEW i \in 1..Len(s) PROVE s[i].spec \in TableSymbols \ {"$"}
  <2>1. i = 1 \/ i = Len(s) \/ (i - 1 \in 1..Len(v) /\ (i - 1) + 1 = i /\ i - 1 \in 1..(Len(s) - 2))
    BY <1>0
  <2>2. "(" \in TableSymbols \ {"$"} /\ ")" \in TableSymbols \ {"$"}
    BY TableSymbolsAre
  <2>3. i - 1 \in 1..(Len(s) - 2) => v[i - 1] = s[(i - 1) + 1]
    BY <1>0
  <2> QED BY <1>1, <2>1, <2>2, <2>3
<1>3. s[2].spec \in {"i", "(", "#"}
  <2>1. 1 \in 1..(Len(s) - 2) /\ 1 + 1 = 2
    BY <1>0
  <2>2. v[1] = s[1 + 1]
    BY <1>0, <2>1
  <2> QED BY <1>1, <2>1, <2>2
<1>4. s[Len(s) - 1].spec \in {"i", ")"}
  <2>1. Len(v) \in 1..(Len(s) - 2) /\ Len(v) + 1 = Len(s) - 1
    BY <1>0
  <2>2. v[Len(v)] = s[Len(v) + 1]
    BY <1>0, <2>1
  <2> QED BY <1>1, <2>1, <2>2
<1>5. ASSUME NEW i \in 1..(Len(s) - 1) PROVE Follows(s[i].spec, s[i + 1].spec)
  <2>1. CASE i = 1
    BY <1>3, <2>1 DEF Follows
  <2>2. CASE i = Len(s) - 1
    <3>1. i + 1 = Len(s)
      BY <1>0, <2>2
    <3> QED BY <1>4, <2>2, <3>1 DEF Follows
  <2>3. CASE i # 1 /\ i # Len(s) - 1
    <3>1. i - 1 \in 1..(Len(v) - 1) /\ i - 1 \in 1..(Len(s) - 2) /\ i \in 1..(Len(s) - 2) /\ (i - 1) + 1 = i
      BY <1>0, <2>3
    <3>2. v[i - 1] = s[i] /\ v[i] = s[i + 1]
      BY <1>0, <3>1
    <3>3. Follows(v[i - 1].spec, v[(i - 1) + 1].spec)
      BY <1>1, <3>1
    <3> QED BY <3>1, <3>2, <3>3
  <2> QED BY <2>1, <2>2, <2>3
<1>6. s # <<>>
  BY <1>0
<1> QED BY <1>2, <1>5, <1>6 DEF Regular

LEMMA SplitRegular ==
    ASSUME NEW s \in Seq(TokenSet), NEW k \in 1..Len(s), s[k].spec \in BinaryOps,
           Regular(Before(s, k)), Regular(After(s, k)), s[k].spec = ".." => After(s, k)[1].spec # "#"
    PROVE  Regular(s) /\ s[1] = Before(s, k)[1]
<1> DEFINE u == Before(s, k)
           v == After(s, k)
           n == Len(s)
<1>0. /\ n \in Nat /\ Len(u) = k - 1 /\ Len(v) = n - k
      /\ u \in Seq(TokenSet) /\ v \in Seq(TokenSet)
      /\ \A i \in 1..(k - 1) : u[i] = s[i]
      /\ \A i \in 1..(n - k) : v[i] = s[k + i]
  <2>1. n \in Nat
    OBVIOUS
  <2> QED BY <2>1, PartLengths
<1>13. u # <<>> /\ v # <<>>
  BY DEF Regular
<1>1. /\ \A i \in 1..Len(u) : u[i].spec \in TableSymbols \ {"$"}
      /\ u[1].spec \in {"i", "(", "#"} /\ u[Len(u)].spec \in {"i", ")"}
      /\ \A i \in 1..(Len(u) - 1) : Follows(u[i].spec, u[i + 1].spec)
  BY DEF Regular
<1>2. /\ \A i \in 1..Len(v) : v[i].spec \in TableSymbols \ {"$"}
      /\ v[1].spec \in {"i", "(", "#"} /\ v[Len(v)].spec \in {"i", ")"}
      /\ \A i \in 1..(Len(v) - 1) : Follows(v[i].spec, v[i + 1].spec)
  BY DEF Regular
<1>3. s[k].spec = ".." => v[1].spec # "#"
  OBVIOUS
<1> HIDE DEF u, v
<1>4. k \in 2..(n - 1)
  <2>1. Len(u) # 0 /\ Len(v) # 0
    BY <1>0, <1>13
  <2> QED BY <1>0, <2>1
<1> HIDE DEF n
<1>5. \A i \in 1..n : i < k \/ i = k \/ i > k
  BY <1>4
<1>6. s[k].spec \in TableSymbols \ {"$"} /\ s[k].spec \notin {"i", ")"}
  BY TableSymbolsAre
<1>7. ASSUME NEW i \in 1..n PROVE s[i].spec \in TableSymbols \ {"$"}
  <2>1. CASE i < k
    <3>1. i \in 1..(k - 1) /\ i \in 1..Len(u)
      BY <1>0, <1>4, <2>1
    <3> QED BY <1>0, <1>1, <3>1
  <2>2. CASE i > k
    <3>1. i - k \in 1..(n - k) /\ i - k \in 1..Len(v) /\ k + (i - k) = i
      BY <1>0, <1>4, <2>2
    <3>2. v[i - k] = s[k + (i - k)]
      BY <1>0, <3>1
    <3> QED BY <1>2, <3>1, <3>2
  <2> QED BY <1>5, <1>6, <2>1, <2>2
<1>8. ASSUME NEW i \in 1..(n - 1) PROVE Follows(s[i].spec, s[i + 1].spec)
  <2>0. i \in 1..n
    BY <1>0
  <2>1. CASE i < k - 1
    <3>1. i \in 1..(k - 1) /\ i + 1 \in 1..(k - 1) /\ i \in 1..(Len(u) - 1)
      BY <1>0, <1>4, <2>1
    <3>2. u[i] = s[i] /\ u[i + 1] = s[i + 1]
      BY <1>0, <3>1
    <3> QED BY <1>1, <3>1, <3>2
  <2>2. CASE i = k - 1
    <3>1. i + 1 = k /\ i \in 1..(k - 1) /\ i = Len(u)
      BY <1>0, <1>4, <2>2
    <3>2. s[i].spec \in {"i", ")"}
      BY <1>0, <1>1, <3>1
    <3> QED BY <3>1, <3>2 DEF Follows
  <2>3. CASE i = k
    <3>1. 1 \in 1..(n - k)
      BY <1>0, <1>4
    <3>2. v[1] = s[i + 1]
      BY <1>0, <2>3, <3>1
    <3>3. s[i].spec # "#"
      BY <2>3, TableSymbolsAre
    <3> QED BY <1>2, <1>3, <1>6, <2>3, <3>2, <3>3 DEF Follows
  <2>4. CASE i > k
    <3>1. i - k \in 1..(n - k) /\ i - k \in 1..(Len(v) - 1) /\ k + (i - k) = i
          /\ (i - k) + 1 \in 1..(n - k) /\ k + ((i - k) + 1) = i + 1
      BY <1>0, <1>4, <2>4
    <3>2. v[i - k] = s[k + (i - k)] /\ v[(i - k) + 1] = s[k + ((i - k) + 1)]
      BY <1>0, <3>1
    <3>3. Follows(v[i - k].spec, v[(i - k) + 1].spec)
      BY <1>2, <3>1
    <3> QED BY <3>1, <3>2, <3>3
  <2>5. i < k - 1 \/ i = k - 1 \/ i = k \/ i > k
    BY <1>4
  <2> QED BY <2>1, <2>2, <2>3, <2>4, <2>5
<1>9. s[1] = u[1]
  <2>1. 1 \in 1..(k - 1)
    BY <1>4
  <2> QED BY <1>0, <2>1
<1>10. s[n] = v[Len(v)]
  <2>1. n - k \in 1..(n - k) /\ k + (n - k) = n
    BY <1>0, <1>4
  <2>2. v[n - k] = s[k + (n - k)]
    BY <1>0, <2>1
  <2> QED BY <1>0, <2>1, <2>2
<1>11. s # <<>> /\ n = Len(s)
  BY <1>0, <1>4 DEF n
<1>12. u = Before(s, k)
  BY DEF u
<1> QED BY <1>1, <1>2, <1>7, <1>8, <1>9, <1>10, <1>11, <1>12 DEF Regular

LEMMA MeasureRegular ==
    ASSUME NEW s \in Seq(TokenSet), s # <<>>, s[1].spec = "#", Regular(After(s, 1)), After(s, 1)[1].spec # "#"
    PROVE  Regular(s)
<1> DEFINE v == After(s, 1)
           n == Len(s)
<1>0. n \in Nat /\ Len(v) = n - 1 /\ \A i \in 1..(n - 1) : v[i] = s[1 + i]
  <2>1. n \in Nat /\ 1 \in 1..n
    OBVIOUS
  <2> QED BY <2>1, PartLengths
<1>2. /\ \A i \in 1..Len(v) : v[i].spec \in TableSymbols \ {"$"}
      /\ v[1].spec \in {"i", "("} /\ v[Len(v)].spec \in {"i", ")"}
      /\ \A i \in 1..(Len(v) - 1) : Follows(v[i].spec, v[i + 1].spec)
      /\ v # <<>> /\ v \in Seq(TokenSet)
  <2>1. v \in Seq(TokenSet)
    <3>1. 1 \in 1..n
      OBVIOUS
    <3> QED BY <3>1, PartLengths
  <2> QED BY <2>1 DEF Regular
<1> HIDE DEF v
<1>3. n > 1
  BY <1>0, <1>2
<1> HIDE DEF n
<1>4. "#" \in TableSymbols \ {"$"}
  BY TableSymbolsAre
<1>5. ASSUME NEW i \in 2..n PROVE i - 1 \in 1..Len(v) /\ v[i - 1] = s[i]
  <2>1. i - 1 \in 1..(n - 1) /\ 1 + (i - 1) = i
    BY <1>0
  <2>2. v[i - 1] = s[1 + (i - 1)]
    BY <1>0, <2>1
  <2> QED BY <1>0, <2>1, <2>2
<1>6. ASSUME NEW i \in 1..n PROVE s[i].spec \in TableSymbols \ {"$"}
  <2>1. i = 1 \/ i \in 2..n
    BY <1>0
  <2> QED BY <1>2, <1>4, <1>5, <2>1
<1>7. ASSUME NEW i \in 1..(n - 1) PROVE Follows(s[i].spec, s[i + 1].spec)
  <2>1. CASE i = 1
    <3>1. 1 \in 1..(n - 1) /\ 1 + 1 = i + 1
      BY <1>3, <2>1
    <3>2. v[1] = s[i + 1]
      BY <1>0, <3>1
    <3> QED BY <1>2, <2>1, <3>2 DEF Follows
  <2>2. CASE i # 1
    <3>1. i \in 2..n /\ i + 1 \in 2..n /\ i - 1 \in 1..(Len(v) - 1) /\ (i - 1) + 1 = i /\ (i + 1) - 1 = i
      BY <1>0, <2>2
    <3>2. v[i - 1] = s[i] /\ v[i] = s[i + 1]
      BY <1>5, <3>1
    <3>3. Follows(v[i - 1].spec, v[(i - 1) + 1].spec)
      BY <1>2, <3>1
    <3> QED BY <3>1, <3>2, <3>3
  <2> QED BY <2>1, <2>2
<1>8. s[n].spec \in {"i", ")"}
  <2>1. n \in 2..n /\ n - 1 = Len(v)
    BY <1>0, <1>3
  <2> QED BY <1>2, <1>5, <2>1
<1>9. n = Len(s)
  BY DEF n
<1> QED BY <1>6, <1>7, <1>8, <1>9 DEF Regular

LEMMA PhraseRegular ==
    \A s \in Seq(TokenSet), r \in Rules : Known(r, s) => RegularBy(r, s)
<1> DEFINE P == {x \in Phrases : RegularBy(x[1], x[2])}
<1>0. \A s \in Seq(TokenSet), r \in Rules : <<r, s>> \in P <=> RegularBy(r, s)
  BY DEF Phrases
<1>1. ASSUME NEW s \in Seq(TokenSet),
             \A w \in Seq(TokenSet), r \in Rules : Len(w) < Len(s) /\ Known(r, w) => RegularBy(r, w),
             NEW r \in Rules, Known(r, s)
      PROVE  RegularBy(r, s)
  <2>0. Len(s) \in Nat /\ {"primary", "concatenation", "operation", "expression"} = Rules
    BY DEF Rules
  <2>1. CASE Single(s)
    BY <2>1, SingleRegular DEF RegularBy
  <2>2. CASE Enclosed(s)
    <3>1. Len(s) > 2 /\ s[1].spec = "(" /\ s[Len(s)].spec = ")" /\ Known("expression", Inner(s))
      BY <2>2 DEF Enclosed
    <3>2. Inner(s) \in Seq(TokenSet) /\ Len(Inner(s)) < Len(s)
      <4>1. Inner(s) \in Seq(TokenSet) /\ Len(Inner(s)) = Len(s) - 2
        BY <2>0, <3>1, InnerLength
      <4> QED BY <2>0, <4>1
    <3>3. Regular(Inner(s))
      BY <1>1, <2>0, <3>1, <3>2 DEF RegularBy
    <3> QED BY <3>1, <3>3, EnclosedRegular DEF RegularBy
  <2>3. ASSUME r \in {"concatenation", "expression"}, NEW k, Concatenates(s, k) PROVE RegularBy(r, s)
    <3>1. k \in 1..Len(s) /\ s[k].spec = ".." /\ Known("primary", Before(s, k)) /\ Known("concatenation", After(s, k))
      BY <2>0, <2>3 DEF Concatenates
    <3>2. /\ Before(s, k) \in Seq(TokenSet) /\ Len(Before(s, k)) < Len(s)
          /\ After(s, k) \in Seq(TokenSet) /\ Len(After(s, k)) < Len(s)
      <4>1. /\ Before(s, k) \in Seq(TokenSet) /\ Len(Before(s, k)) = k - 1
            /\ After(s, k) \in Seq(TokenSet) /\ Len(After(s, k)) = Len(s) - k
        BY <3>1, PartLengths
      <4> QED BY <2>0, <3>1, <4>1
    <3>3. RegularBy("primary", Before(s, k)) /\ RegularBy("concatenation", After(s, k))
      BY <1>1, <2>0, <3>1, <3>2
    <3>4. s[k].spec \in BinaryOps
      BY <3>1, TableSymbolsAre
    <3>5. Regular(s) /\ s[1] = Before(s, k)[1]
      BY <3>1, <3>3, <3>4, SplitRegular DEF RegularBy
    <3> QED BY <3>3, <3>5 DEF RegularBy
  <2>4. ASSUME r \in {"operation", "expression"}, Measures(s) PROVE RegularBy(r, s)
    <3>1. s # <<>> /\ s[1].spec = "#" /\ Known("concatenation", After(s, 1))
      BY <2>4 DEF Measures
    <3>2. 1 \in 1..Len(s)
      BY <2>0, <3>1
    <3>3. After(s, 1) \in Seq(TokenSet) /\ Len(After(s, 1)) < Len(s)
      BY <2>0, <3>2, PartLengths
    <3>4. RegularBy("concatenation", After(s, 1))
      BY <1>1, <2>0, <3>1, <3>3
    <3>5. Regular(s)
      BY <3>1, <3>4, MeasureRegular DEF RegularBy
    <3> QED BY <2>4, <3>5 DEF RegularBy
  <2>5. ASSUME r \in {"operation", "expression"}, NEW k, Operates(s, k) PROVE RegularBy(r, s)
    <3>1. k \in 1..Len(s) /\ s[k].spec \in BinaryOps /\ s[k].spec # ".."
          /\ Known("operation", Before(s, k)) /\ Known("operation", After(s, k))
      BY <2>0, <2>5, TableSymbolsAre DEF Operates
    <3>2. /\ Before(s, k) \in Seq(TokenSet) /\ Len(Before(s, k)) < Len(s)
          /\ After(s, k) \in Seq(TokenSet) /\ Len(After(s, k)) < Len(s)
      <4>1. /\ Before(s, k) \in Seq(TokenSet) /\ Len(Before(s, k)) = k - 1
            /\ After(s, k) \in Seq(TokenSet) /\ Len(After(s, k)) = Len(s) - k
        BY <3>1, PartLengths
      <4> QED BY <2>0, <3>1, <4>1
    <3>3. Regular(Before(s, k)) /\ Regular(After(s, k))
      BY <1>1, <2>0, <3>1, <3>2 DEF RegularBy
    <3>4. Regular(s)
      BY <3>1, <3>3, SplitRegular
    <3> QED BY <2>5, <3>4 DEF RegularBy
  <2> QED BY <1>1, <2>1, <2>2, <2>3, <2>4, <2>5, ReadingCases
<1> HIDE DEF P
<1>2. \A s \in Seq(TokenSet) :
          (\A w \in Seq(TokenSet), r \in Rules : Len(w) < Len(s) /\ Known(r, w) => <<r, w>> \in P)
          => \A r \in Rules : Known(r, s) => <<r, s>> \in P
  BY <1>0, <1>1
<1>3. \A s \in Seq(TokenSet), r \in Rules : Known(r, s) => <<r, s>> \in P
  BY <1>2, PhraseInduction
<1> QED BY <1>0, <1>3

(* A concatenation and another operator with only operands between them. *)
Clash(s, p, q) ==
    /\ p \in 1..Len(s) /\ q \in 1..Len(s) /\ p < q /\ Depth(s, p) = Depth(s, q)
    /\ (s[p].spec \in Infix /\ s[q].spec = "..") \/ (s[p].spec = ".." /\ s[q].spec \in Infix)
    /\ \A i \in (p + 1)..(q - 1) :
          Depth(s, i) >= Depth(s, p) /\ ~(Depth(s, i) = Depth(s, p) /\ s[i].spec \in Ops)

LEMMA SingleNoClash ==
    ASSUME NEW s \in Seq(TokenSet), Single(s), NEW p, NEW q
    PROVE  ~Clash(s, p, q)
BY DEF Single, Clash

LEMMA EnclosedClash ==
    ASSUME NEW s \in Seq(TokenSet), Len(s) > 2, s[1].spec = "(", s[Len(s)].spec = ")",
           NEW p, NEW q, Clash(s, p, q)
    PROVE  Clash(Inner(s), p - 1, q - 1)
<1> DEFINE v == Inner(s)
<1>0. Len(s) \in Nat /\ Len(v) = Len(s) - 2 /\ \A i \in 1..(Len(s) - 2) : v[i] = s[i + 1]
  BY InnerLength
<1>1. \A i \in 1..(Len(s) - 1) : Depth(s, i + 1) = Depth(v, i) + 1
  BY InnerDepths
<1> HIDE DEF v
<1>2. /\ p \in 1..Len(s) /\ q \in 1..Len(s) /\ p < q /\ Depth(s, p) = Depth(s, q)
      /\ (s[p].spec \in Infix /\ s[q].spec = "..") \/ (s[p].spec = ".." /\ s[q].spec \in Infix)
      /\ \A i \in (p + 1)..(q - 1) :
            Depth(s, i) >= Depth(s, p) /\ ~(Depth(s, i) = Depth(s, p) /\ s[i].spec \in Ops)
  BY DEF Clash
<1>3. "(" \notin Infix /\ ")" \notin Infix
  BY TableSymbolsAre
<1>4. p # 1 /\ q # Len(s)
  BY <1>2, <1>3
<1>5. ASSUME NEW i \in 2..(Len(s) - 1)
      PROVE  /\ i - 1 \in 1..Len(v) /\ v[i - 1] = s[i]
             /\ Depth(v, i - 1) \in Int /\ Depth(s, i) = Depth(v, i - 1) + 1
  <2>1. i - 1 \in 1..(Len(s) - 1) /\ i - 1 \in 1..(Len(s) - 2) /\ (i - 1) + 1 = i /\ i - 1 \in Nat \ {0}
    BY <1>0
  <2>2. v[i - 1] = s[(i - 1) + 1] /\ Depth(s, (i - 1) + 1) = Depth(v, i - 1) + 1
    BY <1>0, <1>1, <2>1
  <2>3. Depth(v, i - 1) \in Int
    BY <2>1, DepthNext
  <2> QED BY <1>0, <2>1, <2>2, <2>3
<1>6. p \in 2..(Len(s) - 1) /\ q \in 2..(Len(s) - 1)
  BY <1>0, <1>2, <1>4
<1>7. p - 1 < q - 1 /\ Depth(v, p - 1) = Depth(v, q - 1)
  <2>1. Depth(v, p - 1) + 1 = Depth(v, q - 1) + 1
    BY <1>2, <1>5, <1>6
  <2> QED BY <1>2, <1>5, <1>6, <2>1
<1>8. ASSUME NEW i \in ((p - 1) + 1)..((q - 1) - 1)
      PROVE  Depth(v, i) >= Depth(v, p - 1) /\ ~(Depth(v, i) = Depth(v, p - 1) /\ v[i].spec \in Ops)
  <2>1. PICK j \in 2..(Len(s) - 1) : j = i + 1
    BY <1>6
  <2>2. j \in (p + 1)..(q - 1) /\ j - 1 = i
    BY <1>6, <2>1
  <2>3. v[i] = s[j] /\ Depth(v, i) \in Int /\ Depth(s, j) = Depth(v, i) + 1
    BY <1>5, <2>2
  <2>4. Depth(s, p) = Depth(v, p - 1) + 1 /\ Depth(v, p - 1) \in Int
    BY <1>5, <1>6
  <2>5. Depth(s, j) >= Depth(s, p) /\ ~(Depth(s, j) = Depth(s, p) /\ s[j].spec \in Ops)
    BY <1>2, <2>2
  <2> QED BY <2>3, <2>4, <2>5
<1>9. v[p - 1] = s[p] /\ v[q - 1] = s[q] /\ p - 1 \in 1..Len(v) /\ q - 1 \in 1..Len(v)
  BY <1>5, <1>6
<1>10. Clash(v, p - 1, q - 1)
  BY <1>2, <1>7, <1>8, <1>9 DEF Clash
<1> QED BY <1>10 DEF v

LEMMA SplitClash ==
    ASSUME NEW s \in Seq(TokenSet), NEW k \in 1..Len(s), s[k].spec \in Ops,
           Closed(Before(s, k)), Closed(After(s, k)), NEW p, NEW q, Clash(s, p, q)
    PROVE  \/ Clash(Before(s, k), p, q)
           \/ Clash(After(s, k), p - k, q - k)
           \/ p = k /\ TopOp(s, q) /\ \A i \in (k + 1)..(q - 1) : ~TopOp(s, i)
           \/ q = k /\ TopOp(s, p)
<1> DEFINE u == Before(s, k)
           v == After(s, k)
           n == Len(s)
<1>0. /\ n \in Nat /\ Len(u) = k - 1 /\ Len(v) = n - k
      /\ \A i \in 1..(k - 1) : u[i] = s[i]
      /\ \A i \in 1..(n - k) : v[i] = s[k + i]
  <2>1. n \in Nat
    OBVIOUS
  <2> QED BY <2>1, PartLengths
<1>1. /\ Depth(s, k) = 0
      /\ \A i \in 1..k : Depth(s, i) = Depth(u, i)
      /\ \A i \in 1..(n - k + 1) : Depth(s, k + i) = Depth(v, i)
  BY SplitDepths
<1>2. /\ p \in 1..n /\ q \in 1..n /\ p < q /\ Depth(s, p) = Depth(s, q)
      /\ (s[p].spec \in Infix /\ s[q].spec = "..") \/ (s[p].spec = ".." /\ s[q].spec \in Infix)
      /\ \A i \in (p + 1)..(q - 1) :
            Depth(s, i) >= Depth(s, p) /\ ~(Depth(s, i) = Depth(s, p) /\ s[i].spec \in Ops)
  BY DEF Clash
<1>3. \A i \in 1..(n + 1) : Depth(s, i) \in Int /\ Depth(s, i) >= 0
  <2>1. Closed(s)
    BY SplitClosed
  <2>2. \A i \in 1..(n + 1) : i \in Nat \ {0}
    BY <1>0
  <2> QED BY <2>1, <2>2, DepthNext DEF Closed
<1>4. s[p].spec \in Ops /\ s[q].spec \in Ops
  BY <1>2, Symbols
<1> HIDE DEF u, v
<1>5. CASE q < k
  <2>1. p \in 1..Len(u) /\ q \in 1..Len(u) /\ u[p] = s[p] /\ u[q] = s[q]
        /\ Depth(u, p) = Depth(s, p) /\ Depth(u, q) = Depth(s, q)
    <3>1. p \in 1..(k - 1) /\ q \in 1..(k - 1) /\ p \in 1..k /\ q \in 1..k
      BY <1>2, <1>5
    <3> QED BY <1>0, <1>1, <3>1
  <2>2. ASSUME NEW i \in (p + 1)..(q - 1)
        PROVE  Depth(u, i) >= Depth(u, p) /\ ~(Depth(u, i) = Depth(u, p) /\ u[i].spec \in Ops)
    <3>1. i \in 1..(k - 1) /\ i \in 1..k
      BY <1>2, <1>5
    <3>2. u[i] = s[i] /\ Depth(u, i) = Depth(s, i)
      BY <1>0, <1>1, <3>1
    <3> QED BY <1>2, <2>1, <3>2
  <2>3. Clash(u, p, q)
    BY <1>2, <2>1, <2>2 DEF Clash
  <2> QED BY <2>3 DEF u
<1>6. CASE p > k
  <2>1. ASSUME NEW i \in (k + 1)..n
        PROVE  i - k \in 1..Len(v) /\ v[i - k] = s[i] /\ Depth(v, i - k) = Depth(s, i)
    <3>1. i - k \in 1..(n - k) /\ i - k \in 1..(n - k + 1) /\ k + (i - k) = i
      BY <1>0
    <3>2. v[i - k] = s[k + (i - k)] /\ Depth(s, k + (i - k)) = Depth(v, i - k)
      BY <1>0, <1>1, <3>1
    <3> QED BY <1>0, <3>1, <3>2
  <2>2. p \in (k + 1)..n /\ q \in (k + 1)..n /\ p - k < q - k
    BY <1>0, <1>2, <1>6
  <2>3. ASSUME NEW i \in ((p - k) + 1)..((q - k) - 1)
        PROVE  Depth(v, i) >= Depth(v, p - k) /\ ~(Depth(v, i) = Depth(v, p - k) /\ v[i].spec \in Ops)
    <3>1. PICK j \in (k + 1)..n : j = i + k
      BY <2>2
    <3>2. j \in (p + 1)..(q - 1) /\ j - k = i
      BY <2>2, <3>1
    <3>3. v[i] = s[j] /\ Depth(v, i) = Depth(s, j)
      BY <2>1, <3>2
    <3>4. Depth(v, p - k) = Depth(s, p)
      BY <2>1, <2>2
    <3>5. Depth(s, j) >= Depth(s, p) /\ ~(Depth(s, j) = Depth(s, p) /\ s[j].spec \in Ops)
      BY <1>2, <3>2
    <3> QED BY <3>3, <3>4, <3>5
  <2>4. /\ p - k \in 1..Len(v) /\ v[p - k] = s[p] /\ Depth(v, p - k) = Depth(s, p)
        /\ q - k \in 1..Len(v) /\ v[q - k] = s[q] /\ Depth(v, q - k) = Depth(s, q)
    BY <2>1, <2>2
  <2>5. Clash(v, p - k, q - k)
    BY <1>2, <2>2, <2>3, <2>4 DEF Clash
  <2> QED BY <2>5 DEF v
<1>7. CASE p < k /\ k < q
  <2>1. k \in (p + 1)..(q - 1) /\ p \in 1..(n + 1)
    BY <1>0, <1>2, <1>7
  <2>2. Depth(s, k) >= Depth(s, p) /\ Depth(s, k) # Depth(s, p)
    BY <1>2, <2>1
  <2> QED BY <1>1, <1>3, <2>1, <2>2
<1>8. CASE p = k
  <2>1. TopOp(s, q)
    BY <1>1, <1>2, <1>4, <1>8 DEF TopOp
  <2>2. ASSUME NEW i \in (k + 1)..(q - 1) PROVE ~TopOp(s, i)
    BY <1>1, <1>2, <1>8 DEF TopOp
  <2> QED BY <1>8, <2>1, <2>2
<1>9. CASE q = k
  <2>1. TopOp(s, p)
    BY <1>1, <1>2, <1>4, <1>9 DEF TopOp
  <2> QED BY <1>9, <2>1
<1>10. q < k \/ p > k \/ (p < k /\ k < q) \/ p = k \/ q = k
  BY <1>2
<1> QED BY <1>5, <1>6, <1>7, <1>8, <1>9, <1>10

(* In an operation an operator comes before the first concatenation. *)
LEMMA DotsComeLater ==
    ASSUME NEW s \in Seq(TokenSet), Known("operation", s), NEW q, TopOp(s, q), s[q].spec = ".."
    PROVE  \E i \in 1..(q - 1) : TopOp(s, i)
<1>0. Len(s) \in Nat /\ q \in 1..Len(s) /\ Depth(s, q) = 0 /\ "operation" \in Rules /\ "primary" \in Rules
  BY DEF TopOp, Rules
<1>1. CASE Known("primary", s)
  <2>1. Flat(s)
    BY <1>0, <1>1, PhraseBalanced DEF Balanced
  <2> QED BY <2>1 DEF Flat
<1>2. CASE Measures(s)
  <2>1. s # <<>> /\ s[1].spec = "#"
    BY <1>2 DEF Measures
  <2>2. TopOp(s, 1)
    BY <1>0, <2>1, DepthFirst, Symbols DEF TopOp
  <2>3. q # 1
    BY <2>1
  <2>4. 1 \in 1..(q - 1)
    BY <1>0, <2>3
  <2> QED BY <2>2, <2>4
<1>3. ASSUME NEW k, Operates(s, k) PROVE \E i \in 1..(q - 1) : TopOp(s, i)
  <2>1. /\ k \in 2..(Len(s) - 1) /\ s[k].spec \in Infix /\ Depth(s, k) = 0 /\ Dots(Before(s, k)) = {}
        /\ Known("operation", Before(s, k))
    BY <1>3 DEF Operates
  <2>2. k \in 1..Len(s) /\ s[k].spec \in Ops /\ s[k].spec # ".." /\ k - 1 \in Nat
    BY <1>0, <2>1, Symbols
  <2>3. TopOp(s, k)
    BY <2>1, <2>2 DEF TopOp
  <2>4. q # k
    BY <2>2
  <2>5. ~(q < k)
    <3> SUFFICES ASSUME q < k PROVE FALSE
      OBVIOUS
    <3> DEFINE u == Before(s, k)
    <3>1. u \in Seq(TokenSet) /\ Len(u) = k - 1 /\ \A i \in 1..(k - 1) : u[i] = s[i]
      BY <2>2, PartLengths
    <3>2. Regular(u) /\ Closed(u)
      BY <1>0, <2>1, <3>1, PhraseRegular, PhraseBalanced DEF RegularBy, Balanced
    <3>3. Depth(u, q) = 0
      <4>1. q \in 1..k
        BY <1>0, <2>2
      <4> QED BY <1>0, <2>2, <3>2, <4>1, SplitDepths
    <3>4. q \in 1..(k - 1)
      BY <1>0, <2>2
    <3>5. u[q].spec = ".."
      BY <3>1, <3>4
    <3>6. u[1].spec # ".." /\ u[Len(u)].spec # ".."
      BY <3>2 DEF Regular
    <3> HIDE DEF u
    <3>7. q # 1 /\ q # Len(u)
      BY <3>5, <3>6
    <3>8. q \in 2..(Len(u) - 1)
      BY <2>2, <3>1, <3>4, <3>7
    <3>9. q \in Dots(u)
      BY <3>3, <3>5, <3>8 DEF Dots, TopLevel
    <3> QED BY <2>1, <3>9 DEF u
  <2>6. k \in 1..(q - 1)
    BY <1>0, <2>2, <2>4, <2>5
  <2> QED BY <2>3, <2>6
<1> QED BY <1>1, <1>2, <1>3, ReadingOperation

LEMMA NoClashes ==
    \A s \in Seq(TokenSet), r \in Rules : Known(r, s) => \A p, q : ~Clash(s, p, q)
<1> DEFINE P == {x \in Phrases : \A p, q : ~Clash(x[2], p, q)}
<1>0. \A s \in Seq(TokenSet), r \in Rules : <<r, s>> \in P <=> \A p, q : ~Clash(s, p, q)
  BY DEF Phrases
<1>1. ASSUME NEW s \in Seq(TokenSet),
             \A w \in Seq(TokenSet), r \in Rules :
                 Len(w) < Len(s) /\ Known(r, w) => \A p, q : ~Clash(w, p, q),
             NEW r \in Rules, Known(r, s), NEW p, NEW q, Clash(s, p, q)
      PROVE  FALSE
  <2>0. Len(s) \in Nat /\ {"primary", "concatenation", "operation", "expression"} = Rules
    BY DEF Rules
  <2>c. /\ p \in 1..Len(s) /\ q \in 1..Len(s) /\ p < q
        /\ (s[p].spec \in Infix /\ s[q].spec = "..") \/ (s[p].spec = ".." /\ s[q].spec \in Infix)
    BY <1>1 DEF Clash
  <2>1. CASE Single(s)
    BY <1>1, <2>1, SingleNoClash
  <2>2. CASE Enclosed(s)
    <3>1. Len(s) > 2 /\ s[1].spec = "(" /\ s[Len(s)].spec = ")" /\ Known("expression", Inner(s))
      BY <2>2 DEF Enclosed
    <3>2. Inner(s) \in Seq(TokenSet) /\ Len(Inner(s)) < Len(s)
      <4>1. Inner(s) \in Seq(TokenSet) /\ Len(Inner(s)) = Len(s) - 2
        BY <2>0, <3>1, InnerLength
      <4> QED BY <2>0, <4>1
    <3>3. Clash(Inner(s), p - 1, q - 1)
      BY <1>1, <3>1, EnclosedClash
    <3> QED BY <1>1, <2>0, <3>1, <3>2, <3>3
  <2>3. ASSUME NEW k, Concatenates(s, k) PROVE FALSE
    <3>1. k \in 1..Len(s) /\ s[k].spec = ".." /\ Known("primary", Before(s, k)) /\ Known("concatenation", After(s, k))
      BY <2>0, <2>3 DEF Concatenates
    <3>2. /\ Before(s, k) \in Seq(TokenSet) /\ Len(Before(s, k)) < Len(s)
          /\ After(s, k) \in Seq(TokenSet) /\ Len(After(s, k)) < Len(s)
      <4>1. /\ Before(s, k) \in Seq(TokenSet) /\ Len(Before(s, k)) = k - 1
            /\ After(s, k) \in Seq(TokenSet) /\ Len(After(s, k)) = Len(s) - k
        BY <3>1, PartLengths
      <4> QED BY <2>0, <3>1, <4>1
    <3>3. Balanced("primary", Before(s, k)) /\ Balanced("concatenation", After(s, k))
      BY <2>0, <3>1, <3>2, PhraseBalanced
    <3>4. /\ Closed(Before(s, k)) /\ Flat(Before(s, k))
          /\ Closed(After(s, k)) /\ \A i : TopOp(After(s, k), i) => After(s, k)[i].spec = ".."
      BY <3>3 DEF Balanced
    <3>5. s[k].spec \in Ops
      BY <3>1, Symbols
    <3>6. ~Clash(Before(s, k), p, q) /\ ~Clash(After(s, k), p - k, q - k)
      BY <1>1, <2>0, <3>1, <3>2
    <3>7. CASE p = k /\ TopOp(s, q)
      <4>1. q \in Int /\ q > k
        BY <2>0, <2>c, <3>7
      <4>2. TopOp(After(s, k), q - k)
        BY <3>1, <3>4, <3>5, <3>7, <4>1, SplitOps
      <4>3. After(s, k)[q - k].spec = ".."
        BY <3>4, <4>2
      <4>4. q - k \in 1..(Len(s) - k) /\ k + (q - k) = q
        BY <2>0, <2>c, <3>1, <4>1
      <4>5. After(s, k)[q - k] = s[k + (q - k)]
        BY <3>1, <4>4, PartLengths
      <4>6. s[q].spec = ".."
        BY <4>3, <4>4, <4>5
      <4> QED BY <2>c, <3>1, <3>7, <4>6, Symbols
    <3>8. CASE q = k /\ TopOp(s, p)
      <4>1. p < k
        BY <2>c, <3>8
      <4>2. TopOp(Before(s, k), p)
        BY <3>1, <3>4, <3>5, <3>8, <4>1, SplitOps
      <4> QED BY <3>4, <4>2 DEF Flat
    <3> QED BY <1>1, <3>1, <3>4, <3>5, <3>6, <3>7, <3>8, SplitClash
  <2>4. CASE Measures(s)
    <3>1. s # <<>> /\ s[1].spec = "#" /\ Known("concatenation", After(s, 1))
      BY <2>4 DEF Measures
    <3>2. 1 \in 1..Len(s) /\ Closed(Before(s, 1)) /\ Len(Before(s, 1)) = 0 /\ "#" \in Ops
      BY <3>1, EmptyBefore, Symbols
    <3>3. After(s, 1) \in Seq(TokenSet) /\ Len(After(s, 1)) < Len(s)
      BY <2>0, <3>2, PartLengths
    <3>4. Closed(After(s, 1))
      BY <2>0, <3>1, <3>3, PhraseBalanced DEF Balanced
    <3>5. PICK k \in 1..Len(s) : k = 1
      BY <3>2
    <3>6. p # k /\ q # k
      BY <2>c, <3>1, <3>5, Symbols
    <3>7. ~Clash(After(s, k), p - k, q - k)
      BY <1>1, <2>0, <3>1, <3>3, <3>5
    <3>8. ~Clash(Before(s, k), p, q)
      BY <3>2, <3>5 DEF Clash
    <3>9. s[k].spec \in Ops /\ Closed(Before(s, k)) /\ Closed(After(s, k))
      BY <3>1, <3>2, <3>4, <3>5
    <3> QED BY <1>1, <3>6, <3>7, <3>8, <3>9, SplitClash
  <2>5. ASSUME NEW k, Operates(s, k) PROVE FALSE
    <3>1. k \in 1..Len(s) /\ s[k].spec \in Infix /\ s[k].spec \in Ops /\ Dots(Before(s, k)) = {}
          /\ Known("operation", Before(s, k)) /\ Known("operation", After(s, k))
      BY <2>0, <2>5, Symbols DEF Operates
    <3>2. /\ Before(s, k) \in Seq(TokenSet) /\ Len(Before(s, k)) < Len(s) /\ Len(Before(s, k)) = k - 1
          /\ After(s, k) \in Seq(TokenSet) /\ Len(After(s, k)) < Len(s)
      <4>1. /\ Before(s, k) \in Seq(TokenSet) /\ Len(Before(s, k)) = k - 1
            /\ After(s, k) \in Seq(TokenSet) /\ Len(After(s, k)) = Len(s) - k
        BY <3>1, PartLengths
      <4> QED BY <2>0, <3>1, <4>1
    <3>3. Closed(Before(s, k)) /\ Closed(After(s, k)) /\ Regular(Before(s, k))
      BY <2>0, <3>1, <3>2, PhraseBalanced, PhraseRegular DEF Balanced, RegularBy
    <3>4. ~Clash(Before(s, k), p, q) /\ ~Clash(After(s, k), p - k, q - k)
      BY <1>1, <2>0, <3>1, <3>2
    <3>5. CASE p = k /\ TopOp(s, q) /\ \A i \in (k + 1)..(q - 1) : ~TopOp(s, i)
      <4>1. q \in Int /\ q > k /\ s[q].spec = ".."
        BY <2>0, <2>c, <3>1, <3>5, Symbols
      <4>2. TopOp(After(s, k), q - k)
        BY <3>1, <3>3, <3>5, <4>1, SplitOps
      <4>4. q - k \in 1..(Len(s) - k) /\ k + (q - k) = q
        BY <2>0, <2>c, <3>1, <4>1
      <4>5. After(s, k)[q - k] = s[k + (q - k)]
        BY <3>1, <4>4, PartLengths
      <4>6. After(s, k)[q - k].spec = ".."
        BY <4>1, <4>4, <4>5
      <4>7. PICK i \in 1..((q - k) - 1) : TopOp(After(s, k), i)
        BY <3>1, <3>2, <4>2, <4>6, DotsComeLater
      <4>8. TopOp(s, k + i)
        BY <3>1, <3>3, <4>7, SplitOps
      <4>9. k + i \in (k + 1)..(q - 1)
        BY <2>0, <3>1, <4>1, <4>7
      <4> QED BY <3>5, <4>8, <4>9
    <3>6. CASE q = k /\ TopOp(s, p)
      <4> DEFINE u == Before(s, k)
      <4>1. p < k /\ s[p].spec = ".." /\ p \in 1..(k - 1)
        BY <2>0, <2>c, <3>1, <3>6, Symbols
      <4>2. TopOp(u, p)
        BY <3>1, <3>3, <3>6, <4>1, SplitOps
      <4>3. u[p].spec = ".."
        BY <3>1, <4>1, PartLengths
      <4>4. u[1].spec # ".." /\ u[Len(u)].spec # ".." /\ Len(u) = k - 1
        BY <3>2, <3>3 DEF Regular
      <4> HIDE DEF u
      <4>5. p # 1 /\ p # Len(u)
        BY <4>3, <4>4
      <4>6. p \in 2..(Len(u) - 1)
        BY <3>1, <4>1, <4>4, <4>5
      <4>7. p \in Dots(u)
        BY <4>2, <4>3, <4>6 DEF Dots, TopLevel, TopOp
      <4> QED BY <3>1, <4>7 DEF u
    <3> QED BY <1>1, <3>1, <3>3, <3>4, <3>5, <3>6, SplitClash
  <2> QED BY <1>1, <2>1, <2>2, <2>3, <2>4, <2>5, ReadingCases
<1> HIDE DEF P
<1>2. \A s \in Seq(TokenSet) :
          (\A w \in Seq(TokenSet), r \in Rules : Len(w) < Len(s) /\ Known(r, w) => <<r, w>> \in P)
          => \A r \in Rules : Known(r, s) => <<r, s>> \in P
  BY <1>0, <1>1
<1>3. \A s \in Seq(TokenSet), r \in Rules : Known(r, s) => <<r, s>> \in P
  BY <1>2, PhraseInduction
<1> QED BY <1>0, <1>3
=============================================================================

-------------------------- MODULE ExprCorrect_proofs --------------------------
(***************************************************************************)
(* The precedence automaton against the reference definitions, for every   *)
(* tape: what is on its stack stands for the tokens already read, and what *)
(* it has listed is their postfix form.                                    *)
(***************************************************************************)
EXTENDS ExprCorrect, ExprContract_proofs, ExprReference_proofs

-----------------------------------------------------------------------------
(* Parts of the tape and of the postfix list.                               *)

(* The elements of q from position a up to, not including, position b.      *)
Part(q, a, b) == SubSeq(q, a, b - 1)

LEMMA PartIs ==
    ASSUME NEW q \in Seq(TokenSet), NEW a \in Nat \ {0}, NEW b \in Nat, a <= b, b <= Len(q) + 1
    PROVE  /\ Part(q, a, b) \in Seq(TokenSet) /\ Len(Part(q, a, b)) = b - a
           /\ \A i \in 1..(b - a) : Part(q, a, b)[i] = q[a + i - 1]
<1>0. Len(q) \in Nat /\ \A i \in 1..Len(q) : q[i] \in TokenSet
  OBVIOUS
<1>1. PICK m \in Int, n \in Int : m = a /\ n = b - 1
  OBVIOUS
<1>2. \A i \in m..n : q[i] \in TokenSet
  BY <1>0, <1>1
<1>3. /\ SubSeq(q, m, n) \in Seq(TokenSet) /\ Len(SubSeq(q, m, n)) = IF m <= n THEN n - m + 1 ELSE 0
      /\ \A i \in 1..(n - m + 1) : SubSeq(q, m, n)[i] = q[m + i - 1]
  BY <1>2, SubSeqProperties
<1>4. Part(q, a, b) = SubSeq(q, m, n)
  BY <1>1 DEF Part
<1> QED BY <1>1, <1>3, <1>4

LEMMA SameParts ==
    ASSUME NEW s \in Seq(TokenSet), NEW q \in Seq(TokenSet), NEW a \in Nat \ {0}, NEW b \in Nat,
           a <= b, b <= Len(q) + 1, Len(s) = b - a, \A i \in 1..(b - a) : s[i] = q[a + i - 1]
    PROVE  s = Part(q, a, b)
<1>1. /\ Part(q, a, b) \in Seq(TokenSet) /\ Len(Part(q, a, b)) = b - a
      /\ \A i \in 1..(b - a) : Part(q, a, b)[i] = q[a + i - 1]
  BY PartIs
<1> DEFINE t == Part(q, a, b)
<1> HIDE DEF t
<1>2. t \in Seq(TokenSet) /\ Len(t) = Len(s) /\ \A i \in 1..Len(s) : s[i] = t[i]
  BY <1>1 DEF t
<1>3. s = t
  BY <1>2, SeqEqual
<1> QED BY <1>3 DEF t

LEMMA PartSplit ==
    ASSUME NEW q \in Seq(TokenSet), NEW a \in Nat \ {0}, NEW k \in Nat, NEW b \in Nat,
           a <= k, k < b, b <= Len(q) + 1, NEW s, s = Part(q, a, b), NEW j, j = k - a + 1
    PROVE  /\ s \in Seq(TokenSet) /\ j \in 1..Len(s) /\ s[j] = q[k]
           /\ Before(s, j) = Part(q, a, k) /\ After(s, j) = Part(q, k + 1, b)
<1>1. /\ s \in Seq(TokenSet) /\ Len(s) = b - a
      /\ \A i \in 1..(b - a) : s[i] = q[a + i - 1]
  <2>1. a <= b
    OBVIOUS
  <2> QED BY <2>1, PartIs
<1>2. Len(q) \in Nat /\ j \in 1..(b - a) /\ a + j - 1 = k /\ j \in Nat
  OBVIOUS
<1>3. j \in 1..Len(s) /\ s[j] = q[k]
  <2>1. s[j] = q[a + j - 1]
    BY <1>1, <1>2
  <2> QED BY <1>1, <1>2, <2>1
<1>4. /\ Before(s, j) \in Seq(TokenSet) /\ Len(Before(s, j)) = j - 1
      /\ After(s, j) \in Seq(TokenSet) /\ Len(After(s, j)) = Len(s) - j
      /\ \A i \in 1..(j - 1) : Before(s, j)[i] = s[i]
      /\ \A i \in 1..(Len(s) - j) : After(s, j)[i] = s[j + i]
  BY <1>1, <1>3, PartLengths
<1>5. Before(s, j) = Part(q, a, k)
  <2>1. j - 1 = k - a /\ k <= Len(q) + 1
    BY <1>2
  <2>2. \A i \in 1..(k - a) : i \in 1..(j - 1) /\ i \in 1..(b - a)
    BY <1>2
  <2>3. \A i \in 1..(k - a) : Before(s, j)[i] = q[a + i - 1]
    BY <1>1, <1>4, <2>2
  <2>4. Len(Before(s, j)) = k - a /\ a <= k /\ k \in Nat
    BY <1>4, <2>1
  <2> HIDE DEF Before
  <2> QED BY <1>4, <2>1, <2>3, <2>4, SameParts
<1>6. After(s, j) = Part(q, k + 1, b)
  <2>0. PICK f \in Nat \ {0} : f = k + 1
    OBVIOUS
  <2>1. Len(s) - j = b - f /\ f <= b
    BY <1>1, <1>2, <2>0
  <2>2. ASSUME NEW i \in 1..(b - f) PROVE After(s, j)[i] = q[f + i - 1]
    <3>1. i \in 1..(Len(s) - j) /\ j + i \in 1..(b - a) /\ a + (j + i) - 1 = f + i - 1
      BY <1>1, <1>2, <2>0
    <3>2. s[j + i] = q[a + (j + i) - 1]
      BY <1>1, <3>1
    <3> QED BY <1>4, <3>1, <3>2
  <2>3. Len(After(s, j)) = b - f
    BY <1>4, <2>1
  <2> HIDE DEF After
  <2>4. After(s, j) = Part(q, f, b)
    BY <1>4, <2>1, <2>2, <2>3, SameParts
  <2> QED BY <2>0, <2>4
<1> QED BY <1>1, <1>3, <1>5, <1>6

LEMMA PartInner ==
    ASSUME NEW q \in Seq(TokenSet), NEW a \in Nat \ {0}, NEW b \in Nat, a + 1 < b, b <= Len(q) + 1
    PROVE  Inner(Part(q, a, b)) = Part(q, a + 1, b - 1)
<1> DEFINE s == Part(q, a, b)
<1>1. /\ s \in Seq(TokenSet) /\ Len(s) = b - a
      /\ \A i \in 1..(b - a) : s[i] = q[a + i - 1]
  <2>1. a <= b
    OBVIOUS
  <2> QED BY <2>1, PartIs
<1>0. Len(s) \in Nat /\ Len(s) > 1
  BY <1>1
<1> HIDE DEF s
<1>2. Inner(s) \in Seq(TokenSet) /\ Len(Inner(s)) = Len(s) - 2 /\ \A i \in 1..(Len(s) - 2) : Inner(s)[i] = s[i + 1]
  BY <1>0, <1>1, InnerLength
<1>3. PICK f \in Nat \ {0}, g \in Nat : f = a + 1 /\ g = b - 1
  OBVIOUS
<1>4. f <= g /\ g <= Len(q) + 1 /\ Len(Inner(s)) = g - f
  BY <1>1, <1>2, <1>3
<1>5. ASSUME NEW i \in 1..(g - f) PROVE Inner(s)[i] = q[f + i - 1]
  <2>1. i \in 1..(Len(s) - 2) /\ i + 1 \in 1..(b - a) /\ a + (i + 1) - 1 = f + i - 1
    BY <1>1, <1>3
  <2>2. s[i + 1] = q[a + (i + 1) - 1]
    BY <1>1, <2>1
  <2> QED BY <1>2, <2>1, <2>2
<1>6. Inner(s) = Part(q, f, g)
  BY <1>2, <1>4, <1>5, SameParts
<1> QED BY <1>3, <1>6 DEF s

LEMMA PartJoin ==
    ASSUME NEW q \in Seq(TokenSet), NEW a \in Nat \ {0}, NEW b \in Nat \ {0}, NEW c \in Nat,
           a <= b, b <= c, c <= Len(q) + 1
    PROVE  Part(q, a, b) \o Part(q, b, c) = Part(q, a, c)
<1> DEFINE u == Part(q, a, b)
           v == Part(q, b, c)
<1>1. /\ u \in Seq(TokenSet) /\ Len(u) = b - a /\ \A i \in 1..(b - a) : u[i] = q[a + i - 1]
      /\ v \in Seq(TokenSet) /\ Len(v) = c - b /\ \A i \in 1..(c - b) : v[i] = q[b + i - 1]
  <2>1. b <= Len(q) + 1
    OBVIOUS
  <2> QED BY <2>1, PartIs
<1> HIDE DEF u, v
<1>0. Len(u) \in Nat /\ Len(v) \in Nat /\ a <= c
  BY <1>1
<1>20. /\ u \o v \in Seq(TokenSet) /\ Len(u \o v) = Len(u) + Len(v)
       /\ \A i \in 1..(Len(u) + Len(v)) : (u \o v)[i] = IF i <= Len(u) THEN u[i] ELSE v[i - Len(u)]
  BY <1>1, ConcatProperties
<1>2. u \o v \in Seq(TokenSet) /\ Len(u \o v) = c - a
  BY <1>1, <1>20
<1>3. ASSUME NEW i \in 1..(c - a) PROVE (u \o v)[i] = q[a + i - 1]
  <2>1. CASE i <= b - a
    <3>1. i \in 1..(b - a) /\ i \in 1..(Len(u) + Len(v)) /\ i <= Len(u)
      BY <1>1, <2>1
    <3>2. (u \o v)[i] = u[i]
      BY <1>20, <3>1
    <3> QED BY <1>1, <3>1, <3>2
  <2>2. CASE i > b - a
    <3>1. i - (b - a) \in 1..(c - b) /\ b + (i - (b - a)) - 1 = a + i - 1
      BY <2>2
    <3>2. (u \o v)[i] = v[i - (b - a)]
      BY <1>1, <1>20, <2>2
    <3>3. PICK k \in 1..(c - b) : k = i - (b - a)
      BY <3>1
    <3>4. v[k] = q[b + k - 1]
      BY <1>1
    <3> QED BY <3>1, <3>2, <3>3, <3>4
  <2>3. i \in Int /\ b - a \in Int
    OBVIOUS
  <2>4. i <= b - a \/ i > b - a
    BY <2>3
  <2> QED BY <2>1, <2>2, <2>4, Zenon
<1> DEFINE w == u \o v
<1>4. w \in Seq(TokenSet) /\ Len(w) = c - a /\ \A i \in 1..(c - a) : w[i] = q[a + i - 1]
  BY <1>2, <1>3
<1> HIDE DEF w
<1>5. w = Part(q, a, c)
  BY <1>0, <1>4, SameParts
<1> QED BY <1>5 DEF u, v, w

LEMMA PartKept ==
    ASSUME NEW q \in Seq(TokenSet), NEW w \in Seq(TokenSet), NEW a \in Nat \ {0}, NEW b \in Nat,
           a <= b, b <= Len(q) + 1
    PROVE  Part(q \o w, a, b) = Part(q, a, b)
<1> DEFINE x == q \o w
           s == Part(x, a, b)
<1>1. x \in Seq(TokenSet) /\ Len(x) = Len(q) + Len(w) /\ \A i \in 1..Len(q) : x[i] = q[i]
  OBVIOUS
<1>2. Len(q) \in Nat /\ Len(w) \in Nat
  OBVIOUS
<1> HIDE DEF x
<1>3. /\ s \in Seq(TokenSet) /\ Len(s) = b - a
      /\ \A i \in 1..(b - a) : s[i] = x[a + i - 1]
  <2>1. b <= Len(x) + 1
    BY <1>1, <1>2
  <2> QED BY <1>1, <2>1, PartIs
<1> HIDE DEF s
<1>4. ASSUME NEW i \in 1..(b - a) PROVE s[i] = q[a + i - 1]
  <2>1. a + i - 1 \in 1..Len(q)
    BY <1>2
  <2> QED BY <1>1, <1>3, <2>1
<1>5. s = Part(q, a, b)
  BY <1>3, <1>4, SameParts
<1> QED BY <1>5 DEF s, x

LEMMA PartWhole ==
    ASSUME NEW q \in Seq(TokenSet)
    PROVE  Part(q, 1, Len(q) + 1) = q
<1>1. PICK a \in Nat \ {0}, b \in Nat : a = 1 /\ b = Len(q) + 1
  OBVIOUS
<1>2. a <= b /\ b <= Len(q) + 1 /\ Len(q) = b - a /\ \A i \in 1..(b - a) : q[i] = q[a + i - 1]
  BY <1>1
<1>3. q = Part(q, a, b)
  BY <1>2, SameParts
<1> QED BY <1>1, <1>3

LEMMA PartNone ==
    ASSUME NEW q \in Seq(TokenSet), NEW a \in Nat \ {0}, a <= Len(q) + 1
    PROVE  Part(q, a, a) = <<>>
<1>1. Part(q, a, a) \in Seq(TokenSet) /\ Len(Part(q, a, a)) = 0
  BY PartIs
<1> QED BY <1>1

(* The last element of a part, and a part that the list ends with.          *)
LEMMA PartLast ==
    ASSUME NEW q \in Seq(TokenSet), NEW t \in TokenSet, NEW a \in Nat \ {0}, a <= Len(q) + 1
    PROVE  Part(q \o <<t>>, a, Len(q \o <<t>>) + 1) = Part(q, a, Len(q) + 1) \o <<t>>
<1> DEFINE x == q \o <<t>>
<1>1. x \in Seq(TokenSet) /\ Len(x) = Len(q) + 1 /\ x[Len(q) + 1] = t /\ Len(q) \in Nat /\ <<t>> \in Seq(TokenSet)
  OBVIOUS
<1>2. PICK b \in Nat \ {0}, c \in Nat \ {0} : b = Len(q) + 1 /\ c = Len(q) + 2
  BY <1>1
<1>3. Part(x, a, b) = Part(q, a, b)
  <2>1. PICK d \in Seq(TokenSet) : d = <<t>>
    BY <1>1
  <2>2. a <= b /\ b <= Len(q) + 1
    BY <1>2
  <2>3. Part(q \o d, a, b) = Part(q, a, b)
    BY <2>2, PartKept
  <2> QED BY <2>1, <2>3
<1> HIDE DEF x
<1>4. Part(x, a, b) \o Part(x, b, c) = Part(x, a, c)
  <2>1. a <= b /\ b <= c /\ c <= Len(x) + 1
    BY <1>1, <1>2
  <2> QED BY <1>1, <2>1, PartJoin
<1>5. Part(x, b, c) = <<t>>
  <2> DEFINE s == <<t>>
  <2>1. s \in Seq(TokenSet) /\ Len(s) = 1 /\ s[1] = t
    OBVIOUS
  <2> HIDE DEF s
  <2>2. c - b = 1 /\ b + 1 - 1 = b /\ x[b] = t
    BY <1>1, <1>2
  <2>3. \A i \in 1..(c - b) : s[i] = x[b + i - 1]
    BY <2>1, <2>2
  <2>4. s = Part(x, b, c)
    <3>1. b \in Nat \ {0} /\ c \in Nat /\ b <= c /\ c <= Len(x) + 1 /\ Len(s) = c - b
      BY <1>1, <1>2, <2>1, <2>2
    <3>2. x \in Seq(TokenSet) /\ s \in Seq(TokenSet)
      BY <1>1, <2>1
    <3> QED BY <2>3, <3>1, <3>2, SameParts
  <2> QED BY <2>4 DEF s
<1>6. Len(x) + 1 = c
  BY <1>1, <1>2
<1> QED BY <1>2, <1>3, <1>4, <1>5, <1>6 DEF x

-----------------------------------------------------------------------------
(* What the table says of the operators of a phrase.                        *)

(* The rule by which the automaton reads what lies on row r. *)
Phrase(r) ==
    IF r \in {"(", "$"} THEN "expression" ELSE IF r \in {"..", "#"} THEN "concatenation" ELSE "operation"

LEMMA OperatorCases ==
    /\ Ops = AddOps \cup MulOps \cup RelOps \cup {"..", "#"}
    /\ BinaryOps = AddOps \cup MulOps \cup RelOps \cup {".."}
    /\ Infix = AddOps \cup MulOps \cup RelOps
    /\ AddOps \cap MulOps = {} /\ AddOps \cap RelOps = {} /\ MulOps \cap RelOps = {}
    /\ \A x \in {"..", "#", "i", "(", ")", "$", "none"} :
          x \notin AddOps /\ x \notin MulOps /\ x \notin RelOps
BY DEF Ops, BinaryOps, Infix, AddOps, MulOps, RelOps

LEMMA ShiftsAre ==
    ASSUME NEW r
    PROVE  /\ r \in AddOps => Shifts(r) = MulOps \cup {"#", "i", "("}
           /\ r \in MulOps => Shifts(r) = {"#", "i", "("}
           /\ r \in RelOps => Shifts(r) = AddOps \cup MulOps \cup {"#", "i", "("}
           /\ r \in {"..", "#"} => Shifts(r) = {"..", "i", "("}
           /\ r \in {"(", "$"} => Shifts(r) = BinaryOps \cup {"#", "i", "("}
           /\ r \notin Ops \cup {"(", "$"} => Shifts(r) = {}
BY OperatorCases DEF Shifts

LEMMA ReducesAre ==
    ASSUME NEW r
    PROVE  /\ r \in AddOps => Reduces(r) = AddOps \cup RelOps \cup {")", "$"}
           /\ r \in MulOps \cup {"#"} => Reduces(r) = AddOps \cup MulOps \cup RelOps \cup {")", "$"}
           /\ r \in RelOps => Reduces(r) = RelOps \cup {")", "$"}
           /\ r = ".." => Reduces(r) = {")", "$"}
BY OperatorCases DEF Reduces

(* An operator that is shifted brings along only operators that its row has, *)
(* apart from the concatenations in the operand of "#".                      *)
LEMMA ShiftsWithin ==
    ASSUME NEW r, NEW c \in Ops, c \in Shifts(r), NEW o \in Ops, o \in Shifts(c)
    PROVE  o \in Shifts(r) \cup {".."}
BY OperatorCases, ShiftsAre

(* What reduces an operator reduces the tighter ones before it. *)
LEMMA ReducesWithin ==
    ASSUME NEW o \in Ops, NEW k \in BinaryOps, k \in Reduces(o), NEW c, c \in Reduces(k)
    PROVE  c \in Reduces(o)
BY OperatorCases, ReducesAre

LEMMA TighterBefore ==
    ASSUME NEW o \in Ops, NEW k, k \in Reduces(o)
    PROVE  k # ".." /\ (k \in Infix => o \notin Looser(k) \cup {".."})
BY OperatorCases, ReducesAre DEF Looser

LEMMA TighterAfter ==
    ASSUME NEW k \in Infix, NEW o, o \in Shifts(k) \cup {".."}
    PROVE  o \notin Looser(k) \cup AsTight(k)
BY OperatorCases, ShiftsAre DEF Looser, AsTight

LEMMA PhraseOfRow ==
    ASSUME NEW r
    PROVE  /\ Phrase(r) \in Rules
           /\ \A c \in Infix \cup {"#"} : c \in Shifts(r) => Phrase(r) \in {"operation", "expression"}
           /\ ".." \in Shifts(r) => Phrase(r) \in {"concatenation", "expression"}
           /\ \A c \in Infix : Phrase(c) = "operation"
           /\ Phrase("..") = "concatenation" /\ Phrase("#") = "concatenation"
           /\ Phrase("(") = "expression" /\ Phrase("$") = "expression"
<1>1. Phrase(r) \in Rules
  BY DEF Phrase, Rules
<1>2. \A c \in Infix \cup {"#"} : c \in Shifts(r) => r \notin {"..", "#"}
  BY OperatorCases, ShiftsAre
<1>3. ".." \in Shifts(r) => r \in {"..", "#", "(", "$"}
  BY OperatorCases, ShiftsAre
<1> QED BY <1>1, <1>2, <1>3, OperatorCases DEF Phrase

-----------------------------------------------------------------------------
(* The chart: what the elements of the stack stand for.                     *)

(* s may lie on the operator r in front of c: it is read by the rule of that *)
(* row, r shifts each of its operators and c reduces it.                     *)
Covers(r, c, s, p) ==
    /\ Yields(Phrase(r), s, p) /\ Closed(s)
    /\ TopSyms(s) \subseteq Shifts(r) \cup {".."}
    /\ \A o \in TopSyms(s) : c \in Reduces(o)

(* The element t, between r and z, stands for the tokens a to b of q, and   *)
(* for their postfix form, lo to hi of w.                                    *)
Stand(t, r, z, q, w, a, b, lo, hi) ==
    /\ t.spec \in {"$", "MARK"} => b = a /\ hi = lo
    /\ t.spec \notin {"$", "MARK", "E"} => b = a + 1 /\ hi = lo /\ t = q[a]
    /\ t.spec = "E" => Covers(r, z, Part(q, a, b), Part(w, lo, hi))

(* The terminal under element j, and what follows it. *)
Row(s, j) == IF s[j - 1].spec = "MARK" THEN s[j - 2].spec ELSE s[j - 1].spec
Above(s, j, c) == IF j = Len(s) THEN c ELSE s[j + 1].spec

(* Where the tokens and the postfix form of each element begin. *)
Chart(s, c, q, w, e, at, out) ==
    /\ at \in [1..(Len(s) + 1) -> Nat \ {0}] /\ at[1] = 1 /\ at[Len(s) + 1] = e
    /\ out \in [1..(Len(s) + 1) -> Nat \ {0}] /\ out[1] = 1 /\ out[Len(s) + 1] = Len(w) + 1
    /\ \A j \in 1..Len(s) :
          /\ at[j] <= at[j + 1] /\ at[j + 1] <= e
          /\ out[j] <= out[j + 1] /\ out[j + 1] <= Len(w) + 1
          /\ Stand(s[j], Row(s, j), Above(s, j, c), q, w, at[j], at[j + 1], out[j], out[j + 1])

(* The symbol a mark was set for, under which it lies above its row. *)
Opened(s, j) == IF s[j + 1].spec = "E" THEN s[j + 2].spec ELSE s[j + 1].spec
Shifted(s) ==
    \A j \in 2..(Len(s) - 1) : s[j].spec = "MARK" => Opened(s, j) \in Shifts(s[j - 1].spec)

LEMMA StandKept ==
    ASSUME NEW t, NEW r, NEW z, NEW r2, NEW z2, NEW q, NEW w, NEW a, NEW b, NEW lo, NEW hi,
           Stand(t, r, z, q, w, a, b, lo, hi), t.spec = "E" => r2 = r /\ z2 = z
    PROVE  Stand(t, r2, z2, q, w, a, b, lo, hi)
BY DEF Stand

LEMMA StandListed ==
    ASSUME NEW t, NEW r, NEW z, NEW q, NEW w \in Seq(TokenSet), NEW x \in Seq(TokenSet), NEW a, NEW b,
           NEW lo \in Nat \ {0}, NEW hi \in Nat, lo <= hi, hi <= Len(w) + 1,
           Stand(t, r, z, q, w, a, b, lo, hi)
    PROVE  Stand(t, r, z, q, w \o x, a, b, lo, hi)
<1>1. Part(w \o x, lo, hi) = Part(w, lo, hi)
  BY PartKept
<1> QED BY <1>1 DEF Stand

LEMMA ShiftShifted ==
    ASSUME NEW s \in Seq(TokenSet), StackShape(s), Shifted(s), NEW t \in TokenSet
    PROVE  Shifted(Append(s, t))
<1> DEFINE n == Len(s)
           u == Append(s, t)
<1>1. /\ n \in Nat \ {0} /\ s[n].spec # "MARK" /\ (s[n].spec = "E" => s[n - 1].spec # "MARK")
      /\ Len(u) = n + 1 /\ \A k \in 1..n : u[k] = s[k]
  BY TopTerm DEF StackShape
<1> HIDE DEF n, u
<1>2. ASSUME NEW j \in 2..n, u[j].spec = "MARK" PROVE Opened(u, j) \in Shifts(u[j - 1].spec)
  <2>1. j < n
    BY <1>1, <1>2
  <2>2. j \in 2..(n - 1) /\ u[j] = s[j] /\ u[j - 1] = s[j - 1] /\ u[j + 1] = s[j + 1] /\ j \in 1..n
    BY <1>1, <2>1
  <2>3. Opened(s, j) \in Shifts(s[j - 1].spec)
    BY <1>2, <2>2 DEF Shifted, n
  <2>4. s[j + 1].spec = "E" => u[j + 2] = s[j + 2]
    <3> SUFFICES ASSUME s[j + 1].spec = "E" PROVE u[j + 2] = s[j + 2]
      OBVIOUS
    <3>1. j + 1 # n
      <4> SUFFICES ASSUME j + 1 = n PROVE FALSE
        OBVIOUS
      <4>1. s[n - 1].spec # "MARK" /\ n - 1 = j
        BY <1>1
      <4> QED BY <1>2, <2>2, <4>1
    <3>2. j + 2 \in 1..n
      BY <1>1, <2>1, <3>1
    <3> QED BY <1>1, <3>2
  <2> QED BY <2>2, <2>3, <2>4 DEF Opened
<1>3. Len(u) - 1 = n
  BY <1>1
<1>4. Shifted(u)
  BY <1>2, <1>3 DEF Shifted
<1> QED BY <1>4 DEF u

LEMMA MarkShifted ==
    ASSUME NEW s \in Seq(TokenSet), StackShape(s), Shifted(s), NEW t \in TokenSet,
           t.spec # "E", t.spec \in Shifts(stack_top_term(s).spec)
    PROVE  Shifted(Append(stack_mark(s), t))
<1> DEFINE n == Len(s)
           p == TopTermAt(s)
           u == Append(stack_mark(s), t)
<1>1. /\ n \in Nat \ {0} /\ p \in 1..n /\ p = IF s[n].spec = "E" THEN n - 1 ELSE n
      /\ s[p].spec \notin {"E", "MARK"} /\ t.spec \in Shifts(s[p].spec)
  BY TopTerm DEF stack_top_term
<1>2. /\ Len(u) = n + 2 /\ u[n + 2] = t /\ u[p + 1] = MarkToken
      /\ \A k \in 1..p : u[k] = s[k]
      /\ p < n => u[n + 1] = s[n]
  <2>1. /\ stack_mark(s) \in Seq(TokenSet) /\ Len(stack_mark(s)) = n + 1
        /\ \A k \in 1..p : stack_mark(s)[k] = s[k]
        /\ stack_mark(s)[p + 1] = MarkToken
        /\ p < n => stack_mark(s)[n + 1] = s[n]
    BY StackMark
  <2> HIDE DEF n, p
  <2>2. Len(u) = n + 2 /\ u[n + 2] = t /\ \A k \in 1..(n + 1) : u[k] = stack_mark(s)[k]
    BY <1>1, <2>1
  <2> HIDE DEF u
  <2>3. (\A k \in 1..p : k \in 1..(n + 1)) /\ p + 1 \in 1..(n + 1) /\ n + 1 \in 1..(n + 1)
    BY <1>1
  <2> QED BY <2>1, <2>2, <2>3
<1> HIDE DEF n, p, u
<1>3. ASSUME NEW j \in 2..(n + 1), u[j].spec = "MARK" PROVE Opened(u, j) \in Shifts(u[j - 1].spec)
  <2>1. CASE j < p
    <3>1. /\ j \in 2..(n - 1) /\ j \in 1..p /\ u[j] = s[j] /\ u[j - 1] = s[j - 1] /\ u[j + 1] = s[j + 1]
      BY <1>1, <1>2, <2>1
    <3>2. Opened(s, j) \in Shifts(s[j - 1].spec)
      BY <1>3, <3>1 DEF Shifted, n
    <3>3. s[j + 1].spec = "E" => u[j + 2] = s[j + 2]
      <4> SUFFICES ASSUME s[j + 1].spec = "E" PROVE u[j + 2] = s[j + 2]
        OBVIOUS
      <4>1. j + 1 # p
        BY <1>1
      <4>2. j + 2 \in 1..p
        BY <1>1, <2>1, <4>1
      <4> QED BY <1>2, <4>2
    <3> QED BY <3>1, <3>2, <3>3 DEF Opened
  <2>2. j # p
    BY <1>1, <1>2, <1>3
  <2>3. CASE j = p + 1
    <3>1. u[j - 1] = s[p]
      BY <1>1, <1>2, <2>3
    <3>2. Opened(u, j) = t.spec
      <4>1. CASE p = n
        <5>1. j + 1 = n + 2
          BY <1>1, <2>3, <4>1
        <5> QED BY <1>2, <5>1 DEF Opened
      <4>2. CASE p < n
        <5>1. j + 1 = n + 1 /\ j + 2 = n + 2 /\ s[n].spec = "E"
          BY <1>1, <2>3, <4>2
        <5> QED BY <1>2, <4>2, <5>1 DEF Opened
      <4> QED BY <1>1, <4>1, <4>2
    <3> QED BY <1>1, <3>1, <3>2
  <2>4. ~(j > p + 1)
    <3> SUFFICES ASSUME j > p + 1 PROVE FALSE
      OBVIOUS
    <3>1. j = n + 1 /\ p < n /\ s[n].spec = "E"
      BY <1>1
    <3> QED BY <1>2, <1>3, <3>1
  <2> QED BY <1>1, <2>1, <2>2, <2>3, <2>4
<1>4. Len(u) - 1 = n + 1
  BY <1>1, <1>2
<1>5. Shifted(u)
  BY <1>3, <1>4 DEF Shifted
<1> QED BY <1>5 DEF u

(* What lies under the mark of a handle. *)
LEMMA UnderMark ==
    ASSUME NEW s \in Seq(TokenSet), StackShape(s),
           stack_top_term(s).spec \in BinaryOps \cup {"#", "i", ")"}
    PROVE  LET m == MarkAt(s)
           IN /\ m \in 2..(Len(s) - 1) /\ Len(s) \in Nat /\ s[m].spec = "MARK"
              /\ s[m - 1].spec \in BinaryOps \cup {"#", "(", "$"}
              /\ s[m - 1].spec \notin {"E", "MARK"}
<1> DEFINE m == MarkAt(s)
<1>1. m \in 2..(Len(s) - 1) /\ s[m].spec = "MARK" /\ Len(s) \in Nat
  BY Marked, TopTerm
<1> HIDE DEF m
<1>2. m - 1 \in 1..(Len(s) - 1) /\ (m - 1) + 1 = m
  BY <1>1
<1>3. Adjacent(s[m - 1].spec, "MARK")
  BY <1>1, <1>2 DEF StackShape
<1>4. s[m - 1].spec \in BinaryOps \cup {"#", "(", "$"}
  BY <1>3, Alphabet DEF Adjacent
<1> QED BY <1>1, <1>4, Alphabet DEF m

LEMMA ReplacedIs ==
    ASSUME NEW s \in Seq(TokenSet), NEW t \in TokenSet, MarkAt(s) \in 2..(Len(s) - 1)
    PROVE  LET m == MarkAt(s)
               u == Replaced(s, t)
           IN u \in Seq(TokenSet) /\ Len(u) = m /\ u[m] = t /\ \A k \in 1..(m - 1) : u[k] = s[k]
BY DEF Replaced

LEMMA ReplacedShifted ==
    ASSUME NEW s \in Seq(TokenSet), StackShape(s), Shifted(s), NEW t \in TokenSet,
           stack_top_term(s).spec \in BinaryOps \cup {"#", "i", ")"}
    PROVE  Shifted(Replaced(s, t))
<1> DEFINE m == MarkAt(s)
           u == Replaced(s, t)
<1>1. m \in 2..(Len(s) - 1) /\ Len(s) \in Nat /\ s[m - 1].spec \notin {"E", "MARK"}
  BY UnderMark
<1>2. Len(u) = m /\ \A k \in 1..(m - 1) : u[k] = s[k]
  BY <1>1, ReplacedIs
<1> HIDE DEF m, u
<1>3. ASSUME NEW j \in 2..(m - 1), u[j].spec = "MARK" PROVE Opened(u, j) \in Shifts(u[j - 1].spec)
  <2>0. u[m - 1] = s[m - 1]
    BY <1>1, <1>2
  <2>1. j # m - 1
    BY <1>1, <1>3, <2>0
  <2>2. j + 1 \in 1..(m - 1) /\ j - 1 \in 1..(m - 1) /\ j \in 1..(m - 1) /\ j \in 2..(Len(s) - 1)
    BY <1>1, <2>1
  <2>3. u[j] = s[j] /\ u[j - 1] = s[j - 1] /\ u[j + 1] = s[j + 1]
    BY <1>2, <2>2
  <2>4. Opened(s, j) \in Shifts(s[j - 1].spec)
    BY <1>3, <2>2, <2>3 DEF Shifted
  <2>5. s[j + 1].spec = "E" => u[j + 2] = s[j + 2]
    <3> SUFFICES ASSUME s[j + 1].spec = "E" PROVE u[j + 2] = s[j + 2]
      OBVIOUS
    <3>1. j + 1 # m - 1
      BY <1>1
    <3>2. j + 2 \in 1..(m - 1)
      BY <1>1, <2>2, <3>1
    <3> QED BY <1>2, <3>2
  <2> QED BY <2>3, <2>4, <2>5 DEF Opened
<1>4. Shifted(u)
  BY <1>2, <1>3 DEF Shifted
<1> QED BY <1>4 DEF u

(* The elements from the bottom up to p stand for what they stood for when   *)
(* the stack above them changes and the list grows.                          *)
LEMMA LowerStand ==
    ASSUME NEW s \in Seq(TokenSet), s[1].spec = "$", NEW q, NEW w \in Seq(TokenSet), NEW x \in Seq(TokenSet),
           NEW c, NEW e, NEW at, NEW out, Chart(s, c, q, w, e, at, out),
           NEW u, Len(u) \in Nat, NEW p \in 1..Len(s), Len(u) > p, \A k \in 1..p : u[k] = s[k],
           s[p].spec = "E" => p = Len(s) /\ u[p + 1].spec = c,
           NEW c2, NEW j \in 1..p
    PROVE  Stand(u[j], Row(u, j), Above(u, j, c2), q, w \o x, at[j], at[j + 1], out[j], out[j + 1])
<1>1. j \in 1..Len(s) /\ Len(s) \in Nat /\ u[j] = s[j] /\ j # Len(u) /\ u[1] = s[1]
  OBVIOUS
<1>2. /\ out[j] <= out[j + 1] /\ out[j + 1] <= Len(w) + 1 /\ out[j] \in Nat \ {0} /\ out[j + 1] \in Nat
      /\ Stand(s[j], Row(s, j), Above(s, j, c), q, w, at[j], at[j + 1], out[j], out[j + 1])
  <2>1. j \in 1..(Len(s) + 1) /\ j + 1 \in 1..(Len(s) + 1)
    BY <1>1
  <2>2. out[j] \in Nat \ {0} /\ out[j + 1] \in Nat
    BY <2>1 DEF Chart
  <2> QED BY <1>1, <2>2 DEF Chart
<1>3. s[j].spec = "E" => Row(u, j) = Row(s, j)
  <2> SUFFICES ASSUME s[j].spec = "E" PROVE Row(u, j) = Row(s, j)
    OBVIOUS
  <2>1. j # 1
    OBVIOUS
  <2>2. j - 1 \in 1..p /\ u[j - 1] = s[j - 1]
    BY <2>1
  <2>3. j = 2 => s[j - 1].spec # "MARK"
    OBVIOUS
  <2>4. j # 2 => u[j - 2] = s[j - 2]
    <3>1. j # 2 => j - 2 \in 1..p
      BY <2>1
    <3> QED BY <3>1
  <2> QED BY <2>2, <2>3, <2>4 DEF Row
<1>4. s[j].spec = "E" => Above(u, j, c2) = Above(s, j, c)
  <2>1. CASE j = Len(s)
    BY <1>1, <2>1 DEF Above
  <2>2. CASE j # Len(s)
    <3> SUFFICES ASSUME s[j].spec = "E" PROVE Above(u, j, c2) = Above(s, j, c)
      OBVIOUS
    <3>1. j # p
      BY <2>2
    <3>2. j + 1 \in 1..p
      BY <3>1
    <3> QED BY <1>1, <2>2, <3>2 DEF Above
  <2> QED BY <2>1, <2>2
<1>5. Stand(s[j], Row(s, j), Above(s, j, c), q, w \o x, at[j], at[j + 1], out[j], out[j + 1])
  BY <1>2, StandListed
<1> QED BY <1>1, <1>3, <1>4, <1>5, StandKept

LEMMA ChartShift ==
    ASSUME NEW s \in Seq(TokenSet), s # <<>>, s[1].spec = "$",
           NEW q \in Seq(TokenSet), NEW w \in Seq(TokenSet),
           NEW e \in DOMAIN q, q[e].spec \notin {"$", "MARK", "E"},
           NEW at, NEW out, Chart(s, q[e].spec, q, w, e, at, out), NEW c
    PROVE  \E at2, out2 : Chart(Append(s, q[e]), c, q, w, e + 1, at2, out2)
<1> DEFINE n == Len(s)
           t == q[e]
           u == Append(s, t)
           at2 == [j \in 1..(n + 2) |-> IF j = n + 2 THEN e + 1 ELSE at[j]]
           out2 == [j \in 1..(n + 2) |-> IF j = n + 2 THEN out[n + 1] ELSE out[j]]
           K == Len(w) + 1
<1>1. /\ n \in Nat \ {0} /\ t \in TokenSet /\ t.spec \notin {"$", "MARK", "E"} /\ e \in Nat \ {0}
      /\ K \in Nat
  OBVIOUS
<1>2. Len(u) = n + 1 /\ u[n + 1] = t /\ \A k \in 1..n : u[k] = s[k]
  BY <1>1
<1>3. /\ at \in [1..(n + 1) -> Nat \ {0}] /\ at[1] = 1 /\ at[n + 1] = e
      /\ out \in [1..(n + 1) -> Nat \ {0}] /\ out[1] = 1 /\ out[n + 1] = K
      /\ \A j \in 1..n :
          /\ at[j] <= at[j + 1] /\ at[j + 1] <= e
          /\ out[j] <= out[j + 1] /\ out[j + 1] <= K
  BY DEF Chart
<1>4. /\ \A j \in 1..(n + 1) : at2[j] = at[j] /\ out2[j] = out[j]
      /\ at2[n + 2] = e + 1 /\ out2[n + 2] = K
  BY <1>1, <1>3
<1>5. at2 \in [1..(n + 2) -> Nat \ {0}] /\ out2 \in [1..(n + 2) -> Nat \ {0}]
  <2>1. \A j \in 1..(n + 2) : j # n + 2 => j \in 1..(n + 1)
    BY <1>1
  <2>2. n + 1 \in 1..(n + 1) /\ e + 1 \in Nat \ {0}
    BY <1>1
  <2> HIDE DEF n
  <2> QED BY <1>3, <2>1, <2>2
<1>6. \A j \in 1..n : Stand(u[j], Row(u, j), Above(u, j, c), q, w, at[j], at[j + 1], out[j], out[j + 1])
  <2>0. <<>> \in Seq(TokenSet)
    OBVIOUS
  <2>1. PICK x \in Seq(TokenSet) : x = <<>>
    BY <2>0, Zenon
  <2>2. w \o x = w
    BY <2>1
  <2>3. n \in 1..Len(s) /\ Len(u) \in Nat /\ Len(u) > n /\ u[n + 1].spec = q[e].spec
    BY <1>1, <1>2
  <2> HIDE DEF u
  <2>4. \A j \in 1..n : Stand(u[j], Row(u, j), Above(u, j, c), q, w \o x, at[j], at[j + 1], out[j], out[j + 1])
    BY <1>2, <2>3, LowerStand
  <2> QED BY <2>2, <2>4
<1> HIDE DEF n, u, at2, out2, K
<1>7. ASSUME NEW j \in 1..(n + 1)
      PROVE  /\ at2[j] <= at2[j + 1] /\ at2[j + 1] <= e + 1
             /\ out2[j] <= out2[j + 1] /\ out2[j + 1] <= K
             /\ Stand(u[j], Row(u, j), Above(u, j, c), q, w, at2[j], at2[j + 1], out2[j], out2[j + 1])
  <2>1. CASE j \in 1..n
    <3>1. j + 1 \in 1..(n + 1) /\ j \in 1..(n + 1)
      BY <1>1, <2>1
    <3>2. at2[j] = at[j] /\ at2[j + 1] = at[j + 1] /\ out2[j] = out[j] /\ out2[j + 1] = out[j + 1]
      BY <1>4, <3>1
    <3>3. at[j] <= at[j + 1] /\ at[j + 1] <= e + 1 /\ out[j] <= out[j + 1] /\ out[j + 1] <= K
      <4>1. at[j + 1] <= e /\ at[j + 1] \in Nat /\ e \in Nat
        BY <1>1, <1>3, <2>1, <3>1
      <4> QED BY <1>3, <2>1, <4>1
    <3> QED BY <1>6, <2>1, <3>2, <3>3
  <2>2. CASE j = n + 1
    <3>1. at2[j] = e /\ at2[j + 1] = e + 1 /\ out2[j] = K /\ out2[j + 1] = K
      <4>1. j + 1 = n + 2 /\ n + 1 \in 1..(n + 1)
        BY <1>1, <2>2
      <4> QED BY <1>3, <1>4, <2>2, <4>1
    <3>2. Stand(u[j], Row(u, j), Above(u, j, c), q, w, e, e + 1, K, K)
      BY <1>1, <1>2, <2>2 DEF Stand
    <3> QED BY <1>1, <3>1, <3>2
  <2>3. j \in 1..n \/ j = n + 1
    BY <1>1
  <2> QED BY <2>1, <2>2, <2>3
<1>8. Chart(u, c, q, w, e + 1, at2, out2)
  <2>1. Len(u) = n + 1 /\ (n + 1) + 1 = n + 2
    BY <1>1, <1>2
  <2>2. at2[1] = 1 /\ out2[1] = 1
    BY <1>1, <1>3, <1>4
  <2> QED BY <1>4, <1>5, <1>7, <2>1, <2>2 DEF Chart, K
<1> QED BY <1>8 DEF u

LEMMA ChartMark ==
    ASSUME NEW s \in Seq(TokenSet), StackShape(s),
           NEW q \in Seq(TokenSet), NEW w \in Seq(TokenSet),
           NEW e \in DOMAIN q, q[e].spec \notin {"$", "MARK", "E"},
           NEW at, NEW out, Chart(s, q[e].spec, q, w, e, at, out), NEW c
    PROVE  \E at2, out2 : Chart(Append(stack_mark(s), q[e]), c, q, w, e + 1, at2, out2)
<1> DEFINE n == Len(s)
           p == TopTermAt(s)
           t == q[e]
           u == Append(stack_mark(s), t)
           at2 == [j \in 1..(n + 3) |->
                      IF j <= p + 1 THEN at[j] ELSE IF j <= n + 2 THEN at[j - 1] ELSE e + 1]
           out2 == [j \in 1..(n + 3) |->
                      IF j <= p + 1 THEN out[j] ELSE IF j <= n + 2 THEN out[j - 1] ELSE out[n + 1]]
           K == Len(w) + 1
<1>1. /\ n \in Nat \ {0} /\ p \in 1..n /\ p = IF s[n].spec = "E" THEN n - 1 ELSE n
      /\ s[p].spec \notin {"E", "MARK"} /\ s[1].spec = "$"
      /\ t \in TokenSet /\ t.spec \notin {"$", "MARK", "E"} /\ e \in Nat \ {0} /\ K \in Nat
  BY TopTerm DEF stack_top_term, StackShape
<1>2. /\ Len(u) = n + 2 /\ u[n + 2] = t /\ u[p + 1] = MarkToken
      /\ \A k \in 1..p : u[k] = s[k]
      /\ p < n => u[n + 1] = s[n]
  <2>1. /\ stack_mark(s) \in Seq(TokenSet) /\ Len(stack_mark(s)) = n + 1
        /\ \A k \in 1..p : stack_mark(s)[k] = s[k]
        /\ stack_mark(s)[p + 1] = MarkToken
        /\ p < n => stack_mark(s)[n + 1] = s[n]
    BY StackMark
  <2> HIDE DEF n, p
  <2>2. Len(u) = n + 2 /\ u[n + 2] = t /\ \A k \in 1..(n + 1) : u[k] = stack_mark(s)[k]
    BY <1>1, <2>1
  <2> HIDE DEF u
  <2>3. (\A k \in 1..p : k \in 1..(n + 1)) /\ p + 1 \in 1..(n + 1) /\ n + 1 \in 1..(n + 1)
    BY <1>1
  <2> QED BY <2>1, <2>2, <2>3
<1>3. /\ at \in [1..(n + 1) -> Nat \ {0}] /\ at[1] = 1 /\ at[n + 1] = e
      /\ out \in [1..(n + 1) -> Nat \ {0}] /\ out[1] = 1 /\ out[n + 1] = K
      /\ \A j \in 1..n :
          /\ at[j] <= at[j + 1] /\ at[j + 1] <= e
          /\ out[j] <= out[j + 1] /\ out[j + 1] <= K
          /\ Stand(s[j], Row(s, j), Above(s, j, t.spec), q, w, at[j], at[j + 1], out[j], out[j + 1])
  BY DEF Chart
<1>6. \A j \in 1..p : Stand(u[j], Row(u, j), Above(u, j, c), q, w, at[j], at[j + 1], out[j], out[j + 1])
  <2>0. <<>> \in Seq(TokenSet)
    OBVIOUS
  <2>1. PICK x \in Seq(TokenSet) : x = <<>>
    BY <2>0, Zenon
  <2>2. w \o x = w
    BY <2>1
  <2>3. p \in 1..Len(s) /\ Len(u) \in Nat /\ Len(u) > p
    BY <1>1, <1>2
  <2> HIDE DEF u, p
  <2>4. \A j \in 1..p : Stand(u[j], Row(u, j), Above(u, j, c), q, w \o x, at[j], at[j + 1], out[j], out[j + 1])
    BY <1>1, <1>2, <2>3, LowerStand
  <2> QED BY <2>2, <2>4
<1> HIDE DEF n, p, u, K, t
<1>5. at2 \in [1..(n + 3) -> Nat \ {0}] /\ out2 \in [1..(n + 3) -> Nat \ {0}]
  <2>0. n \in Nat /\ p \in Nat /\ p <= n
    BY <1>1
  <2>1. ASSUME NEW j \in 1..(n + 3)
        PROVE  (j <= p + 1 => j \in 1..(n + 1)) /\ (~(j <= p + 1) /\ j <= n + 2 => j - 1 \in 1..(n + 1))
    <3>1. j \in Nat /\ j >= 1
      BY <2>0
    <3>2. j <= p + 1 => j \in 1..(n + 1)
      BY <2>0, <3>1
    <3>3. ~(j <= p + 1) /\ j <= n + 2 => j - 1 \in 1..(n + 1)
      BY <2>0, <3>1
    <3> QED BY <3>2, <3>3
  <2>2. n + 1 \in 1..(n + 1) /\ e + 1 \in Nat \ {0}
    BY <1>1
  <2> QED BY <1>3, <2>1, <2>2
<1>4. /\ \A j \in 1..(p + 1) : at2[j] = at[j] /\ out2[j] = out[j]
      /\ \A j \in (p + 2)..(n + 2) : at2[j] = at[j - 1] /\ out2[j] = out[j - 1]
      /\ at2[n + 3] = e + 1 /\ out2[n + 3] = K
  <2>1. \A j \in 1..(p + 1) : j \in 1..(n + 3)
    BY <1>1
  <2>2. \A j \in (p + 2)..(n + 2) : j \in 1..(n + 3) /\ ~(j <= p + 1) /\ j <= n + 2
    BY <1>1
  <2>3. n + 3 \in 1..(n + 3) /\ ~(n + 3 <= p + 1) /\ ~(n + 3 <= n + 2)
    BY <1>1
  <2> QED BY <1>3, <2>1, <2>2, <2>3
<1> HIDE DEF at2, out2
<1> DEFINE Lies(j) == /\ at2[j] <= at2[j + 1] /\ at2[j + 1] <= e + 1
                      /\ out2[j] <= out2[j + 1] /\ out2[j + 1] <= K
                      /\ Stand(u[j], Row(u, j), Above(u, j, c), q, w, at2[j], at2[j + 1], out2[j], out2[j + 1])
<1>7. \A j \in 1..(n + 1) : at[j] \in Nat /\ out[j] \in Nat /\ at[j] <= e + 1 /\ out[j] <= K
  <2> SUFFICES ASSUME NEW j \in 1..(n + 1) PROVE at[j] \in Nat /\ out[j] \in Nat /\ at[j] <= e + 1 /\ out[j] <= K
    OBVIOUS
  <2>0. at[j] \in Nat /\ out[j] \in Nat
    BY <1>3
  <2>1. CASE j = n + 1
    BY <1>1, <1>3, <2>1
  <2>2. CASE j # n + 1
    <3>1. j \in 1..n /\ j + 1 \in 1..(n + 1)
      BY <1>1, <2>2
    <3>2. at[j] <= at[j + 1] /\ at[j + 1] <= e /\ out[j] <= out[j + 1] /\ out[j + 1] <= K
          /\ at[j + 1] \in Nat /\ out[j + 1] \in Nat
      BY <1>3, <3>1
    <3>3. e \in Nat /\ K \in Nat
      BY <1>1
    <3> HIDE DEF K
    <3>4. at[j] <= e + 1
      BY <2>0, <3>2, <3>3
    <3>5. out[j] <= K
      BY <2>0, <3>2, <3>3
    <3> QED BY <2>0, <3>4, <3>5
  <2> QED BY <2>1, <2>2
<1>8. ASSUME NEW j \in 1..p PROVE Lies(j)
  <2>1. j + 1 \in 1..(p + 1) /\ j \in 1..(p + 1) /\ j \in 1..n /\ j + 1 \in 1..(n + 1)
    BY <1>1
  <2>2. at2[j] = at[j] /\ at2[j + 1] = at[j + 1] /\ out2[j] = out[j] /\ out2[j + 1] = out[j + 1]
    BY <1>4, <2>1
  <2>3. at[j] <= at[j + 1] /\ at[j + 1] <= e + 1 /\ out[j] <= out[j + 1] /\ out[j + 1] <= K
    BY <1>3, <1>7, <2>1
  <2> QED BY <1>6, <2>2, <2>3
<1>9. Lies(p + 1)
  <2>1. p + 1 \in 1..(p + 1) /\ (p + 1) + 1 \in (p + 2)..(n + 2) /\ ((p + 1) + 1) - 1 = p + 1
        /\ p + 1 \in 1..(n + 1)
    BY <1>1
  <2>2. at2[p + 1] = at[p + 1] /\ at2[(p + 1) + 1] = at[p + 1]
        /\ out2[p + 1] = out[p + 1] /\ out2[(p + 1) + 1] = out[p + 1]
    BY <1>4, <2>1
  <2>3. at[p + 1] <= at[p + 1] /\ at[p + 1] <= e + 1 /\ out[p + 1] <= out[p + 1] /\ out[p + 1] <= K
    BY <1>7, <2>1
  <2>4. u[p + 1].spec = "MARK"
    BY <1>2 DEF MarkToken
  <2>5. Stand(u[p + 1], Row(u, p + 1), Above(u, p + 1, c), q, w, at[p + 1], at[p + 1], out[p + 1], out[p + 1])
    BY <2>4 DEF Stand
  <2> QED BY <2>2, <2>3, <2>5
<1>10. ASSUME p < n PROVE Lies(n + 1)
  <2>1. /\ n + 1 \in (p + 2)..(n + 2) /\ (n + 1) + 1 \in (p + 2)..(n + 2) /\ p = n - 1 /\ s[n].spec = "E"
        /\ (n + 1) - 1 = n /\ ((n + 1) + 1) - 1 = n + 1 /\ n \in 1..n /\ n \in 1..(n + 1) /\ n + 1 \in 1..(n + 1)
        /\ n - 1 \in 1..p /\ p + 1 = n
    BY <1>1, <1>10
  <2>2. at2[n + 1] = at[n] /\ at2[(n + 1) + 1] = at[n + 1] /\ out2[n + 1] = out[n] /\ out2[(n + 1) + 1] = out[n + 1]
    BY <1>4, <2>1
  <2>3. /\ at[n] <= at[n + 1] /\ at[n + 1] <= e + 1 /\ out[n] <= out[n + 1] /\ out[n + 1] <= K
        /\ Stand(s[n], Row(s, n), Above(s, n, t.spec), q, w, at[n], at[n + 1], out[n], out[n + 1])
    BY <1>3, <1>7, <2>1
  <2>4. Row(s, n) = s[p].spec
    BY <1>1, <2>1 DEF Row
  <2>5. Row(u, n + 1) = s[p].spec
    <3>1. u[n].spec = "MARK" /\ u[n - 1] = s[n - 1] /\ (n + 1) - 1 = n /\ (n + 1) - 2 = n - 1
      BY <1>1, <1>2, <2>1 DEF MarkToken
    <3> QED BY <2>1, <3>1 DEF Row
  <2>6. Above(s, n, t.spec) = t.spec /\ Above(u, n + 1, c) = t.spec /\ u[n + 1] = s[n]
    <3>1. n + 1 # Len(u) /\ (n + 1) + 1 = n + 2
      BY <1>1, <1>2
    <3> QED BY <1>2, <1>10, <3>1 DEF Above, n
  <2>7. Stand(u[n + 1], Row(u, n + 1), Above(u, n + 1, c), q, w, at[n], at[n + 1], out[n], out[n + 1])
    BY <2>3, <2>4, <2>5, <2>6
  <2> QED BY <2>2, <2>3, <2>7
<1>11. Lies(n + 2)
  <2>1. n + 2 \in (p + 2)..(n + 2) /\ (n + 2) - 1 = n + 1 /\ (n + 2) + 1 = n + 3
    BY <1>1
  <2>2. at2[n + 2] = e /\ at2[(n + 2) + 1] = e + 1 /\ out2[n + 2] = K /\ out2[(n + 2) + 1] = K
    BY <1>3, <1>4, <2>1
  <2>3. Stand(u[n + 2], Row(u, n + 2), Above(u, n + 2, c), q, w, e, e + 1, K, K)
    BY <1>1, <1>2 DEF Stand, t
  <2> QED BY <1>1, <2>2, <2>3
<1>12. ASSUME NEW j \in 1..(n + 2) PROVE Lies(j)
  <2>1. j \in 1..p \/ j = p + 1 \/ (p < n /\ j = n + 1) \/ j = n + 2
    BY <1>1
  <2> HIDE DEF Lies
  <2> QED BY <1>8, <1>9, <1>10, <1>11, <2>1
<1>13. Chart(u, c, q, w, e + 1, at2, out2)
  <2>1. Len(u) = n + 2 /\ (n + 2) + 1 = n + 3
    BY <1>1, <1>2
  <2>2. at2[1] = 1 /\ out2[1] = 1
    <3>1. 1 \in 1..(p + 1)
      BY <1>1
    <3> QED BY <1>3, <1>4, <3>1
  <2> QED BY <1>4, <1>5, <1>12, <2>1, <2>2 DEF Chart, K
<1> QED BY <1>13 DEF u, t

LEMMA ChartReplaced ==
    ASSUME NEW s \in Seq(TokenSet), StackShape(s),
           stack_top_term(s).spec \in BinaryOps \cup {"#", "i", ")"},
           NEW q \in Seq(TokenSet), NEW w \in Seq(TokenSet), NEW x \in Seq(TokenSet),
           NEW e \in Nat, NEW c, NEW at, NEW out, Chart(s, c, q, w, e, at, out),
           NEW t \in TokenSet, t.spec = "E",
           Covers(s[MarkAt(s) - 1].spec, c, Part(q, at[MarkAt(s)], e), Part(w \o x, out[MarkAt(s)], Len(w \o x) + 1))
    PROVE  \E at2, out2 : Chart(Replaced(s, t), c, q, w \o x, e, at2, out2)
<1> DEFINE n == Len(s)
           m == MarkAt(s)
           u == Replaced(s, t)
           y == w \o x
           K == Len(y) + 1
           at2 == [j \in 1..(m + 1) |-> IF j = m + 1 THEN e ELSE at[j]]
           out2 == [j \in 1..(m + 1) |-> IF j = m + 1 THEN K ELSE out[j]]
<1>1. m \in 2..(n - 1) /\ n \in Nat /\ s[m - 1].spec \notin {"E", "MARK"} /\ s[1].spec = "$"
  BY UnderMark DEF StackShape
<1>2. Len(u) = m /\ u[m] = t /\ \A k \in 1..(m - 1) : u[k] = s[k]
  BY <1>1, ReplacedIs
<1>0. y \in Seq(TokenSet) /\ Len(y) = Len(w) + Len(x) /\ Len(w) \in Nat /\ Len(x) \in Nat
  OBVIOUS
<1> HIDE DEF y
<1>20. K \in Nat \ {0} /\ Len(w) + 1 <= K
  BY <1>0
<1>3. /\ at \in [1..(n + 1) -> Nat \ {0}] /\ at[1] = 1
      /\ out \in [1..(n + 1) -> Nat \ {0}] /\ out[1] = 1
      /\ \A j \in 1..n :
          /\ at[j] <= at[j + 1] /\ at[j + 1] <= e
          /\ out[j] <= out[j + 1] /\ out[j + 1] <= Len(w) + 1
  BY DEF Chart
<1>30. e \in Nat \ {0}
  <2>1. at[n + 1] = e /\ n + 1 \in 1..(n + 1)
    BY <1>1 DEF Chart
  <2> QED BY <1>3, <2>1
<1>6. \A j \in 1..(m - 1) : Stand(u[j], Row(u, j), Above(u, j, c), q, y, at[j], at[j + 1], out[j], out[j + 1])
  <2>3. m - 1 \in 1..Len(s) /\ Len(u) \in Nat /\ Len(u) > m - 1
    BY <1>1, <1>2
  <2> HIDE DEF u, m
  <2>4. PICK p \in 1..Len(s) : p = m - 1
    BY <2>3
  <2>6. s[p].spec # "E" /\ Len(u) > p /\ \A k \in 1..p : u[k] = s[k]
    BY <1>1, <1>2, <2>3, <2>4
  <2>5. \A j \in 1..p : Stand(u[j], Row(u, j), Above(u, j, c), q, w \o x, at[j], at[j + 1], out[j], out[j + 1])
    BY <1>1, <2>3, <2>6, LowerStand
  <2> QED BY <2>4, <2>5 DEF y
<1>21. Covers(s[m - 1].spec, c, Part(q, at[m], e), Part(y, out[m], K))
  BY DEF y
<1> HIDE DEF n, m, u, K
<1>5. at2 \in [1..(m + 1) -> Nat \ {0}] /\ out2 \in [1..(m + 1) -> Nat \ {0}]
  <2>1. \A j \in 1..(m + 1) : j \in 1..(n + 1)
    BY <1>1
  <2> QED BY <1>3, <1>20, <1>30, <2>1
<1>4. /\ \A j \in 1..m : at2[j] = at[j] /\ out2[j] = out[j]
      /\ at2[m + 1] = e /\ out2[m + 1] = K
  BY <1>1
<1> HIDE DEF at2, out2
<1> DEFINE Lies(j) == /\ at2[j] <= at2[j + 1] /\ at2[j + 1] <= e
                      /\ out2[j] <= out2[j + 1] /\ out2[j + 1] <= K
                      /\ Stand(u[j], Row(u, j), Above(u, j, c), q, y, at2[j], at2[j + 1], out2[j], out2[j + 1])
<1>8. ASSUME NEW j \in 1..(m - 1) PROVE Lies(j)
  <2>1. j + 1 \in 1..m /\ j \in 1..m /\ j \in 1..n /\ j + 1 \in 1..(n + 1)
    BY <1>1
  <2>2. at2[j] = at[j] /\ at2[j + 1] = at[j + 1] /\ out2[j] = out[j] /\ out2[j + 1] = out[j + 1]
    BY <1>4, <2>1
  <2>3. at[j] <= at[j + 1] /\ at[j + 1] <= e /\ out[j] <= out[j + 1] /\ out[j + 1] <= K
    <3>1. at[j] <= at[j + 1] /\ at[j + 1] <= e /\ out[j] <= out[j + 1] /\ out[j + 1] <= Len(w) + 1 /\ out[j + 1] \in Nat
      BY <1>3, <2>1
    <3> QED BY <1>0, <1>20, <3>1
  <2> QED BY <1>6, <2>2, <2>3
<1>9. Lies(m)
  <2>1. at2[m] = at[m] /\ at2[m + 1] = e /\ out2[m] = out[m] /\ out2[m + 1] = K
    BY <1>1, <1>4
  <2>2. at[m] <= e /\ out[m] <= K
    <3>1. m \in 1..n /\ m + 1 \in 1..(n + 1) /\ m \in 1..(n + 1)
      BY <1>1
    <3>2. /\ at[m] <= at[m + 1] /\ at[m + 1] <= e /\ out[m] <= out[m + 1] /\ out[m + 1] <= Len(w) + 1
          /\ at[m] \in Nat /\ at[m + 1] \in Nat /\ out[m] \in Nat /\ out[m + 1] \in Nat
      BY <1>3, <3>1
    <3> QED BY <1>0, <1>20, <3>2
  <2>3. Row(u, m) = s[m - 1].spec
    <3>1. u[m - 1] = s[m - 1]
      BY <1>1, <1>2
    <3> QED BY <1>1, <3>1 DEF Row
  <2>4. Above(u, m, c) = c
    BY <1>2 DEF Above
  <2>5. Stand(u[m], Row(u, m), Above(u, m, c), q, y, at[m], e, out[m], K)
    BY <1>2, <1>21, <2>3, <2>4 DEF Stand
  <2> QED BY <1>20, <1>30, <2>1, <2>2, <2>5
<1>12. ASSUME NEW j \in 1..m PROVE Lies(j)
  <2>1. j \in 1..(m - 1) \/ j = m
    BY <1>1
  <2> HIDE DEF Lies
  <2> QED BY <1>8, <1>9, <2>1
<1>13. Chart(u, c, q, y, e, at2, out2)
  <2>2. at2[1] = 1 /\ out2[1] = 1
    <3>1. 1 \in 1..m
      BY <1>1
    <3> QED BY <1>3, <1>4, <3>1
  <2> QED BY <1>2, <1>4, <1>5, <1>12, <2>2 DEF Chart, K
<1> QED BY <1>13 DEF u, y

-----------------------------------------------------------------------------
(* What each rule makes of the parts its handle stands for.                 *)

LEMMA PartOne ==
    ASSUME NEW q \in Seq(TokenSet), NEW a \in 1..Len(q)
    PROVE  Part(q, a, a + 1) = <<q[a]>>
<1>1. a \in Nat \ {0} /\ Len(q) \in Nat /\ a <= Len(q) /\ q[a] \in TokenSet
  OBVIOUS
<1>2. PICK b \in Nat : b = a + 1
  BY <1>1
<1> DEFINE s == <<q[a]>>
<1>3. s \in Seq(TokenSet) /\ Len(s) = 1 /\ s[1] = q[a]
  BY <1>1
<1> HIDE DEF s
<1>4. a <= b /\ b <= Len(q) + 1 /\ Len(s) = b - a
  BY <1>1, <1>2, <1>3
<1>5. ASSUME NEW i \in 1..(b - a) PROVE s[i] = q[a + i - 1]
  <2>1. i = 1 /\ a + i - 1 = a
    BY <1>1, <1>2
  <2> QED BY <1>3, <2>1
<1>6. s = Part(q, a, b)
  BY <1>1, <1>3, <1>4, <1>5, SameParts
<1> QED BY <1>2, <1>6 DEF s

(* What a chart says of the element j, after which k follows. *)
Between(s, c, q, w, e, at, out, j, k) ==
    /\ at[j] \in Nat \ {0} /\ at[k] \in Nat \ {0} /\ at[j] <= at[k] /\ at[k] <= e
    /\ out[j] \in Nat \ {0} /\ out[k] \in Nat \ {0} /\ out[j] <= out[k] /\ out[k] <= Len(w) + 1
    /\ s[j].spec \in {"$", "MARK"} => at[k] = at[j] /\ out[k] = out[j]
    /\ s[j].spec \notin {"$", "MARK", "E"} => at[k] = at[j] + 1 /\ out[k] = out[j] /\ s[j] = q[at[j]]
    /\ s[j].spec = "E" => Covers(Row(s, j), Above(s, j, c), Part(q, at[j], at[k]), Part(w, out[j], out[k]))

LEMMA ChartAt ==
    ASSUME NEW s \in Seq(TokenSet), NEW c, NEW q, NEW w, NEW e, NEW at, NEW out,
           Chart(s, c, q, w, e, at, out), NEW j \in 1..Len(s), NEW k, k = j + 1
    PROVE  Between(s, c, q, w, e, at, out, j, k)
<1>1. j \in 1..(Len(s) + 1) /\ k \in 1..(Len(s) + 1)
  OBVIOUS
<1>2. at[j] \in Nat \ {0} /\ at[k] \in Nat \ {0} /\ out[j] \in Nat \ {0} /\ out[k] \in Nat \ {0}
  BY <1>1 DEF Chart
<1> QED BY <1>2 DEF Chart, Stand, Between

LEMMA ChartEnds ==
    ASSUME NEW s, NEW c, NEW q, NEW w, NEW e, NEW at, NEW out, Chart(s, c, q, w, e, at, out)
    PROVE  at[1] = 1 /\ out[1] = 1 /\ at[Len(s) + 1] = e /\ out[Len(s) + 1] = Len(w) + 1
BY DEF Chart

LEMMA OperandCovers ==
    ASSUME NEW s \in Seq(TokenSet), NEW q \in Seq(TokenSet), NEW w \in Seq(TokenSet), NEW e \in DOMAIN q,
           NEW c, NEW at, NEW out, Chart(s, c, q, w, e, at, out),
           NEW m \in Nat \ {0}, Len(s) = m + 1, s[m].spec = "MARK", s[m + 1].spec = "i", NEW r
    PROVE  Covers(r, c, Part(q, at[m], e), Part(w \o <<s[m + 1]>>, out[m], Len(w \o <<s[m + 1]>>) + 1))
<1>1. m \in 1..Len(s) /\ m + 1 \in 1..Len(s) /\ (m + 1) + 1 = Len(s) + 1 /\ e \in Nat /\ e <= Len(q)
      /\ Len(q) \in Nat /\ Len(w) \in Nat /\ s[m + 1] \in TokenSet
  OBVIOUS
<1>2. at[m] \in Nat \ {0} /\ at[m + 1] = at[m] /\ out[m + 1] = out[m]
  <2>1. Between(s, c, q, w, e, at, out, m, m + 1)
    BY <1>1, ChartAt
  <2> QED BY <2>1 DEF Between
<1>3. at[m + 1] + 1 = e /\ out[m + 1] = Len(w) + 1 /\ s[m + 1] = q[at[m + 1]]
  <2>1. Between(s, c, q, w, e, at, out, m + 1, Len(s) + 1)
    BY <1>1, ChartAt
  <2>2. at[Len(s) + 1] = e /\ out[Len(s) + 1] = Len(w) + 1
    BY ChartEnds
  <2> QED BY <2>1, <2>2 DEF Between
<1> DEFINE t == s[m + 1]
<1>4. Part(q, at[m], e) = <<t>>
  <2>1. at[m] \in 1..Len(q) /\ e = at[m] + 1 /\ q[at[m]] = t
    BY <1>1, <1>2, <1>3
  <2> QED BY <2>1, PartOne
<1> DEFINE y == w \o <<t>>
<1>5. Part(y, out[m], Len(y) + 1) = <<t>>
  <2>1. y \in Seq(TokenSet) /\ Len(y) = Len(w) + 1 /\ y[Len(w) + 1] = t
    BY <1>1
  <2> HIDE DEF y
  <2>2. PICK a \in 1..Len(y) : a = Len(w) + 1
    BY <1>1, <2>1
  <2>3. Part(y, a, a + 1) = <<y[a]>>
    BY <2>1, PartOne
  <2>4. out[m] = a /\ Len(y) + 1 = a + 1 /\ y[a] = t
    BY <1>2, <1>3, <2>1, <2>2
  <2> QED BY <2>3, <2>4
<1>6. PICK d \in Seq(TokenSet) : d = <<t>>
  <2>1. <<t>> \in Seq(TokenSet)
    BY <1>1
  <2> QED BY <2>1, Zenon
<1>7. Single(d)
  BY <1>6 DEF Single
<1>8. Yields(Phrase(r), d, d) /\ Closed(d) /\ TopSyms(d) = {}
  BY <1>7, PhraseOfRow, SingleReads
<1> QED BY <1>4, <1>5, <1>6, <1>8 DEF Covers

LEMMA ParensCovers ==
    ASSUME NEW s \in Seq(TokenSet), NEW q \in Seq(TokenSet), NEW w \in Seq(TokenSet), NEW e \in DOMAIN q,
           NEW c, NEW at, NEW out, Chart(s, c, q, w, e, at, out),
           NEW m \in Nat \ {0}, Len(s) = m + 3, s[m].spec = "MARK",
           s[m + 1].spec = "(", s[m + 2].spec = "E", s[m + 3].spec = ")", NEW r
    PROVE  Covers(r, c, Part(q, at[m], e), Part(w, out[m], Len(w) + 1))
<1>1. /\ m \in 1..Len(s) /\ m + 1 \in 1..Len(s) /\ m + 2 \in 1..Len(s) /\ m + 3 \in 1..Len(s)
      /\ (m + 1) + 1 = m + 2 /\ (m + 2) + 1 = m + 3 /\ (m + 3) + 1 = Len(s) + 1
      /\ e \in Nat /\ e <= Len(q) /\ Len(q) \in Nat /\ Len(w) \in Nat
  OBVIOUS
<1>2. at[m] \in Nat \ {0} /\ at[m + 1] = at[m] /\ out[m + 1] = out[m] /\ out[m] \in Nat \ {0}
  <2>1. Between(s, c, q, w, e, at, out, m, m + 1)
    BY <1>1, ChartAt
  <2> QED BY <2>1 DEF Between
<1>3. at[m + 2] = at[m + 1] + 1 /\ out[m + 2] = out[m + 1] /\ s[m + 1] = q[at[m + 1]]
  <2>1. Between(s, c, q, w, e, at, out, m + 1, m + 2)
    BY <1>1, ChartAt
  <2> QED BY <2>1 DEF Between
<1>4. e = at[m + 3] + 1 /\ out[m + 3] = Len(w) + 1 /\ s[m + 3] = q[at[m + 3]] /\ at[m + 3] \in Nat
  <2>1. Between(s, c, q, w, e, at, out, m + 3, Len(s) + 1)
    BY <1>1, ChartAt
  <2>2. at[Len(s) + 1] = e /\ out[Len(s) + 1] = Len(w) + 1
    BY ChartEnds
  <2> QED BY <2>1, <2>2 DEF Between
<1>5. /\ Covers(Row(s, m + 2), Above(s, m + 2, c), Part(q, at[m + 2], at[m + 3]), Part(w, out[m + 2], out[m + 3]))
      /\ at[m + 2] <= at[m + 3]
  <2>1. Between(s, c, q, w, e, at, out, m + 2, m + 3)
    BY <1>1, ChartAt
  <2> QED BY <2>1 DEF Between
<1>6. Row(s, m + 2) = "("
  <2>1. (m + 2) - 1 = m + 1
    OBVIOUS
  <2> QED BY <2>1 DEF Row
<1>7. PICK a \in Nat \ {0}, b \in Nat : a = at[m] /\ b = at[m + 3]
  BY <1>2, <1>4
<1>8. a + 1 <= b /\ e = b + 1 /\ b <= Len(q) /\ q[a].spec = "(" /\ q[b].spec = ")"
  BY <1>1, <1>2, <1>3, <1>4, <1>5, <1>7
<1> DEFINE v == Part(q, a, e)
           p == Part(w, out[m], Len(w) + 1)
<1>9. v \in Seq(TokenSet) /\ Len(v) = e - a /\ \A i \in 1..(e - a) : v[i] = q[a + i - 1]
  <2>1. a <= e /\ e <= Len(q) + 1
    BY <1>1, <1>8
  <2> QED BY <1>1, <2>1, PartIs
<1>10. Inner(v) = Part(q, a + 1, b)
  <2>1. a + 1 < e /\ e <= Len(q) + 1 /\ e - 1 = b
    BY <1>1, <1>8
  <2> QED BY <1>1, <2>1, PartInner
<1>11. Yields("expression", Inner(v), p)
  <2>1. at[m + 2] = a + 1 /\ at[m + 3] = b /\ out[m + 2] = out[m] /\ out[m + 3] = Len(w) + 1
    BY <1>2, <1>3, <1>4, <1>7
  <2>2. Yields(Phrase("("), Part(q, a + 1, b), p)
    BY <1>5, <1>6, <2>1 DEF Covers
  <2> QED BY <1>10, <2>2, PhraseOfRow
<1> HIDE DEF v, p
<1>12. Len(v) > 1 /\ v[1].spec = "(" /\ v[Len(v)].spec = ")"
  <2>1. 1 \in 1..(e - a) /\ e - a \in 1..(e - a) /\ a + 1 - 1 = a /\ a + (e - a) - 1 = b
    BY <1>1, <1>8
  <2>2. v[1] = q[a + 1 - 1] /\ v[e - a] = q[a + (e - a) - 1]
    BY <1>9, <2>1
  <2>3. Len(v) > 1
    BY <1>1, <1>8, <1>9
  <2> QED BY <1>8, <1>9, <2>1, <2>2, <2>3
<1>13. Len(v) > 2
  <2>1. Inner(v) \in Seq(TokenSet) /\ Len(Inner(v)) = Len(v) - 2
    BY <1>9, <1>12, InnerLength
  <2>2. Known("expression", Inner(v))
    BY <1>11 DEF Known, Yields
  <2>3. Inner(v) # <<>>
    BY <2>1, <2>2, PhraseBalanced DEF Balanced, Rules
  <2>5. PICK z \in Seq(TokenSet) : z = Inner(v)
    BY <2>1
  <2>6. z # <<>> => Len(z) # 0
    OBVIOUS
  <2>4. Len(Inner(v)) # 0
    BY <2>3, <2>5, <2>6
  <2> QED BY <1>9, <1>12, <2>1, <2>4
<1>14. Yields(Phrase(r), v, p) /\ Closed(v) /\ TopSyms(v) = {}
  BY <1>9, <1>11, <1>12, <1>13, PhraseOfRow, EnclosedReads
<1> QED BY <1>7, <1>14 DEF Covers, v, p

LEMMA LengthCovers ==
    ASSUME NEW s \in Seq(TokenSet), NEW q \in Seq(TokenSet), NEW w \in Seq(TokenSet), NEW e \in DOMAIN q,
           NEW c, NEW at, NEW out, Chart(s, c, q, w, e, at, out),
           NEW m \in Nat \ {0}, Len(s) = m + 2, s[m].spec = "MARK",
           s[m + 1].spec = "#", s[m + 2].spec = "E", c \in Reduces("#"), NEW r, "#" \in Shifts(r)
    PROVE  Covers(r, c, Part(q, at[m], e), Part(w \o <<s[m + 1]>>, out[m], Len(w \o <<s[m + 1]>>) + 1))
<1>1. /\ m \in 1..Len(s) /\ m + 1 \in 1..Len(s) /\ m + 2 \in 1..Len(s)
      /\ (m + 1) + 1 = m + 2 /\ (m + 2) + 1 = Len(s) + 1
      /\ e \in Nat /\ e <= Len(q) /\ Len(q) \in Nat /\ Len(w) \in Nat /\ s[m + 1] \in TokenSet
  OBVIOUS
<1>2. at[m] \in Nat \ {0} /\ at[m + 1] = at[m] /\ out[m + 1] = out[m] /\ out[m] \in Nat \ {0}
  <2>1. Between(s, c, q, w, e, at, out, m, m + 1)
    BY <1>1, ChartAt
  <2> QED BY <2>1 DEF Between
<1>3. at[m + 2] = at[m + 1] + 1 /\ out[m + 2] = out[m + 1] /\ s[m + 1] = q[at[m + 1]]
  <2>1. Between(s, c, q, w, e, at, out, m + 1, m + 2)
    BY <1>1, ChartAt
  <2> QED BY <2>1 DEF Between
<1>5. /\ Covers(Row(s, m + 2), Above(s, m + 2, c), Part(q, at[m + 2], e), Part(w, out[m + 2], Len(w) + 1))
      /\ at[m + 2] <= e /\ out[m + 2] <= Len(w) + 1
  <2>1. Between(s, c, q, w, e, at, out, m + 2, Len(s) + 1)
    BY <1>1, ChartAt
  <2>2. at[Len(s) + 1] = e /\ out[Len(s) + 1] = Len(w) + 1
    BY ChartEnds
  <2> QED BY <2>1, <2>2 DEF Between
<1>6. Row(s, m + 2) = "#" /\ Above(s, m + 2, c) = c
  <2>1. (m + 2) - 1 = m + 1
    OBVIOUS
  <2> QED BY <2>1 DEF Row, Above
<1>7. PICK a \in Nat \ {0}, lo \in Nat \ {0}, t \in TokenSet : a = at[m] /\ lo = out[m] /\ t = s[m + 1]
  BY <1>1, <1>2
<1>8. a + 1 <= e /\ lo <= Len(w) + 1 /\ q[a] = t /\ t.spec = "#" /\ a < e /\ e <= Len(q) + 1
  BY <1>1, <1>2, <1>3, <1>5, <1>7
<1> DEFINE v == Part(q, a, e)
           p == Part(w, lo, Len(w) + 1)
           d == Part(q, a + 1, e)
<1>9. v \in Seq(TokenSet) /\ 1 \in 1..Len(v) /\ v[1] = t /\ After(v, 1) = d
  <2>1. a \in Nat /\ a <= a /\ 1 = a - a + 1
    OBVIOUS
  <2>2. /\ v \in Seq(TokenSet) /\ 1 \in 1..Len(v) /\ v[1] = q[a]
        /\ After(v, 1) = Part(q, a + 1, e)
    BY <1>1, <1>8, <2>1, PartSplit
  <2> HIDE DEF v
  <2> QED BY <1>8, <2>1, <2>2
<1>10. /\ Yields("concatenation", d, p) /\ TopSyms(d) \subseteq Shifts("#") \cup {".."}
       /\ \A o \in TopSyms(d) : c \in Reduces(o)
  <2>1. at[m + 2] = a + 1 /\ out[m + 2] = lo
    BY <1>2, <1>3, <1>7
  <2> QED BY <1>5, <1>6, <2>1, PhraseOfRow DEF Covers
<1>11. Part(w \o <<t>>, lo, Len(w \o <<t>>) + 1) = p \o <<t>>
  BY <1>8, PartLast
<1>16. d \in Seq(TokenSet)
  <2>1. a + 1 \in Nat \ {0}
    OBVIOUS
  <2> QED BY <1>1, <1>8, <2>1, PartIs
<1> HIDE DEF v, p, d
<1>12. v # <<>> /\ v[1].spec = "#"
  BY <1>8, <1>9
<1>13. Phrase(r) \in {"operation", "expression"} /\ "#" \in Ops
  BY PhraseOfRow, Symbols
<1>14. Yields(Phrase(r), v, p \o <<t>>) /\ Closed(v) /\ TopSyms(v) = {"#"} \cup TopSyms(d)
  BY <1>9, <1>10, <1>12, <1>13, LengthReads
<1>15. ASSUME NEW o \in TopSyms(v) PROVE o \in Shifts(r) \cup {".."} /\ c \in Reduces(o)
  <2>1. CASE o = "#"
    BY <2>1
  <2>2. CASE o \in TopSyms(d)
    <3>1. o \in Ops /\ (o \in Shifts("#") \/ o = "..") /\ c \in Reduces(o)
      BY <1>10, <1>16, <2>2, TopSymsAre
    <3> QED BY <1>13, <3>1, ShiftsWithin
  <2> QED BY <1>14, <2>1, <2>2
<1> QED BY <1>7, <1>11, <1>14, <1>15 DEF Covers, v, p

(* Two operands and the operator between them. *)
LEMMA JoinedReads ==
    ASSUME NEW s \in Seq(TokenSet), NEW j \in 1..Len(s), s[j].spec \in BinaryOps,
           NEW r, s[j].spec \in Shifts(r), NEW c, c \in Reduces(s[j].spec),
           NEW p1, Covers(r, s[j].spec, Before(s, j), p1),
           NEW p2, Covers(s[j].spec, c, After(s, j), p2)
    PROVE  Covers(r, c, s, p1 \o p2 \o <<s[j]>>)
<1> DEFINE u == Before(s, j)
           v == After(s, j)
           k == s[j].spec
           p == p1 \o p2 \o <<s[j]>>
<1>1. u \in Seq(TokenSet) /\ v \in Seq(TokenSet) /\ k \in Ops /\ (k \in Infix \/ k = "..")
  BY PartLengths, Symbols
<1>2. /\ Yields(Phrase(r), u, p1) /\ Closed(u) /\ TopSyms(u) \subseteq Shifts(r) \cup {".."}
      /\ \A o \in TopSyms(u) : k \in Reduces(o)
      /\ Yields(Phrase(k), v, p2) /\ Closed(v) /\ TopSyms(v) \subseteq Shifts(k) \cup {".."}
      /\ \A o \in TopSyms(v) : c \in Reduces(o)
  BY DEF Covers
<1>3. TopSyms(s) = TopSyms(u) \cup {k} \cup TopSyms(v)
  BY <1>1, <1>2, SplitSyms
<1>4. TopSyms(u) \subseteq Ops /\ TopSyms(v) \subseteq Ops
  BY <1>1, TopSymsAre
<1>5. Yields(Phrase(r), s, p) /\ Closed(s)
  <2>1. CASE k \in Infix
    <3>1. Phrase(r) \in {"operation", "expression"} /\ Phrase(k) = "operation"
      BY <2>1, PhraseOfRow
    <3>2. ".." \notin TopSyms(u) /\ TopSyms(u) \cap (Looser(k) \cup {".."}) = {}
      BY <1>2, <1>4, <2>1, TighterBefore
    <3>3. Yields("operation", u, p1)
      BY <1>1, <1>2, <3>1, <3>2, ExpressionIsOperation
    <3>4. TopSyms(v) \cap (Looser(k) \cup AsTight(k)) = {}
      BY <1>2, <2>1, TighterAfter
    <3>5. Yields("operation", v, p2)
      BY <1>2, <3>1
    <3> QED BY <2>1, <3>1, <3>2, <3>3, <3>4, <3>5, OperationReads
  <2>2. CASE k = ".."
    <3>1. Phrase(r) \in {"concatenation", "expression"} /\ Phrase(k) = "concatenation"
      BY <2>2, PhraseOfRow
    <3>2. TopSyms(u) = {}
      BY <1>2, <1>4, <2>2, TighterBefore
    <3>3. Yields("primary", u, p1)
      <4>1. Flat(u) /\ Phrase(r) \in Rules
        BY <1>1, <3>2, TopSymsAre, PhraseOfRow
      <4>2. Of(Phrase(r), u) = Of("primary", u)
        BY <1>1, <4>1, FlatReads
      <4> QED BY <1>2, <4>2 DEF Yields
    <3>4. Yields("concatenation", v, p2)
      BY <1>2, <3>1
    <3> QED BY <2>2, <3>1, <3>2, <3>3, <3>4, ConcatenationReads
  <2> QED BY <1>1, <2>1, <2>2
<1>6. ASSUME NEW o \in TopSyms(s) PROVE o \in Shifts(r) \cup {".."} /\ c \in Reduces(o)
  <2>1. CASE o \in TopSyms(u)
    <3>1. o \in Ops
      BY <1>4, <2>1
    <3>2. c \in Reduces(o)
      BY <1>2, <2>1, <3>1, ReducesWithin
    <3> QED BY <1>2, <2>1, <3>2
  <2>2. CASE o = k
    BY <2>2
  <2>3. CASE o \in TopSyms(v)
    <3>1. o \in Ops /\ (o \in Shifts(k) \/ o = "..") /\ c \in Reduces(o)
      BY <1>2, <1>4, <2>3
    <3> QED BY <1>1, <3>1, ShiftsWithin
  <2> QED BY <1>3, <2>1, <2>2, <2>3
<1> HIDE DEF p
<1>7. Covers(r, c, s, p)
  BY <1>5, <1>6 DEF Covers
<1> QED BY <1>7 DEF p

LEMMA JoinedParts ==
    ASSUME NEW q \in Seq(TokenSet), NEW a \in Nat \ {0}, NEW b \in Nat, NEW e \in Nat, a <= b, b < e, e <= Len(q) + 1,
           q[b].spec \in BinaryOps, NEW r, q[b].spec \in Shifts(r), NEW c, c \in Reduces(q[b].spec),
           NEW p1, Covers(r, q[b].spec, Part(q, a, b), p1),
           NEW p2, Covers(q[b].spec, c, Part(q, b + 1, e), p2)
    PROVE  Covers(r, c, Part(q, a, e), p1 \o p2 \o <<q[b]>>)
<1> DEFINE v == Part(q, a, e)
           j == b - a + 1
<1>1. v \in Seq(TokenSet) /\ j \in 1..Len(v) /\ v[j] = q[b] /\ Before(v, j) = Part(q, a, b) /\ After(v, j) = Part(q, b + 1, e)
  BY PartSplit
<1> HIDE DEF v, j
<1>2. Covers(r, c, v, p1 \o p2 \o <<v[j]>>)
  BY <1>1, JoinedReads
<1> QED BY <1>1, <1>2 DEF v

LEMMA BinaryCovers ==
    ASSUME NEW s \in Seq(TokenSet), NEW q \in Seq(TokenSet), NEW w \in Seq(TokenSet), NEW e \in DOMAIN q,
           NEW c, NEW at, NEW out, Chart(s, c, q, w, e, at, out),
           NEW m \in Nat \ {0, 1}, Len(s) = m + 3, s[m].spec = "MARK",
           s[m + 1].spec = "E", s[m + 2].spec \in BinaryOps, s[m + 3].spec = "E",
           c \in Reduces(s[m + 2].spec), s[m + 2].spec \in Shifts(s[m - 1].spec)
    PROVE  Covers(s[m - 1].spec, c, Part(q, at[m], e),
                  Part(w \o <<s[m + 2]>>, out[m], Len(w \o <<s[m + 2]>>) + 1))
<1>1. /\ m \in 1..Len(s) /\ m + 1 \in 1..Len(s) /\ m + 2 \in 1..Len(s) /\ m + 3 \in 1..Len(s)
      /\ (m + 1) + 1 = m + 2 /\ (m + 2) + 1 = m + 3 /\ (m + 3) + 1 = Len(s) + 1
      /\ e \in Nat /\ e <= Len(q) /\ Len(q) \in Nat /\ Len(w) \in Nat /\ s[m + 2] \in TokenSet
  OBVIOUS
<1>0. s[m + 2].spec \notin {"$", "MARK", "E"}
  BY Alphabet
<1>2. at[m] \in Nat \ {0} /\ at[m + 1] = at[m] /\ out[m + 1] = out[m] /\ out[m] \in Nat \ {0}
  <2>1. Between(s, c, q, w, e, at, out, m, m + 1)
    BY <1>1, ChartAt
  <2> QED BY <2>1 DEF Between
<1>3. /\ Covers(Row(s, m + 1), Above(s, m + 1, c), Part(q, at[m + 1], at[m + 2]), Part(w, out[m + 1], out[m + 2]))
      /\ at[m + 1] <= at[m + 2] /\ out[m + 1] <= out[m + 2] /\ at[m + 2] \in Nat /\ out[m + 2] \in Nat \ {0}
  <2>1. Between(s, c, q, w, e, at, out, m + 1, m + 2)
    BY <1>1, ChartAt
  <2> QED BY <2>1 DEF Between
<1>4. at[m + 3] = at[m + 2] + 1 /\ out[m + 3] = out[m + 2] /\ s[m + 2] = q[at[m + 2]]
  <2>1. Between(s, c, q, w, e, at, out, m + 2, m + 3)
    BY <1>1, ChartAt
  <2> QED BY <1>0, <2>1 DEF Between
<1>5. /\ Covers(Row(s, m + 3), Above(s, m + 3, c), Part(q, at[m + 3], e), Part(w, out[m + 3], Len(w) + 1))
      /\ at[m + 3] <= e /\ out[m + 3] <= Len(w) + 1
  <2>1. Between(s, c, q, w, e, at, out, m + 3, Len(s) + 1)
    BY <1>1, ChartAt
  <2>2. at[Len(s) + 1] = e /\ out[Len(s) + 1] = Len(w) + 1
    BY ChartEnds
  <2> QED BY <2>1, <2>2 DEF Between
<1>6. Row(s, m + 1) = s[m - 1].spec /\ Above(s, m + 1, c) = s[m + 2].spec
  <2>1. (m + 1) - 1 = m /\ (m + 1) - 2 = m - 1 /\ m + 1 # Len(s)
    OBVIOUS
  <2> QED BY <1>1, <2>1 DEF Row, Above
<1>7. Row(s, m + 3) = s[m + 2].spec /\ Above(s, m + 3, c) = c
  <2>1. (m + 3) - 1 = m + 2
    OBVIOUS
  <2> QED BY <1>0, <2>1 DEF Row, Above
<1>8. PICK a \in Nat \ {0}, b \in Nat \ {0}, lo \in Nat \ {0}, mid \in Nat \ {0}, hi \in Nat, t \in TokenSet :
        a = at[m] /\ b = at[m + 2] /\ lo = out[m] /\ mid = out[m + 2] /\ hi = Len(w) + 1 /\ t = s[m + 2]
  <2>1. at[m + 2] \in Nat \ {0} /\ Len(w) + 1 \in Nat
    BY <1>1, <1>2, <1>3
  <2> QED BY <1>1, <1>2, <1>3, <2>1
<1>9. /\ a <= b /\ b + 1 <= e /\ b < e /\ e <= Len(q) + 1 /\ q[b] = t
      /\ lo <= mid /\ mid <= hi /\ hi <= Len(w) + 1 /\ lo <= Len(w) + 1
  <2>1. q[b] = t
    BY <1>4, <1>8
  <2>2. a <= b /\ b + 1 <= e
    BY <1>2, <1>3, <1>4, <1>5, <1>8
  <2>3. lo <= mid /\ mid <= hi /\ hi = Len(w) + 1
    BY <1>2, <1>3, <1>4, <1>5, <1>8
  <2>4. b < e /\ e <= Len(q) + 1 /\ hi <= Len(w) + 1 /\ lo <= Len(w) + 1
    BY <1>1, <2>2, <2>3
  <2> QED BY <2>1, <2>2, <2>3, <2>4
<1> DEFINE p1 == Part(w, lo, mid)
           p2 == Part(w, mid, hi)
<1>10. Covers(s[m - 1].spec, t.spec, Part(q, a, b), p1) /\ Covers(t.spec, c, Part(q, b + 1, e), p2)
  BY <1>2, <1>3, <1>4, <1>5, <1>6, <1>7, <1>8
<1>11. p1 \o p2 = Part(w, lo, hi)
  BY <1>9, PartJoin
<1> HIDE DEF p1, p2
<1> DEFINE v == Part(q, a, e)
<1>14. Covers(s[m - 1].spec, c, v, p1 \o p2 \o <<t>>)
  <2>1. a <= b /\ b < e /\ e <= Len(q) + 1 /\ e \in Nat /\ b \in Nat
    BY <1>1, <1>9
  <2>2. q[b].spec \in BinaryOps /\ q[b].spec \in Shifts(s[m - 1].spec) /\ c \in Reduces(q[b].spec)
    BY <1>8, <1>9
  <2>3. Covers(s[m - 1].spec, c, Part(q, a, e), p1 \o p2 \o <<q[b]>>)
    BY <1>9, <1>10, <2>1, <2>2, JoinedParts
  <2> QED BY <1>9, <2>3
<1> HIDE DEF v
<1>15. Part(w \o <<t>>, lo, Len(w \o <<t>>) + 1) = Part(w, lo, hi) \o <<t>>
  BY <1>8, <1>9, PartLast
<1> QED BY <1>8, <1>11, <1>14, <1>15 DEF v

-----------------------------------------------------------------------------
(* The invariant: there is a chart for every state of the automaton.        *)

Charted ==
    pc = "parse" => /\ Shifted(stack)
                    /\ \E at, out : Chart(stack, input, pp_list, AST_list, element, at, out)

(* Where the symbols of a rule lie. *)
LEMMA HandleAt ==
    ASSUME Inv, Cell(">")
    PROVE  LET n == Len(stack)
               m == MarkAt(stack)
               r == Rhs(stack)
           IN /\ n \in Nat /\ m \in 2..(n - 1) /\ stack[m].spec = "MARK"
              /\ IsOperand(r) => n = m + 1 /\ r[2] = stack[m + 1]
              /\ IsLength(r) => n = m + 2 /\ r[1] = stack[m + 1] /\ r[2] = stack[m + 2]
              /\ IsParens(r) \/ IsBinary(r) =>
                    n = m + 3 /\ r[0] = stack[m + 1] /\ r[1] = stack[m + 2] /\ r[2] = stack[m + 3]
<1> DEFINE s == stack
           n == Len(s)
           m == MarkAt(s)
           r == Rhs(s)
<1>1. /\ stack \in Seq(TokenSet) /\ StackShape(stack) /\ \A j \in DOMAIN stack : StackSymbol(stack[j])
      /\ stack_top_term(stack).spec \in BinaryOps \cup {"#", "i", ")"}
  BY ParsingFacts, TableCells DEF Cell, Parsing, stack_n
<1>2. n \in Nat /\ m \in 2..(n - 1) /\ n \in (m + 1)..(m + 3) /\ s[m].spec = "MARK"
  BY <1>1, Marked, TopTerm
<1>3. ASSUME NEW k \in 0..2, r[k].spec # "EMPTY"
      PROVE  n - 2 + k >= m + 1 /\ r[k] = s[n - 2 + k]
  <2>1. n - 2 + k \in (m + 1)..n /\ r[k] = s[n - 2 + k]
    BY <1>1, <1>3, RhsPositions
  <2> HIDE DEF s, n, m, r
  <2> QED BY <1>2, <2>1
<1>4. \A k \in 0..2 : r[k].spec = "EMPTY" => n - 2 + k <= m
  BY <1>1, RhsEmpty
<1> HIDE DEF s, n, m, r
<1>5. /\ r[0].spec # "EMPTY" => n - 2 >= m + 1 /\ r[0] = s[n - 2]
      /\ r[1].spec # "EMPTY" => n - 1 >= m + 1 /\ r[1] = s[n - 1]
      /\ r[2].spec # "EMPTY" => n >= m + 1 /\ r[2] = s[n]
      /\ r[0].spec = "EMPTY" => n - 2 <= m
      /\ r[1].spec = "EMPTY" => n - 1 <= m
  <2>1. n - 2 + 0 = n - 2 /\ n - 2 + 1 = n - 1 /\ n - 2 + 2 = n
    BY <1>2
  <2> QED BY <1>3, <1>4, <2>1
<1>6. IsOperand(r) => n = m + 1 /\ r[2] = s[m + 1]
  BY <1>2, <1>5 DEF IsOperand
<1>7. IsLength(r) => n = m + 2 /\ r[1] = s[m + 1] /\ r[2] = s[m + 2]
  <2> SUFFICES ASSUME IsLength(r) PROVE n = m + 2 /\ r[1] = s[m + 1] /\ r[2] = s[m + 2]
    OBVIOUS
  <2>1. n = m + 2 /\ r[1] = s[n - 1] /\ r[2] = s[n]
    BY <1>2, <1>5 DEF IsLength
  <2>2. n - 1 = m + 1
    BY <1>2, <2>1
  <2> QED BY <2>1, <2>2
<1>8. IsParens(r) \/ IsBinary(r) => n = m + 3 /\ r[0] = s[m + 1] /\ r[1] = s[m + 2] /\ r[2] = s[m + 3]
  <2> SUFFICES ASSUME IsParens(r) \/ IsBinary(r)
               PROVE  n = m + 3 /\ r[0] = s[m + 1] /\ r[1] = s[m + 2] /\ r[2] = s[m + 3]
    OBVIOUS
  <2>1. r[0].spec # "EMPTY" /\ r[1].spec # "EMPTY" /\ r[2].spec # "EMPTY"
    BY Alphabet DEF IsParens, IsBinary
  <2>2. n = m + 3 /\ r[0] = s[n - 2] /\ r[1] = s[n - 1] /\ r[2] = s[n]
    BY <1>2, <1>5, <2>1
  <2>3. n - 2 = m + 1 /\ n - 1 = m + 2
    BY <1>2, <2>2
  <2> QED BY <2>2, <2>3
<1> QED BY <1>2, <1>6, <1>7, <1>8 DEF s, n, m, r

(* What every reduction has in common. *)
LEMMA PushCharted ==
    ASSUME Inv, Charted, Cell(">"), NEW nont \in TokenSet, nont.spec = "E", NEW x \in Seq(TokenSet),
           Push(nont, x),
           \A at, out : Chart(stack, input, pp_list, AST_list, element, at, out) =>
               Covers(stack[MarkAt(stack) - 1].spec, input, Part(pp_list, at[MarkAt(stack)], element),
                      Part(AST_list \o x, out[MarkAt(stack)], Len(AST_list \o x) + 1))
    PROVE  Charted'
<1>1. /\ stack \in Seq(TokenSet) /\ StackShape(stack) /\ pp_list \in Seq(TokenSet) /\ AST_list \in Seq(TokenSet)
      /\ stack_top_term(stack).spec \in BinaryOps \cup {"#", "i", ")"} /\ pc = "parse" /\ element \in Nat
  BY ParsingFacts, TableCells DEF Cell, Parsing, stack_n, Inv, TypeOK
<1>2. /\ stack' = Replaced(stack, nont) /\ AST_list' = AST_list \o x
      /\ pp_list' = pp_list /\ element' = element /\ input' = input
  BY DEF Push, input
<1>3. PICK at, out : Chart(stack, input, pp_list, AST_list, element, at, out)
  BY <1>1 DEF Charted
<1>4. \E at2, out2 : Chart(Replaced(stack, nont), input, pp_list, AST_list \o x, element, at2, out2)
  BY <1>1, <1>3, ChartReplaced
<1>5. Shifted(Replaced(stack, nont))
  BY <1>1, ReplacedShifted DEF Charted
<1> QED BY <1>2, <1>4, <1>5 DEF Charted

LEMMA ReduceFacts ==
    ASSUME Inv, Charted, Cell(">")
    PROVE  /\ stack \in Seq(TokenSet) /\ pp_list \in Seq(TokenSet) /\ AST_list \in Seq(TokenSet)
           /\ element \in DOMAIN pp_list /\ Len(stack) \in Nat
           /\ MarkAt(stack) \in Nat \ {0, 1} /\ MarkAt(stack) < Len(stack) /\ stack[MarkAt(stack)].spec = "MARK"
           /\ Opened(stack, MarkAt(stack)) \in Shifts(stack[MarkAt(stack) - 1].spec)
           /\ stack[Len(stack)].spec = "E" => input \in Reduces(stack[Len(stack) - 1].spec)
<1>1. /\ stack \in Seq(TokenSet) /\ StackShape(stack) /\ pp_list \in Seq(TokenSet) /\ AST_list \in Seq(TokenSet)
      /\ element \in DOMAIN pp_list /\ pc = "parse"
  BY ParsingFacts DEF Cell, Parsing
<1>2. Len(stack) \in Nat /\ MarkAt(stack) \in 2..(Len(stack) - 1) /\ stack[MarkAt(stack)].spec = "MARK"
  BY HandleAt
<1>3. Opened(stack, MarkAt(stack)) \in Shifts(stack[MarkAt(stack) - 1].spec)
  BY <1>1, <1>2 DEF Charted, Shifted
<1>4. input \in Reduces(stack_n)
  BY DEF Cell, pp_table
<1>5. stack[Len(stack)].spec = "E" => stack_n = stack[Len(stack) - 1].spec
  BY <1>1, TopTerm DEF stack_n, stack_top_term
<1> QED BY <1>1, <1>2, <1>3, <1>4, <1>5

LEMMA ReduceOperandCharted == ASSUME Inv, Charted, ReduceOperand PROVE Charted'
<1> DEFINE r == Rhs(stack)
           m == MarkAt(stack)
<1>1. Cell(">") /\ IsOperand(r) /\ r[2].spec = "i" /\ Push(NontOperand(r), <<r[2]>>)
  BY DEF ReduceOperand, IsOperand
<1>2. r[2] \in TokenSet /\ r[2] \in Retagged
  BY <1>1, RhsSymbols DEF StackSymbol
<1>3. NontOperand(r) \in TokenSet /\ NontOperand(r).spec = "E" /\ <<r[2]>> \in Seq(TokenSet)
  BY <1>1, <1>2, NontOperandFacts
<1>4. Len(stack) = m + 1 /\ r[2] = stack[m + 1]
  BY <1>1, HandleAt
<1>5. ASSUME NEW at, NEW out, Chart(stack, input, pp_list, AST_list, element, at, out)
      PROVE  Covers(stack[m - 1].spec, input, Part(pp_list, at[m], element),
                    Part(AST_list \o <<r[2]>>, out[m], Len(AST_list \o <<r[2]>>) + 1))
  <2>1. /\ stack \in Seq(TokenSet) /\ pp_list \in Seq(TokenSet) /\ AST_list \in Seq(TokenSet)
        /\ element \in DOMAIN pp_list /\ m \in Nat \ {0} /\ stack[m].spec = "MARK"
    BY <1>1, ReduceFacts
  <2>2. stack[m + 1].spec = "i"
    BY <1>1, <1>4
  <2> HIDE DEF m, r
  <2> QED BY <1>4, <1>5, <2>1, <2>2, OperandCovers
<1> HIDE DEF r
<1> QED BY <1>1, <1>3, <1>5, PushCharted

LEMMA ReduceParensCharted == ASSUME Inv, Charted, ReduceParens PROVE Charted'
<1> DEFINE r == Rhs(stack)
           m == MarkAt(stack)
<1>1. Cell(">") /\ IsParens(r) /\ Push(r[1], <<>>)
  BY DEF ReduceParens
<1>2. r[1] \in TokenSet /\ r[1].spec = "E"
  BY <1>1, RhsSymbols DEF IsParens
<1>4. Len(stack) = m + 3 /\ r[0] = stack[m + 1] /\ r[1] = stack[m + 2] /\ r[2] = stack[m + 3]
  BY <1>1, HandleAt
<1>6. AST_list \in Seq(TokenSet) /\ AST_list \o <<>> = AST_list
  BY <1>1, ReduceFacts
<1>5. ASSUME NEW at, NEW out, Chart(stack, input, pp_list, AST_list, element, at, out)
      PROVE  Covers(stack[m - 1].spec, input, Part(pp_list, at[m], element),
                    Part(AST_list \o <<>>, out[m], Len(AST_list \o <<>>) + 1))
  <2>1. /\ stack \in Seq(TokenSet) /\ pp_list \in Seq(TokenSet) /\ AST_list \in Seq(TokenSet)
        /\ element \in DOMAIN pp_list /\ m \in Nat \ {0} /\ stack[m].spec = "MARK"
    BY <1>1, ReduceFacts
  <2>2. stack[m + 1].spec = "(" /\ stack[m + 2].spec = "E" /\ stack[m + 3].spec = ")"
    BY <1>1, <1>4 DEF IsParens
  <2>3. Covers(stack[m - 1].spec, input, Part(pp_list, at[m], element), Part(AST_list, out[m], Len(AST_list) + 1))
    <3> HIDE DEF m, r
    <3> QED BY <1>4, <1>5, <2>1, <2>2, ParensCovers
  <2> QED BY <1>6, <2>3
<1> HIDE DEF r
<1>7. <<>> \in Seq(TokenSet)
  OBVIOUS
<1> QED BY <1>1, <1>2, <1>5, <1>7, PushCharted

LEMMA ReduceLengthCharted == ASSUME Inv, Charted, ReduceLength PROVE Charted'
<1> DEFINE r == Rhs(stack)
           m == MarkAt(stack)
<1>1. Cell(">") /\ IsLength(r) /\ Push(NontLength(r), <<r[1]>>)
  BY DEF ReduceLength
<1>2. r[1] \in TokenSet /\ r[2] \in TokenSet /\ r[1].spec = "#" /\ r[2].spec = "E"
  BY <1>1, RhsSymbols DEF IsLength
<1>3. NontLength(r) \in TokenSet /\ NontLength(r).spec = "E" /\ <<r[1]>> \in Seq(TokenSet)
  BY <1>2, NontLengthFacts
<1>4. Len(stack) = m + 2 /\ r[1] = stack[m + 1] /\ r[2] = stack[m + 2]
  BY <1>1, HandleAt
<1>5. ASSUME NEW at, NEW out, Chart(stack, input, pp_list, AST_list, element, at, out)
      PROVE  Covers(stack[m - 1].spec, input, Part(pp_list, at[m], element),
                    Part(AST_list \o <<r[1]>>, out[m], Len(AST_list \o <<r[1]>>) + 1))
  <2>1. /\ stack \in Seq(TokenSet) /\ pp_list \in Seq(TokenSet) /\ AST_list \in Seq(TokenSet)
        /\ element \in DOMAIN pp_list /\ m \in Nat \ {0} /\ stack[m].spec = "MARK"
        /\ Opened(stack, m) \in Shifts(stack[m - 1].spec)
        /\ (stack[Len(stack)].spec = "E" => input \in Reduces(stack[Len(stack) - 1].spec))
    BY <1>1, ReduceFacts
  <2>2. stack[m + 1].spec = "#" /\ stack[m + 2].spec = "E"
    BY <1>2, <1>4
  <2> HIDE DEF m, r
  <2>3. Len(stack) - 1 = m + 1
    BY <1>4, <2>1
  <2>4. input \in Reduces("#") /\ "#" \in Shifts(stack[m - 1].spec)
    BY <1>4, <2>1, <2>2, <2>3 DEF Opened
  <2> QED BY <1>4, <1>5, <2>1, <2>2, <2>4, LengthCovers
<1> HIDE DEF r
<1> QED BY <1>1, <1>3, <1>5, PushCharted

LEMMA ReduceBinaryCharted == ASSUME Inv, Charted, ReduceBinary PROVE Charted'
<1> DEFINE r == Rhs(stack)
           m == MarkAt(stack)
<1>1. Cell(">") /\ IsBinary(r) /\ NontBinary(r).type # "NONE" /\ Push(NontBinary(r), <<r[1]>>)
  BY DEF ReduceBinary
<1>2. r[1] \in TokenSet /\ r[0].spec = "E" /\ r[1].spec \in BinaryOps /\ r[2].spec = "E"
  BY <1>1, RhsSymbols DEF IsBinary
<1>3. NontBinary(r) \in TokenSet /\ NontBinary(r).spec = "E" /\ <<r[1]>> \in Seq(TokenSet)
  BY <1>1, <1>2, NontBinaryFacts
<1>4. Len(stack) = m + 3 /\ r[0] = stack[m + 1] /\ r[1] = stack[m + 2] /\ r[2] = stack[m + 3]
  BY <1>1, HandleAt
<1>5. ASSUME NEW at, NEW out, Chart(stack, input, pp_list, AST_list, element, at, out)
      PROVE  Covers(stack[m - 1].spec, input, Part(pp_list, at[m], element),
                    Part(AST_list \o <<r[1]>>, out[m], Len(AST_list \o <<r[1]>>) + 1))
  <2>1. /\ stack \in Seq(TokenSet) /\ pp_list \in Seq(TokenSet) /\ AST_list \in Seq(TokenSet)
        /\ element \in DOMAIN pp_list /\ m \in Nat \ {0, 1} /\ stack[m].spec = "MARK"
        /\ Opened(stack, m) \in Shifts(stack[m - 1].spec)
        /\ (stack[Len(stack)].spec = "E" => input \in Reduces(stack[Len(stack) - 1].spec))
    BY <1>1, ReduceFacts
  <2>2. stack[m + 1].spec = "E" /\ stack[m + 2].spec \in BinaryOps /\ stack[m + 3].spec = "E"
    BY <1>2, <1>4
  <2> HIDE DEF m, r
  <2>3. Len(stack) - 1 = m + 2
    BY <1>4, <2>1
  <2>4. input \in Reduces(stack[m + 2].spec) /\ stack[m + 2].spec \in Shifts(stack[m - 1].spec)
    BY <1>4, <2>1, <2>2, <2>3 DEF Opened
  <2> QED BY <1>4, <1>5, <2>1, <2>2, <2>4, BinaryCovers
<1> HIDE DEF r
<1> QED BY <1>1, <1>3, <1>5, PushCharted

LEMMA ShiftCharted == ASSUME Inv, Charted, Shift PROVE Charted'
<1>1. /\ pc = "parse" /\ input = ")" /\ stack' = Append(stack, pp_list[element]) /\ element' = element + 1
      /\ pp_list' = pp_list /\ AST_list' = AST_list
  BY TableCells DEF Shift, Cell, Parsing, Advance
<1>2. /\ stack \in Seq(TokenSet) /\ StackShape(stack) /\ pp_list \in Seq(TokenSet) /\ AST_list \in Seq(TokenSet)
      /\ element \in DOMAIN pp_list /\ pp_list[element] \in TokenSet
      /\ stack # <<>> /\ stack[1].spec = "$"
  BY <1>1, ParsingFacts DEF StackShape
<1>3. PICK at, out : Chart(stack, pp_list[element].spec, pp_list, AST_list, element, at, out)
  BY <1>1 DEF Charted, input
<1>4. \E at2, out2 : Chart(Append(stack, pp_list[element]), input', pp_list, AST_list, element + 1, at2, out2)
  <2>1. pp_list[element].spec \notin {"$", "MARK", "E"}
    BY <1>1 DEF input
  <2> QED BY <1>2, <1>3, <2>1, ChartShift
<1>5. Shifted(stack')
  BY <1>1, <1>2, ShiftShifted DEF Charted
<1> QED BY <1>1, <1>4, <1>5 DEF Charted

LEMMA MarkCharted == ASSUME Inv, Charted, MarkAndShift PROVE Charted'
<1>1. /\ pc = "parse" /\ stack' = Append(stack_mark(stack), pp_list[element]) /\ element' = element + 1
      /\ pp_list' = pp_list /\ AST_list' = AST_list
      /\ input \in BinaryOps \cup {"#", "i", "("} /\ input \in Shifts(stack_n)
  <2>1. input \in Shifts(stack_n)
    BY DEF MarkAndShift, Cell, pp_table
  <2> QED BY <2>1, TableCells DEF MarkAndShift, Cell, Parsing, Advance
<1>2. /\ stack \in Seq(TokenSet) /\ StackShape(stack) /\ pp_list \in Seq(TokenSet) /\ AST_list \in Seq(TokenSet)
      /\ element \in DOMAIN pp_list /\ pp_list[element] \in TokenSet
  BY <1>1, ParsingFacts
<1>3. PICK at, out : Chart(stack, pp_list[element].spec, pp_list, AST_list, element, at, out)
  BY <1>1 DEF Charted, input
<1>6. pp_list[element].spec \notin {"$", "MARK", "E"} /\ pp_list[element].spec \in Shifts(stack_top_term(stack).spec)
  BY <1>1, Alphabet DEF input, stack_n
<1>4. \E at2, out2 : Chart(Append(stack_mark(stack), pp_list[element]), input', pp_list, AST_list, element + 1, at2, out2)
  BY <1>2, <1>3, <1>6, ChartMark
<1>5. Shifted(stack')
  BY <1>1, <1>2, <1>6, MarkShifted DEF Charted
<1> QED BY <1>1, <1>4, <1>5 DEF Charted

LEMMA BeginCharted == ASSUME Inv, ZeroInv, BeginExpression PROVE Charted'
<1>1. stack' = <<DollarToken>> /\ element' = 1 /\ AST_list' = <<>>
  BY DEF BeginExpression, ZeroInv
<1> DEFINE s == <<DollarToken>>
           at == [j \in 1..2 |-> 1]
           w == <<>>
<1>2. s \in Seq(TokenSet) /\ Len(s) = 1 /\ s[1].spec = "$" /\ Len(w) = 0
  BY SpecialTokens DEF DollarToken
<1> HIDE DEF s, w
<1>3. at \in [1..2 -> Nat \ {0}] /\ at[1] = 1 /\ at[2] = 1
  OBVIOUS
<1> HIDE DEF at
<1>4. Chart(s, input', pp_list', w, 1, at, at)
  <2>1. Stand(s[1], Row(s, 1), Above(s, 1, input'), pp_list', w, 1, 1, 1, 1)
    BY <1>2 DEF Stand
  <2> QED BY <1>2, <1>3, <2>1 DEF Chart
<1>5. Shifted(s)
  BY <1>2 DEF Shifted
<1> QED BY <1>1, <1>4, <1>5 DEF Charted, s, w

LEMMA NextCharted == ASSUME Inv, ZeroInv, Charted, [Next]_vars PROVE Charted'
<1>1. CASE Collect \/ GiveBack \/ GiveBackCall \/ EndOfFile \/ ReturnEmpty
  BY <1>1 DEF Collect, GiveBack, GiveBackCall, EndOfFile, ReturnEmpty, Charted
<1>2. CASE BeginExpression
  BY <1>2, BeginCharted
<1>3. CASE GoesOn
  BY <1>3, ShiftCharted, MarkCharted, ReduceOperandCharted, ReduceParensCharted, ReduceLengthCharted,
     ReduceBinaryCharted DEF GoesOn
<1>4. CASE Ends
  BY <1>4, EndsFacts DEF Charted
<1>5. CASE Accept
  BY <1>5 DEF Accept, Charted
<1>6. CASE UNCHANGED vars
  BY <1>6 DEF vars, Charted, input
<1> QED BY <1>1, <1>2, <1>3, <1>4, <1>5, <1>6, Steps

-----------------------------------------------------------------------------
(* What is accepted.                                                        *)

LEMMA ExpressionIsTokens ==
    ASSUME Inv, Conserved, pc = "parse"
    PROVE  /\ Expression = Part(pp_list, 1, Len(pp_list))
           /\ Len(pp_list) \in Nat /\ Len(pp_list) > 1
<1>1. pp_list \in Seq(TokenSet) /\ list \in Seq(TokenSet) /\ Len(pp_list) > 1 /\ pp_list[Len(pp_list)].spec = "$"
  BY DEF Inv, TypeOK, ParseInv, TapeInv
<1>2. Len(pp_list) \in Nat /\ pp_list # <<>>
  BY <1>1
<1>3. Tape = Part(pp_list, 1, Len(pp_list))
  BY <1>1, <1>2 DEF Tape, Part
<1>4. Part(pp_list, 1, Len(pp_list)) \in Seq(TokenSet)
  <2>1. PICK a \in Nat \ {0} : a = 1
    OBVIOUS
  <2>2. a <= Len(pp_list) /\ Len(pp_list) <= Len(pp_list) + 1
    BY <1>1, <1>2, <2>1
  <2>3. Part(pp_list, a, Len(pp_list)) \in Seq(TokenSet)
    BY <1>1, <1>2, <2>2, PartIs
  <2> QED BY <2>1, <2>3
<1>5. Taken = Tape \o list
  BY DEF Conserved, TokensConserved
<1>6. Expression = Tape
  BY <1>1, <1>3, <1>4, <1>5, FrontOf DEF Expression
<1> QED BY <1>1, <1>2, <1>3, <1>6

(* "$" is only at the end of the tape. *)
LEMMA DollarIsLast ==
    ASSUME Inv, pc = "parse", input = "$"
    PROVE  element = Len(pp_list)
<1>1. element \in 1..Len(pp_list) /\ \A k \in 1..(Len(pp_list) - 1) : pp_list[k] \in Retagged
  BY DEF Inv, ParseInv, TypeOK, TapeInv
<1>2. element \in 1..(Len(pp_list) - 1) => FALSE
  BY <1>1, RetaggedFacts DEF input
<1> QED BY <1>1, <1>2

LEMMA AcceptReads ==
    ASSUME Inv, Conserved, Charted, Accept
    PROVE  Yields("expression", Expression, AST_list) /\ Expression # <<>>
<1>1. /\ pc = "parse" /\ stack_n = "$" /\ input = "$" /\ Cell("#") /\ AST_list \in Seq(TokenSet)
      /\ stack \in Seq(TokenSet) /\ StackShape(stack)
  BY TableCells, ParsingFacts DEF Accept, Cell, Parsing
<1>2. Len(stack) = 2 /\ stack[2].spec = "E" /\ stack[1].spec = "$"
  BY <1>1, AcceptFacts DEF StackShape
<1>3. PICK at, out : Chart(stack, "$", pp_list, AST_list, element, at, out)
  BY <1>1 DEF Charted
<1>4. at[1] = 1 /\ out[1] = 1 /\ at[3] = element /\ out[3] = Len(AST_list) + 1
  <2>1. Len(stack) + 1 = 3
    BY <1>2
  <2> QED BY <1>3, <2>1, ChartEnds
<1>5. at[2] = 1 /\ out[2] = 1
  <2>1. PICK j \in Nat, k \in Nat : j = 1 /\ k = 2
    OBVIOUS
  <2>2. k = j + 1 /\ j \in 1..Len(stack) /\ stack[j].spec = "$"
    BY <1>2, <2>1
  <2>3. Between(stack, "$", pp_list, AST_list, element, at, out, j, k)
    BY <1>1, <1>3, <2>2, ChartAt
  <2> QED BY <1>4, <2>1, <2>2, <2>3 DEF Between
<1>6. Covers(Row(stack, 2), Above(stack, 2, "$"), Part(pp_list, 1, element), Part(AST_list, 1, Len(AST_list) + 1))
  <2>1. PICK j \in Nat, k \in Nat : j = 2 /\ k = 3
    OBVIOUS
  <2>2. k = j + 1 /\ j \in 1..Len(stack) /\ stack[j].spec = "E"
    BY <1>2, <2>1
  <2>3. Between(stack, "$", pp_list, AST_list, element, at, out, j, k)
    BY <1>1, <1>3, <2>2, ChartAt
  <2> QED BY <1>4, <1>5, <2>1, <2>2, <2>3 DEF Between
<1>7. Row(stack, 2) = "$"
  BY <1>2 DEF Row
<1>8. Part(AST_list, 1, Len(AST_list) + 1) = AST_list
  BY <1>1, PartWhole
<1>9. Part(pp_list, 1, element) = Expression
  BY <1>1, DollarIsLast, ExpressionIsTokens
<1>10. Yields("expression", Expression, AST_list)
  BY <1>6, <1>7, <1>8, <1>9, PhraseOfRow DEF Covers
<1>11. Expression \in Seq(TokenSet) /\ Expression # <<>>
  <2>1. Len(pp_list) \in Nat /\ Len(pp_list) > 1 /\ Expression = Part(pp_list, 1, Len(pp_list)) /\ pp_list \in Seq(TokenSet)
    BY <1>1, ExpressionIsTokens, ParsingFacts
  <2>2. PICK a \in Nat \ {0} : a = 1
    OBVIOUS
  <2>3. a <= Len(pp_list) /\ Len(pp_list) <= Len(pp_list) + 1
    BY <2>1, <2>2
  <2>4. Part(pp_list, a, Len(pp_list)) \in Seq(TokenSet) /\ Len(Part(pp_list, a, Len(pp_list))) = Len(pp_list) - a
    BY <2>1, <2>3, PartIs
  <2>5. Len(Expression) # 0 /\ Expression \in Seq(TokenSet)
    BY <2>1, <2>2, <2>4
  <2> QED BY <2>5
<1> QED BY <1>10, <1>11

LEMMA NextReference ==
    ASSUME Inv, Conserved, ZeroInv, Charted, PostfixIsReference, [Next]_vars
    PROVE  PostfixIsReference'
<1>1. CASE Collect \/ GiveBack \/ GiveBackCall \/ EndOfFile \/ BeginExpression
  BY <1>1 DEF Collect, GiveBack, GiveBackCall, EndOfFile, BeginExpression, PostfixIsReference
<1>2. CASE ReturnEmpty
  <2>1. pc = "expr" /\ pp_list = <<>> /\ AST_list' = AST_list /\ got' = got /\ list' = list
    BY <1>2 DEF ReturnEmpty
  <2>2. Expression = <<>> /\ AST_list = <<>>
    BY <2>1, ExpressionIsTape DEF ZeroInv
  <2>3. Expression' = Expression
    BY <2>1 DEF Expression, Taken
  <2> QED BY <2>1, <2>2, <2>3 DEF PostfixIsReference
<1>3. CASE GoesOn \/ Ends
  BY <1>3, GoesOnFacts, EndsFacts DEF PostfixIsReference
<1>4. CASE Accept
  <2>1. AST_list' = AST_list /\ got' = got /\ list' = list
    BY <1>4 DEF Accept
  <2>2. Expression' = Expression
    BY <2>1 DEF Expression, Taken
  <2>3. Expression # <<>> /\ Postfix(Expression) = AST_list
    BY <1>4, AcceptReads DEF Yields, Postfix, Of
  <2> QED BY <2>1, <2>2, <2>3 DEF PostfixIsReference
<1>5. CASE UNCHANGED vars
  BY <1>5 DEF vars, PostfixIsReference, Expression, Taken
<1> QED BY <1>1, <1>2, <1>3, <1>4, <1>5, Steps

LEMMA SpecCharted == Spec => [](Inv /\ Conserved /\ ZeroInv /\ Charted)
<1>1. Init => Inv /\ Conserved /\ ZeroInv /\ Charted
  BY InitInv, InitConserved DEF Init, ZeroInv, Pairwise, Charted
<1>2. Inv /\ Conserved /\ ZeroInv /\ Charted /\ [Next]_vars => (Inv /\ Conserved /\ ZeroInv /\ Charted)'
  BY NextInv, NextConserved, NextZero, NextCharted
<1> QED BY <1>1, <1>2, PTL DEF Spec

(* Whatever the tape, an expression that DLL_parse accepts is a sentence of  *)
(* the rules, and what it has listed is the postfix form they give it: the   *)
(* precedence table and the handles of reduce implement the declared         *)
(* precedences and associativities.                                          *)
THEOREM AcceptsAsReferenceReads == Spec => []PostfixIsReference
<1>1. Init => PostfixIsReference
  BY DEF Init, PostfixIsReference
<1>2. Inv /\ Conserved /\ ZeroInv /\ Charted /\ PostfixIsReference /\ [Next]_vars => PostfixIsReference'
  BY NextReference
<1> QED BY <1>1, <1>2, SpecCharted, PTL DEF Spec

-----------------------------------------------------------------------------
(* Rejection: a tape that holds a sentence never meets an empty cell of the  *)
(* table, nor a handle that no rule fits.                                    *)

(* What is known of a tape q that holds a sentence, up to its "$".           *)
Readable(q) ==
    /\ Len(q) > 1 /\ q[Len(q)].spec = "$"
    /\ \A i \in 1..Len(q) : q[i].spec \in TableSymbols
    /\ q[1].spec \in {"i", "(", "#"}
    /\ \A i \in 2..Len(q) : Follows(q[i - 1].spec, q[i].spec)
    /\ Depth(q, Len(q)) = 0 /\ \A i \in 1..Len(q) : Depth(q, i) >= 0
    /\ \A p, r : ~Clash(q, p, r)

(* s is the elements of q from a up to, not including, b. *)
Slice(s, q, a, b) ==
    s \in Seq(TokenSet) /\ Len(s) = b - a /\ \A i \in 1..(b - a) : s[i] = q[a + i - 1]

LEMMA PartAs ==
    ASSUME NEW q \in Seq(TokenSet), NEW a \in Nat \ {0}, NEW b \in Nat, a <= b, b <= Len(q) + 1,
           NEW s, s = Part(q, a, b)
    PROVE  Slice(s, q, a, b)
<1>1. /\ Part(q, a, b) \in Seq(TokenSet) /\ Len(Part(q, a, b)) = b - a
      /\ \A i \in 1..(b - a) : Part(q, a, b)[i] = q[a + i - 1]
  BY PartIs
<1>2. Slice(Part(q, a, b), q, a, b)
  BY <1>1 DEF Slice
<1> QED BY <1>2, Zenon

LEMMA SentenceIsReadable ==
    ASSUME NEW q \in Seq(TokenSet), Len(q) > 1, q[Len(q)].spec = "$",
           NEW w, w = Part(q, 1, Len(q)), Known("expression", w)
    PROVE  Readable(q)
<1> DEFINE n == Len(q)
<1>0. n \in Nat /\ n > 1 /\ q[n].spec = "$"
  OBVIOUS
<1>1. w \in Seq(TokenSet) /\ Len(w) = n - 1 /\ \A i \in 1..(n - 1) : w[i] = q[i]
  <2>1. PICK a \in Nat \ {0}, b \in Nat : a = 1 /\ b = n
    BY <1>0
  <2>2. a <= b /\ b <= Len(q) + 1 /\ w = Part(q, a, b)
    BY <1>0, <2>1
  <2> HIDE DEF n
  <2>3. w \in Seq(TokenSet) /\ Len(w) = b - a /\ \A i \in 1..(b - a) : w[i] = q[a + i - 1]
    <3>1. Slice(w, q, a, b)
      BY <2>2, PartAs
    <3> QED BY <3>1 DEF Slice
  <2>4. ASSUME NEW i \in 1..(n - 1) PROVE w[i] = q[i]
    <3>1. i \in 1..(b - a) /\ a + i - 1 = i
      BY <1>0, <2>1
    <3> QED BY <2>3, <3>1
  <2> QED BY <2>1, <2>3, <2>4
<1>2. "expression" \in Rules
  BY DEF Rules
<1>3. Regular(w) /\ Closed(w) /\ \A p, r : ~Clash(w, p, r)
  BY <1>1, <1>2, PhraseRegular, PhraseBalanced, NoClashes DEF RegularBy, Balanced
<1> HIDE DEF n
<1>4. /\ \A i \in 1..Len(w) : w[i].spec \in TableSymbols \ {"$"}
      /\ w[1].spec \in {"i", "(", "#"} /\ w[Len(w)].spec \in {"i", ")"}
      /\ \A i \in 1..(Len(w) - 1) : Follows(w[i].spec, w[i + 1].spec)
  BY <1>3 DEF Regular
<1>5. ASSUME NEW i \in 1..n PROVE Depth(q, i) = Depth(w, i)
  <2>1. PICK z \in Nat, m \in Nat : z = 0 /\ m = n - 1
    BY <1>0
  <2>2. Inside(q, w, z, m)
    BY <1>1, <2>1 DEF Inside
  <2>3. i \in 1..(m + 1)
    BY <1>0, <2>1
  <2>4. Depth(q, z + i) = Depth(q, z + 1) + Depth(w, i)
    BY <2>2, <2>3, DepthInside
  <2>5. Depth(q, z + 1) = 0 /\ z + i = i
    BY <2>1, DepthFirst
  <2>6. Depth(w, i) \in Int
    <3>1. i \in Nat \ {0}
      BY <1>0
    <3> QED BY <3>1, DepthNext
  <2> QED BY <2>4, <2>5, <2>6
<1>6. Depth(q, n) = 0 /\ \A i \in 1..n : Depth(q, i) >= 0
  <2>1. n = Len(w) + 1 /\ n \in 1..n
    BY <1>0, <1>1
  <2> QED BY <1>3, <1>5, <2>1 DEF Closed
<1>7. ASSUME NEW i \in 1..n PROVE q[i].spec \in TableSymbols
  <2>1. i = n \/ i \in 1..(n - 1)
    BY <1>0
  <2>2. "$" \in TableSymbols
    BY TableSymbolsAre
  <2> QED BY <1>0, <1>1, <1>4, <2>1, <2>2
<1>8. q[1].spec \in {"i", "(", "#"}
  <2>1. 1 \in 1..(n - 1)
    BY <1>0
  <2> QED BY <1>1, <1>4, <2>1
<1>9. ASSUME NEW i \in 2..n PROVE Follows(q[i - 1].spec, q[i].spec)
  <2>1. CASE i = n
    <3>1. i - 1 \in 1..(n - 1) /\ i - 1 = Len(w)
      BY <1>0, <1>1, <2>1
    <3>2. q[i - 1].spec \in {"i", ")"}
      BY <1>1, <1>4, <3>1
    <3> QED BY <1>0, <2>1, <3>2 DEF Follows
  <2>2. CASE i # n
    <3>1. i - 1 \in 1..(n - 1) /\ i \in 1..(n - 1) /\ i - 1 \in 1..(Len(w) - 1) /\ (i - 1) + 1 = i
      BY <1>0, <1>1, <2>2
    <3>2. w[i - 1] = q[i - 1] /\ w[i] = q[i]
      BY <1>1, <3>1
    <3>3. Follows(w[i - 1].spec, w[(i - 1) + 1].spec)
      BY <1>4, <3>1
    <3> QED BY <3>1, <3>2, <3>3
  <2> QED BY <2>1, <2>2
<1>10. ASSUME NEW p, NEW r, Clash(q, p, r) PROVE FALSE
  <2>1. /\ p \in 1..n /\ r \in 1..n /\ p < r /\ Depth(q, p) = Depth(q, r)
        /\ (q[p].spec \in Infix /\ q[r].spec = "..") \/ (q[p].spec = ".." /\ q[r].spec \in Infix)
        /\ \A i \in (p + 1)..(r - 1) :
              Depth(q, i) >= Depth(q, p) /\ ~(Depth(q, i) = Depth(q, p) /\ q[i].spec \in Ops)
    BY <1>10 DEF Clash, n
  <2>2. r # n
    BY <1>0, <2>1, TableSymbolsAre
  <2>3. p \in 1..(n - 1) /\ r \in 1..(n - 1) /\ p \in 1..Len(w) /\ r \in 1..Len(w)
    BY <1>0, <1>1, <2>1, <2>2
  <2>4. w[p] = q[p] /\ w[r] = q[r] /\ Depth(w, p) = Depth(q, p) /\ Depth(w, r) = Depth(q, r)
    BY <1>1, <1>5, <2>1, <2>3
  <2>5. ASSUME NEW i \in (p + 1)..(r - 1)
        PROVE  Depth(w, i) >= Depth(w, p) /\ ~(Depth(w, i) = Depth(w, p) /\ w[i].spec \in Ops)
    <3>1. i \in 1..(n - 1) /\ i \in 1..n
      BY <1>0, <2>3
    <3>2. w[i] = q[i] /\ Depth(w, i) = Depth(q, i)
      BY <1>1, <1>5, <3>1
    <3> QED BY <2>1, <2>4, <3>2
  <2>6. Clash(w, p, r)
    BY <2>1, <2>3, <2>4, <2>5 DEF Clash
  <2> QED BY <1>3, <2>6
<1>11. n = Len(q)
  BY DEF n
<1> QED BY <1>0, <1>6, <1>7, <1>8, <1>9, <1>10, <1>11 DEF Readable

LEMMA BlankCells ==
    ASSUME NEW r \in TableSymbols, NEW c \in TableSymbols, pp_table(r, c) = "_"
    PROVE  \/ r \in Infix /\ c = ".."
           \/ r = ".." /\ c \in Infix \cup {"#"}
           \/ r = "#" /\ c = "#"
           \/ r = "(" /\ c = "$"
           \/ r = "$" /\ c = ")"
           \/ r \in {"i", ")"} /\ c \in {"#", "i", "("}
<1>1. c \notin Shifts(r) /\ c \notin Reduces(r) /\ ~(r = "(" /\ c = ")") /\ ~(r = "$" /\ c = "$")
  BY DEF pp_table
<1>2. Infix = AddOps \cup MulOps \cup RelOps /\ BinaryOps = Infix \cup {".."}
      /\ r \in AddOps \cup MulOps \cup RelOps \cup {"..", "#", "i", "(", ")", "$"}
      /\ c \in AddOps \cup MulOps \cup RelOps \cup {"..", "#", "i", "(", ")", "$"}
  BY TableSymbolsAre, OperatorCases
<1>3. CASE r \in AddOps
  <2>1. Shifts(r) = MulOps \cup {"#", "i", "("} /\ Reduces(r) = AddOps \cup RelOps \cup {")", "$"}
    BY <1>3, ShiftsAre, ReducesAre
  <2> QED BY <1>1, <1>2, <1>3, <2>1
<1>4. CASE r \in MulOps
  <2>1. Shifts(r) = {"#", "i", "("} /\ Reduces(r) = AddOps \cup MulOps \cup RelOps \cup {")", "$"}
    BY <1>4, ShiftsAre, ReducesAre
  <2> QED BY <1>1, <1>2, <1>4, <2>1
<1>5. CASE r \in RelOps
  <2>1. Shifts(r) = AddOps \cup MulOps \cup {"#", "i", "("} /\ Reduces(r) = RelOps \cup {")", "$"}
    BY <1>5, ShiftsAre, ReducesAre
  <2> QED BY <1>1, <1>2, <1>5, <2>1
<1>6. CASE r = ".."
  <2>1. Shifts(r) = {"..", "i", "("} /\ Reduces(r) = {")", "$"}
    BY <1>6, ShiftsAre, ReducesAre
  <2> QED BY <1>1, <1>2, <1>6, <2>1
<1>7. CASE r = "#"
  <2>1. Shifts(r) = {"..", "i", "("} /\ Reduces(r) = AddOps \cup MulOps \cup RelOps \cup {")", "$"}
    BY <1>7, ShiftsAre, ReducesAre
  <2> QED BY <1>1, <1>2, <1>7, <2>1
<1>8. CASE r \in {"(", "$"}
  BY <1>1, <1>2, <1>8, ShiftsAre
<1>9. CASE r \in {"i", ")"}
  <2>1. Reduces(r) = BinaryOps \cup {")", "$"}
    BY <1>9, OperatorCases DEF Reduces
  <2> QED BY <1>1, <1>2, <1>9, <2>1
<1> QED BY <1>2, <1>3, <1>4, <1>5, <1>6, <1>7, <1>8, <1>9

(* The top of the stack is the last token read. *)
LEMMA TopToken ==
    ASSUME NEW s \in Seq(TokenSet), StackShape(s), NEW q, NEW w, NEW e, NEW c,
           NEW at, NEW out, Chart(s, c, q, w, e, at, out), s[Len(s)].spec # "E"
    PROVE  IF s[Len(s)].spec = "$" THEN e = 1
           ELSE e \in Nat /\ e > 1 /\ q[e - 1] = s[Len(s)]
<1>1. Len(s) \in Nat \ {0} /\ s[Len(s)].spec # "MARK"
  BY TopTerm DEF StackShape
<1>2. PICK n \in Nat \ {0}, k \in Nat : n = Len(s) /\ k = n + 1
  BY <1>1
<1>3. Between(s, c, q, w, e, at, out, n, k)
  <2>1. n \in 1..Len(s)
    BY <1>2
  <2> QED BY <1>2, <2>1, ChartAt
<1>4. at[1] = 1 /\ at[k] = e
  BY <1>2, ChartEnds
<1>5. CASE s[n].spec = "$"
  <2>1. n \in DOMAIN s
    BY <1>2
  <2>2. n = 1
    BY <1>5, <2>1, OneDollar
  <2> QED BY <1>2, <1>3, <1>4, <1>5, <2>2 DEF Between
<1>6. CASE s[n].spec # "$"
  <2>1. at[n] \in Nat \ {0} /\ e = at[n] + 1 /\ s[n] = q[at[n]]
    BY <1>1, <1>2, <1>3, <1>4, <1>6 DEF Between
  <2>2. e - 1 = at[n] /\ e > 1 /\ e \in Nat
    BY <2>1
  <2> QED BY <1>2, <1>6, <2>1, <2>2
<1> QED BY <1>5, <1>6

(* What the nonterminal on top of the stack stands for. *)
Piece(q, a, e, r, c, x) ==
    /\ a \in Nat \ {0} /\ e \in Nat /\ a < e /\ x = Part(q, a, e) /\ x \in Seq(TokenSet)
    /\ IF r = "$" THEN a = 1 ELSE a > 1 /\ q[a - 1].spec = r
    /\ Closed(x) /\ TopSyms(x) \subseteq Shifts(r) \cup {".."} /\ \A o \in TopSyms(x) : c \in Reduces(o)

LEMMA TopPiece ==
    ASSUME NEW s \in Seq(TokenSet), StackShape(s), NEW q \in Seq(TokenSet), NEW w, NEW e \in DOMAIN q, NEW c,
           NEW at, NEW out, Chart(s, c, q, w, e, at, out), s[Len(s)].spec = "E"
    PROVE  \E a, x : Piece(q, a, e, s[Len(s) - 1].spec, c, x)
<1>1. Len(s) \in Nat /\ Len(s) > 1 /\ s[Len(s) - 1].spec \notin {"MARK", "E"}
  <2>1. Len(s) \in Nat /\ Len(s) > 1
    BY TopTerm
  <2>2. TopTermAt(s) = Len(s) - 1
    BY TopTerm
  <2>3. s[Len(s) - 1].spec \notin {"MARK", "E"}
    BY <2>2, TopTerm DEF stack_top_term
  <2> QED BY <2>1, <2>3
<1>2. PICK m \in Nat \ {0}, n \in Nat \ {0}, k \in Nat : m = Len(s) - 1 /\ n = m + 1 /\ k = n + 1 /\ n = Len(s)
  BY <1>1
<1>3. Between(s, c, q, w, e, at, out, n, k) /\ Between(s, c, q, w, e, at, out, m, n)
  <2>1. n \in 1..Len(s) /\ m \in 1..Len(s)
    BY <1>2
  <2> QED BY <1>2, <2>1, ChartAt
<1>4. at[1] = 1 /\ at[k] = e
  BY <1>2, ChartEnds
<1>5. PICK a \in Nat \ {0} : a = at[n]
  BY <1>3 DEF Between
<1>6. PICK x : x = Part(q, a, e)
  OBVIOUS
<1>7. a <= e /\ e \in Nat /\ e <= Len(q) /\ Len(q) \in Nat
  BY <1>3, <1>4, <1>5 DEF Between
<1>8. Covers(s[m].spec, c, x, Part(w, out[n], out[k]))
  <2>1. Row(s, n) = s[m].spec
    <3>1. n - 1 = m
      BY <1>2
    <3> QED BY <1>1, <1>2, <3>1 DEF Row
  <2>2. Above(s, n, c) = c
    BY <1>2 DEF Above
  <2>3. s[n].spec = "E"
    BY <1>2
  <2> QED BY <1>3, <1>4, <1>5, <1>6, <2>1, <2>2, <2>3 DEF Between
<1>9. IF s[m].spec = "$" THEN a = 1 ELSE a > 1 /\ q[a - 1].spec = s[m].spec
  <2>1. CASE s[m].spec = "$"
    <3>1. m \in DOMAIN s
      BY <1>2
    <3>2. m = 1
      BY <2>1, <3>1, OneDollar
    <3> QED BY <1>3, <1>4, <1>5, <2>1, <3>2 DEF Between
  <2>2. CASE s[m].spec # "$"
    <3>1. at[m] \in Nat \ {0} /\ a = at[m] + 1 /\ s[m] = q[at[m]]
      BY <1>1, <1>2, <1>3, <1>5, <2>2 DEF Between
    <3>2. a - 1 = at[m] /\ a > 1
      BY <3>1
    <3> QED BY <2>2, <3>1, <3>2
  <2> QED BY <2>1, <2>2
<1>10. x \in Seq(TokenSet) /\ Len(x) = e - a
  <2>1. e <= Len(q) + 1
    BY <1>7
  <2> QED BY <1>6, <1>7, <2>1, PartIs
<1>11. x # <<>>
  <2>1. Phrase(s[m].spec) \in Rules /\ Known(Phrase(s[m].spec), x)
    BY <1>8, PhraseOfRow DEF Covers, Yields, Known
  <2> QED BY <1>10, <2>1, PhraseBalanced DEF Balanced
<1>12. a < e
  <2>1. Len(x) # 0
    BY <1>10, <1>11
  <2> QED BY <1>7, <1>10, <2>1
<1>13. Piece(q, a, e, s[m].spec, c, x)
  BY <1>6, <1>7, <1>8, <1>9, <1>10, <1>12 DEF Piece, Covers
<1> QED BY <1>2, <1>13

LEMMA PieceFacts ==
    ASSUME NEW q \in Seq(TokenSet), NEW e \in 1..Len(q), NEW a, NEW r, NEW c, NEW x, Piece(q, a, e, r, c, x)
    PROVE  /\ Len(x) = e - a /\ \A i \in 1..(e - a) : x[i] = q[a + i - 1]
           /\ Depth(q, a) \in Int /\ Depth(q, e) = Depth(q, a)
           /\ \A i \in a..e : /\ Depth(q, i) = Depth(q, a) + Depth(x, i - a + 1) /\ Depth(q, i) >= Depth(q, a)
                              /\ Depth(x, i - a + 1) \in Int
<1>8. x = Part(q, a, e) /\ x \in Seq(TokenSet) /\ Closed(x)
  BY DEF Piece
<1>9. e \in Nat /\ e <= Len(q) + 1
  OBVIOUS
<1>0. a \in Nat \ {0} /\ e \in Nat /\ a < e
  BY DEF Piece
<1>1. /\ Len(x) = e - a /\ \A i \in 1..(e - a) : x[i] = q[a + i - 1]
  <2>1. a <= e
    BY <1>0
  <2>2. Slice(x, q, a, e)
    BY <1>0, <1>8, <1>9, <2>1, PartAs
  <2> QED BY <2>2 DEF Slice
<1>2. PICK z \in Nat, m \in Nat : z = a - 1 /\ m = e - a
  <2>1. a - 1 \in Nat /\ e - a \in Nat
    BY <1>0
  <2> QED BY <2>1
<1>3. Inside(q, x, z, m)
  <2>1. ASSUME NEW i \in 1..m PROVE x[i] = q[z + i]
    <3>1. i \in 1..(e - a) /\ a + i - 1 = z + i
      BY <1>0, <1>2
    <3> QED BY <1>1, <3>1
  <2> QED BY <2>1 DEF Inside
<1>4. \A i \in 1..(m + 1) : Depth(q, z + i) = Depth(q, z + 1) + Depth(x, i)
  BY <1>3, DepthInside
<1>5. z + 1 = a /\ Depth(q, a) \in Int
  BY <1>0, <1>2, DepthNext
<1>6. ASSUME NEW i \in a..e
      PROVE  /\ Depth(q, i) = Depth(q, a) + Depth(x, i - a + 1) /\ Depth(x, i - a + 1) \in Int
             /\ Depth(q, i) >= Depth(q, a) /\ (i = e => Depth(q, i) = Depth(q, a))
  <2>1. PICK j \in Nat \ {0} : j = i - a + 1
    BY <1>0
  <2>2. j \in 1..(m + 1) /\ z + j = i /\ j \in 1..(Len(x) + 1) /\ (i = e => j = Len(x) + 1)
    BY <1>0, <1>1, <1>2, <2>1
  <2>3. Depth(q, z + j) = Depth(q, z + 1) + Depth(x, j)
    BY <1>4, <2>2
  <2>4. Depth(x, j) \in Int /\ Depth(x, j) >= 0 /\ (i = e => Depth(x, j) = 0)
    BY <1>8, <2>1, <2>2, DepthNext DEF Closed
  <2>5. Depth(q, i) = Depth(q, a) + Depth(x, j)
    BY <1>5, <2>2, <2>3
  <2> QED BY <1>5, <2>1, <2>4, <2>5
<1>7. e \in a..e
  BY <1>0
<1> QED BY <1>1, <1>5, <1>6, <1>7

(* Between two operators that do not go together lie only operands. *)
LEMMA PieceClash ==
    ASSUME NEW q \in Seq(TokenSet), NEW e \in 1..Len(q), NEW a, NEW r, NEW c, NEW x, Piece(q, a, e, r, c, x),
           TopSyms(x) = {}, q[e].spec = c, r # "$",
           (r \in Infix /\ c = "..") \/ (r = ".." /\ c \in Infix)
    PROVE  Clash(q, a - 1, e)
<1>0. a \in Nat \ {0} /\ e \in Nat /\ a < e /\ a > 1
  BY DEF Piece
<1>7. q[a - 1].spec = r /\ x \in Seq(TokenSet)
  BY DEF Piece
<1>8. Len(q) \in Nat /\ e <= Len(q)
  OBVIOUS
<1>1. PICK p \in Nat \ {0} : p = a - 1
  BY <1>0
<1>2. p \in 1..Len(q) /\ e \in 1..Len(q) /\ p < e /\ p + 1 = a /\ q[p].spec = r
  <2>1. p \in 1..Len(q) /\ e \in 1..Len(q) /\ p < e /\ p + 1 = a
    BY <1>0, <1>1, <1>8
  <2> QED BY <1>1, <1>7, <2>1
<1>3. /\ Len(x) = e - a /\ \A i \in 1..(e - a) : x[i] = q[a + i - 1]
      /\ Depth(q, a) \in Int /\ Depth(q, e) = Depth(q, a)
      /\ \A i \in a..e : /\ Depth(q, i) = Depth(q, a) + Depth(x, i - a + 1) /\ Depth(q, i) >= Depth(q, a)
                         /\ Depth(x, i - a + 1) \in Int
  BY PieceFacts
<1>4. Depth(q, p) = Depth(q, a)
  <2>1. r \notin {"(", ")"}
    BY TableSymbolsAre
  <2>2. Turn(q[p]) = 0
    BY <1>2, <2>1 DEF Turn
  <2>3. Depth(q, p) \in Int /\ Depth(q, p + 1) = Depth(q, p) + Turn(q[p])
    BY DepthNext
  <2> QED BY <1>2, <2>2, <2>3
<1>5. ASSUME NEW i \in (p + 1)..(e - 1)
      PROVE  Depth(q, i) >= Depth(q, p) /\ ~(Depth(q, i) = Depth(q, p) /\ q[i].spec \in Ops)
  <2>0. a \in Nat /\ e \in Nat /\ p + 1 = a
    BY <1>0, <1>2
  <2>1. i \in a..e /\ i - a + 1 \in 1..(e - a) /\ a + (i - a + 1) - 1 = i
    BY <2>0
  <2>2. PICK j \in 1..(e - a) : j = i - a + 1
    BY <2>1
  <2>3. x[j] = q[i]
    BY <1>3, <2>1, <2>2
  <2>4. Depth(q, i) = Depth(q, a) + Depth(x, j) /\ Depth(q, i) >= Depth(q, a) /\ Depth(x, j) \in Int
    BY <1>3, <2>1, <2>2
  <2>5. ~TopOp(x, j)
    BY <1>7, TopSymsAre DEF Flat
  <2>6. Depth(q, i) = Depth(q, a) => Depth(x, j) = 0
    BY <1>3, <2>4
  <2>7. j \in 1..Len(x)
    BY <1>3
  <2> QED BY <1>4, <2>3, <2>4, <2>5, <2>6, <2>7 DEF TopOp
<1>6. Clash(q, p, e)
  BY <1>2, <1>3, <1>4, <1>5 DEF Clash
<1> QED BY <1>1, <1>6

(* c is the next token of q at e; r the one before it, "$" at the beginning. *)
Ahead(q, e, c) == q[e].spec = c /\ (c = "$" => e = Len(q))
Behind(q, e, r) == IF r = "$" THEN e = 1 ELSE e > 1 /\ q[e - 1].spec = r
Blank(r, c) == pp_table(r, c) = "_"

LEMMA NextFollows ==
    ASSUME NEW q \in Seq(TokenSet), Readable(q), NEW e \in 1..Len(q), NEW c, Ahead(q, e, c),
           NEW r, Behind(q, e, r)
    PROVE  c \in TableSymbols /\ IF r = "$" THEN c \in {"i", "(", "#"} ELSE Follows(r, c)
<1>1. c \in TableSymbols
  BY DEF Readable, Ahead
<1>2. CASE r = "$"
  <2>1. e = 1
    BY <1>2 DEF Behind
  <2>2. q[1].spec \in {"i", "(", "#"}
    BY DEF Readable
  <2> QED BY <1>1, <1>2, <2>1, <2>2 DEF Ahead
<1>3. CASE r # "$"
  <2>1. e > 1
    BY <1>3 DEF Behind
  <2>2. e \in 2..Len(q)
    BY <2>1
  <2>3. Follows(q[e - 1].spec, q[e].spec)
    BY <2>2 DEF Readable
  <2>4. q[e - 1].spec = r
    BY <1>3 DEF Behind
  <2> QED BY <1>1, <1>3, <2>3, <2>4 DEF Ahead
<1> QED BY <1>2, <1>3

(* No empty cell of the table is met on a readable tape.                    *)
LEMMA NoBlankUnderToken ==
    ASSUME NEW q \in Seq(TokenSet), Readable(q), NEW e \in 1..Len(q), NEW c, Ahead(q, e, c),
           NEW r \in TableSymbols, Behind(q, e, r), Blank(r, c)
    PROVE  FALSE
<1>1. c \in TableSymbols /\ IF r = "$" THEN c \in {"i", "(", "#"} ELSE Follows(r, c)
  BY NextFollows
<1>2. \/ r \in Infix /\ c = ".."
      \/ r = ".." /\ c \in Infix \cup {"#"}
      \/ r = "#" /\ c = "#"
      \/ r = "(" /\ c = "$"
      \/ r = "$" /\ c = ")"
      \/ r \in {"i", ")"} /\ c \in {"#", "i", "("}
  BY <1>1, BlankCells DEF Blank
<1>3. /\ BinaryOps = Infix \cup {".."}
      /\ \A y \in {"..", "#", "i", "(", ")", "$"} : y \notin Infix
  BY TableSymbolsAre
<1>4. CASE r = "$"
  BY <1>1, <1>2, <1>3, <1>4
<1>5. CASE r # "$"
  <2>1. \/ c \in {"i", "(", "#"} /\ r \notin {"i", ")"} /\ (r \in {"..", "#"} => c # "#")
        \/ c \in Infix \cup {"..", ")", "$"} /\ r \in {"i", ")"}
    BY <1>1, <1>3, <1>5 DEF Follows
  <2> QED BY <1>2, <1>3, <1>5, <2>1
<1> QED BY <1>4, <1>5

(* The depth of the tape at a piece under "(", or that begins the tape.     *)
LEMMA NoOpenAtEnd ==
    ASSUME NEW q \in Seq(TokenSet), Readable(q), NEW e \in 1..Len(q), Ahead(q, e, "$"),
           NEW a, NEW x, Piece(q, a, e, "(", "$", x)
    PROVE  FALSE
<1>1. a \in Nat \ {0} /\ a > 1 /\ a < e /\ e \in Nat
  BY DEF Piece
<1>2. q[a - 1].spec = "("
  BY DEF Piece
<1>3. PICK p \in Nat \ {0} : p = a - 1
  BY <1>1
<1>4. p \in 1..Len(q) /\ p + 1 = a
  BY <1>1, <1>3
<1>5. q[p].spec = "("
  BY <1>2, <1>3
<1>6. Depth(q, p) \in Int /\ Depth(q, p + 1) = Depth(q, p) + Turn(q[p])
  BY DepthNext
<1>7. Turn(q[p]) = 1
  BY <1>5 DEF Turn
<1>8. Depth(q, p) >= 0
  BY <1>4 DEF Readable
<1>9. Depth(q, e) = 0
  <2>1. e = Len(q)
    BY DEF Ahead
  <2> QED BY <2>1 DEF Readable
<1>10. Depth(q, e) = Depth(q, a)
  BY PieceFacts
<1> QED BY <1>4, <1>6, <1>7, <1>8, <1>9, <1>10

LEMMA NoCloseAtStart ==
    ASSUME NEW q \in Seq(TokenSet), Readable(q), NEW e \in 1..Len(q), Ahead(q, e, ")"),
           NEW a, NEW x, Piece(q, a, e, "$", ")", x)
    PROVE  FALSE
<1>1. a = 1
  BY DEF Piece
<1>2. Depth(q, e) = 0
  BY <1>1, PieceFacts, DepthFirst
<1>3. q[e].spec = ")"
  BY DEF Ahead
<1>4. e # Len(q)
  BY <1>3 DEF Readable
<1>5. e + 1 \in 1..Len(q) /\ e \in Nat \ {0}
  BY <1>4
<1>6. Depth(q, e + 1) = Depth(q, e) + Turn(q[e])
  BY <1>5, DepthNext
<1>7. Turn(q[e]) = -1
  BY <1>3 DEF Turn
<1>8. Depth(q, e + 1) >= 0
  BY <1>5 DEF Readable
<1> QED BY <1>2, <1>6, <1>7, <1>8

LEMMA NoBlankUnderPiece ==
    ASSUME NEW q \in Seq(TokenSet), Readable(q), NEW e \in 1..Len(q), NEW c, Ahead(q, e, c),
           NEW r \in TableSymbols, NEW a, NEW x, Piece(q, a, e, r, c, x),
           c \notin {"#", "i", "("}, r \notin {"i", ")"}, Blank(r, c)
    PROVE  FALSE
<1>1. c \in TableSymbols /\ q[e].spec = c
  BY DEF Readable, Ahead
<1>2. \/ r \in Infix /\ c = ".."
      \/ r = ".." /\ c \in Infix
      \/ r = "(" /\ c = "$"
      \/ r = "$" /\ c = ")"
  BY <1>1, BlankCells DEF Blank
<1>3. x \in Seq(TokenSet)
  BY DEF Piece
<1>4. TopSyms(x) \subseteq Shifts(r) \cup {".."} /\ TopSyms(x) \subseteq Ops
      /\ \A o \in TopSyms(x) : c \in Reduces(o)
  BY <1>3, TopSymsAre DEF Piece
<1>5. ASSUME (r \in Infix /\ c = "..") \/ (r = ".." /\ c \in Infix), TopSyms(x) = {} PROVE FALSE
  <2>1. r # "$"
    BY <1>5, TableSymbolsAre
  <2>2. Clash(q, a - 1, e)
    BY <1>1, <1>5, <2>1, PieceClash
  <2> QED BY <2>2 DEF Readable
<1>6. CASE r \in Infix /\ c = ".."
  <2>1. ASSUME NEW o \in TopSyms(x) PROVE FALSE
    <3>1. o \in Ops /\ ".." \in Reduces(o)
      BY <1>4, <1>6
    <3> QED BY <3>1, ReducesAre, OperatorCases
  <2>2. TopSyms(x) = {}
    BY <2>1
  <2> QED BY <1>5, <1>6, <2>2
<1>7. CASE r = ".." /\ c \in Infix
  <2>1. ASSUME NEW o \in TopSyms(x) PROVE FALSE
    <3>1. o \in Ops /\ c \in Reduces(o) /\ o \in {"..", "i", "("}
      BY <1>4, <1>7, ShiftsAre
    <3>2. o = ".."
      BY <3>1, Symbols
    <3>3. c \in {")", "$"}
      BY <3>1, <3>2, ReducesAre
    <3> QED BY <1>7, <3>3, TableSymbolsAre
  <2>2. TopSyms(x) = {}
    BY <2>1
  <2> QED BY <1>5, <1>7, <2>2
<1>8. CASE r = "(" /\ c = "$"
  BY <1>8, NoOpenAtEnd
<1>9. CASE r = "$" /\ c = ")"
  BY <1>9, NoCloseAtStart
<1> QED BY <1>2, <1>6, <1>7, <1>8, <1>9

-----------------------------------------------------------------------------
(* The handles that no rule fits.                                            *)

(* The k-th symbol of a right side lies at index i of the stack, if it is    *)
(* above the mark at m.                                                      *)
SymbolIs(s, k, i) == Rhs(s)[k] = s[i]
NoSymbol(s, k) == Rhs(s)[k] = EmptyToken

LEMMA HandleIs ==
    ASSUME NEW s \in Seq(TokenSet), NEW m \in 1..Len(s), m = MarkAt(s)
    PROVE  Len(Handle(s)) = Len(s) - m /\ \A j \in 1..(Len(s) - m) : Handle(s)[j] = s[m + j]
<1>1. Len(s) \in Nat
  OBVIOUS
<1>2. Handle(s) = SubSeq(s, m + 1, Len(s))
  BY DEF Handle
<1>3. Len(SubSeq(s, m + 1, Len(s))) = Len(s) - m
  BY <1>1
<1>4. \A j \in 1..(Len(s) - m) : SubSeq(s, m + 1, Len(s))[j] = s[m + j]
  BY <1>1
<1> QED BY <1>2, <1>3, <1>4

InHandle(n, m, k, i, d) == k + d - 2 \in 1..d /\ m + (k + d - 2) = i

LEMMA IndexInHandle ==
    ASSUME NEW n \in Nat, NEW m \in 1..n, NEW k \in 0..2, NEW i \in Int, i = n - 2 + k, i > m, NEW d \in Nat, d = n - m
    PROVE  InHandle(n, m, k, i, d)
BY DEF InHandle

LEMMA SymbolAt ==
    ASSUME NEW s \in Seq(TokenSet), NEW n \in Nat, n = Len(s), NEW m \in 1..n, m = MarkAt(s),
           NEW k \in 0..2, NEW i \in Int, i = n - 2 + k, i > m
    PROVE  SymbolIs(s, k, i)
<1> DEFINE h == Handle(s)
<1>1. Len(h) = n - m /\ \A j \in 1..(n - m) : h[j] = s[m + j]
  BY HandleIs
<1>2. Rhs(s)[k] = IF k + Len(h) < 3 THEN EmptyToken ELSE h[k + Len(h) - 2]
  BY DEF Rhs
<1> HIDE DEF h
<1>3. PICK d \in Nat : d = n - m
  OBVIOUS
<1>7. k + d - 2 \in 1..d /\ m + (k + d - 2) = i
  <2>1. InHandle(n, m, k, i, d)
    BY <1>3, IndexInHandle
  <2> QED BY <2>1 DEF InHandle
<1>4. PICK j \in 1..d : j = k + d - 2 /\ m + j = i
  BY <1>7
<1>5. ~(k + d < 3)
  BY <1>4
<1>6. Len(h) = d /\ h[j] = s[m + j]
  BY <1>1, <1>3
<1> QED BY <1>2, <1>4, <1>5, <1>6 DEF SymbolIs

LEMMA SymbolBelow ==
    ASSUME NEW s \in Seq(TokenSet), NEW n \in Nat, n = Len(s), NEW m \in 1..n, m = MarkAt(s),
           NEW k \in 0..2, k + (n - m) < 3
    PROVE  NoSymbol(s, k)
<1> DEFINE h == Handle(s)
<1>1. Len(h) = n - m
  BY HandleIs
<1>2. Rhs(s)[k] = IF k + Len(h) < 3 THEN EmptyToken ELSE h[k + Len(h) - 2]
  BY DEF Rhs
<1> HIDE DEF h
<1> QED BY <1>1, <1>2 DEF NoSymbol

(* A handle that is no right side of a rule ends in an operator, lacks its   *)
(* left operand or is an empty pair of parentheses.                          *)
Unfit(s, n, m) ==
    \/ s[n].spec \in BinaryOps \cup {"#"}
    \/ n = m + 2 /\ s[m + 1].spec \in BinaryOps
    \/ n = m + 2 /\ s[m + 1].spec = "(" /\ s[n].spec = ")"

Fits3(r) == IsOperand(r) \/ IsParens(r) \/ IsLength(r) \/ IsBinary(r)

LEMMA OneFits ==
    ASSUME NEW s \in Seq(TokenSet), NEW n \in Nat, n = Len(s), NEW m \in 1..n, m = MarkAt(s), n = m + 1,
           s[n].spec = "i"
    PROVE  Fits3(Rhs(s))
<1>0. Rhs(s)[0] = EmptyToken
  <2>1. 0 \in 0..2 /\ 0 + (n - m) < 3
    OBVIOUS
  <2>2. NoSymbol(s, 0)
    BY <2>1, SymbolBelow
  <2> QED BY <2>2 DEF NoSymbol
<1>1. Rhs(s)[1] = EmptyToken
  <2>1. 1 \in 0..2 /\ 1 + (n - m) < 3
    OBVIOUS
  <2>2. NoSymbol(s, 1)
    BY <2>1, SymbolBelow
  <2> QED BY <2>2 DEF NoSymbol
<1>2. Rhs(s)[2] = s[n]
  <2>1. PICK k \in 0..2, i \in Int : k = 2 /\ i = n /\ i = n - 2 + k /\ i > m
    OBVIOUS
  <2>2. SymbolIs(s, k, i)
    BY <2>1, SymbolAt
  <2> QED BY <2>1, <2>2 DEF SymbolIs
<1>3. EmptyToken.spec = "EMPTY"
  BY DEF EmptyToken
<1> QED BY <1>0, <1>1, <1>2, <1>3 DEF Fits3, IsOperand

LEMMA TwoFit ==
    ASSUME NEW s \in Seq(TokenSet), NEW n \in Nat, n = Len(s), NEW m \in 1..n, m = MarkAt(s), n = m + 2,
           s[m + 1].spec = "#", s[n].spec = "E"
    PROVE  Fits3(Rhs(s))
<1>0. Rhs(s)[0] = EmptyToken
  <2>1. 0 \in 0..2 /\ 0 + (n - m) < 3
    OBVIOUS
  <2>2. NoSymbol(s, 0)
    BY <2>1, SymbolBelow
  <2> QED BY <2>2 DEF NoSymbol
<1>1. Rhs(s)[1] = s[m + 1]
  <2>1. PICK k \in 0..2, i \in Int : k = 1 /\ i = m + 1 /\ i = n - 2 + k /\ i > m
    OBVIOUS
  <2>2. SymbolIs(s, k, i)
    BY <2>1, SymbolAt
  <2> QED BY <2>1, <2>2 DEF SymbolIs
<1>2. Rhs(s)[2] = s[n]
  <2>1. PICK k \in 0..2, i \in Int : k = 2 /\ i = n /\ i = n - 2 + k /\ i > m
    OBVIOUS
  <2>2. SymbolIs(s, k, i)
    BY <2>1, SymbolAt
  <2> QED BY <2>1, <2>2 DEF SymbolIs
<1>3. EmptyToken.spec = "EMPTY"
  BY DEF EmptyToken
<1> QED BY <1>0, <1>1, <1>2, <1>3 DEF Fits3, IsLength

LEMMA ThreeFit ==
    ASSUME NEW s \in Seq(TokenSet), NEW n \in Nat, n = Len(s), NEW m \in 1..n, m = MarkAt(s), n = m + 3,
           \/ s[m + 1].spec = "(" /\ s[m + 2].spec = "E" /\ s[n].spec = ")"
           \/ s[m + 1].spec = "E" /\ s[m + 2].spec \in BinaryOps /\ s[n].spec = "E"
    PROVE  Fits3(Rhs(s))
<1>0. Rhs(s)[0] = s[m + 1]
  <2>1. PICK k \in 0..2, i \in Int : k = 0 /\ i = m + 1 /\ i = n - 2 + k /\ i > m
    OBVIOUS
  <2>2. SymbolIs(s, k, i)
    BY <2>1, SymbolAt
  <2> QED BY <2>1, <2>2 DEF SymbolIs
<1>1. Rhs(s)[1] = s[m + 2]
  <2>1. PICK k \in 0..2, i \in Int : k = 1 /\ i = m + 2 /\ i = n - 2 + k /\ i > m
    OBVIOUS
  <2>2. SymbolIs(s, k, i)
    BY <2>1, SymbolAt
  <2> QED BY <2>1, <2>2 DEF SymbolIs
<1>2. Rhs(s)[2] = s[n]
  <2>1. PICK k \in 0..2, i \in Int : k = 2 /\ i = n /\ i = n - 2 + k /\ i > m
    OBVIOUS
  <2>2. SymbolIs(s, k, i)
    BY <2>1, SymbolAt
  <2> QED BY <2>1, <2>2 DEF SymbolIs
<1> QED BY <1>0, <1>1, <1>2 DEF Fits3, IsParens, IsBinary

LEMMA UnfitHandles ==
    ASSUME NEW s \in Seq(TokenSet), StackShape(s), NEW n \in Nat, n = Len(s), NEW m \in 1..n, m = MarkAt(s),
           stack_top_term(s).spec \in BinaryOps \cup {"#", "i", ")"}, ~Fits3(Rhs(s))
    PROVE  Unfit(s, n, m)
<1>1. /\ m \in 2..(n - 1) /\ n \in (m + 1)..(m + 3) /\ s[m].spec = "MARK"
      /\ \A j \in 1..n : j > m => s[j].spec # "MARK"
  BY Marked
<1>2. stack_top_term(s) = IF s[n].spec = "E" THEN s[n - 1] ELSE s[n]
  BY TopTerm DEF stack_top_term
<1>3. \A k \in 1..(n - 1) : Adjacent(s[k].spec, s[k + 1].spec)
  BY DEF StackShape
<1>4. \A k \in 2..(n - 1) : s[k].spec = "E" => s[k - 1].spec = IF s[k + 1].spec = ")" THEN "(" ELSE "MARK"
  BY DEF StackShape
<1>5. s[n].spec = "E" => s[n - 1].spec # "MARK"
  BY DEF StackShape
<1>6. s[m + 1].spec \in BinaryOps \cup {"#", "i", "(", "E"}
  <2>1. m \in 1..(n - 1)
    BY <1>1
  <2>2. Adjacent("MARK", s[m + 1].spec)
    BY <1>1, <1>3, <2>1
  <2> QED BY <2>2, Alphabet DEF Adjacent
<1>7. CASE n = m + 1
  <2>1. s[n].spec \in BinaryOps \cup {"#", "i", "(", "E"} /\ s[n - 1].spec = "MARK"
    <3>1. n - 1 = m
      BY <1>7
    <3> QED BY <1>1, <1>6, <1>7, <3>1
  <2>2. s[n].spec # "E"
    BY <1>5, <2>1
  <2>3. s[n].spec \in BinaryOps \cup {"#", "i"}
    BY <1>2, <2>1, <2>2, Alphabet
  <2>4. s[n].spec # "i"
    BY <1>7, OneFits
  <2> QED BY <2>3, <2>4 DEF Unfit
<1>8. CASE n = m + 2
  <2>0. m + 1 \in 1..(n - 1) /\ m + 1 \in 2..(n - 1) /\ (m + 1) + 1 = n /\ (m + 1) - 1 = m /\ n - 1 = m + 1
    BY <1>1, <1>8
  <2>1. Adjacent(s[m + 1].spec, s[n].spec) /\ s[n].spec # "MARK"
    <3>1. Adjacent(s[m + 1].spec, s[(m + 1) + 1].spec)
      BY <1>3, <2>0
    <3>2. n \in 1..n /\ n > m
      BY <1>8
    <3> QED BY <1>1, <2>0, <3>1, <3>2
  <2>2. CASE s[m + 1].spec \in BinaryOps
    BY <1>8, <2>2 DEF Unfit
  <2>3. CASE s[m + 1].spec = "#"
    <3>1. s[n].spec = "E"
      BY <2>1, <2>3, Alphabet DEF Adjacent
    <3> QED BY <1>8, <2>3, <3>1, TwoFit
  <2>4. CASE s[m + 1].spec = "i"
    BY <2>1, <2>4, Alphabet DEF Adjacent
  <2>5. CASE s[m + 1].spec = "("
    <3>1. s[n].spec \in {"E", ")"}
      BY <2>1, <2>5, Alphabet DEF Adjacent
    <3>2. s[n].spec = "E" => stack_top_term(s).spec = "("
      BY <1>2, <2>0, <2>5
    <3>3. s[n].spec = ")"
      BY <3>1, <3>2, Alphabet
    <3> QED BY <1>8, <2>5, <3>3 DEF Unfit
  <2>6. CASE s[m + 1].spec = "E"
    <3>1. s[n].spec \in BinaryOps \cup {")"}
      BY <2>1, <2>6, Alphabet DEF Adjacent
    <3>2. s[m].spec = IF s[n].spec = ")" THEN "(" ELSE "MARK"
      <4>1. s[(m + 1) - 1].spec = IF s[(m + 1) + 1].spec = ")" THEN "(" ELSE "MARK"
        BY <1>4, <2>0, <2>6
      <4> QED BY <2>0, <4>1
    <3>3. s[n].spec # ")"
      BY <1>1, <3>2
    <3> QED BY <3>1, <3>3 DEF Unfit
  <2> QED BY <1>6, <2>2, <2>3, <2>4, <2>5, <2>6
<1>9. CASE n = m + 3
  <2>0. /\ m + 1 \in 1..(n - 1) /\ m + 1 \in 2..(n - 1) /\ (m + 1) + 1 = m + 2 /\ (m + 1) - 1 = m /\ n - 1 = m + 2
        /\ m + 2 \in 1..(n - 1) /\ m + 2 \in 2..(n - 1) /\ (m + 2) + 1 = n /\ (m + 2) - 1 = m + 1 /\ m + 2 \in 1..n /\ m + 2 > m
    BY <1>1, <1>9
  <2>1. Adjacent(s[m + 1].spec, s[m + 2].spec)
    <3>1. Adjacent(s[m + 1].spec, s[(m + 1) + 1].spec)
      BY <1>3, <2>0
    <3> QED BY <2>0, <3>1
  <2>2. Adjacent(s[m + 2].spec, s[n].spec)
    <3>1. Adjacent(s[m + 2].spec, s[(m + 2) + 1].spec)
      BY <1>3, <2>0
    <3> QED BY <2>0, <3>1
  <2>3. s[m + 2].spec # "MARK" /\ s[n].spec # "MARK"
    <3>1. n \in 1..n /\ n > m
      BY <1>9
    <3> QED BY <1>1, <2>0, <3>1
  <2>4. s[m + 2].spec = "E" => s[m + 1].spec = IF s[n].spec = ")" THEN "(" ELSE "MARK"
    <3>1. s[m + 2].spec = "E" => s[(m + 2) - 1].spec = IF s[(m + 2) + 1].spec = ")" THEN "(" ELSE "MARK"
      BY <1>4, <2>0
    <3> QED BY <2>0, <3>1
  <2>5. s[m + 1].spec = "E" => s[m].spec = IF s[m + 2].spec = ")" THEN "(" ELSE "MARK"
    <3>1. s[m + 1].spec = "E" => s[(m + 1) - 1].spec = IF s[(m + 1) + 1].spec = ")" THEN "(" ELSE "MARK"
      BY <1>4, <2>0
    <3> QED BY <2>0, <3>1
  <2>6. s[m + 2].spec \notin {")", "i"}
    BY <2>2, Alphabet DEF Adjacent
  <2>7. CASE s[m + 1].spec \in BinaryOps \cup {"#", "i"}
    <3>1. s[m + 2].spec = "E"
      BY <2>1, <2>3, <2>7, Alphabet DEF Adjacent
    <3> QED BY <2>4, <2>7, <3>1, Alphabet
  <2>8. CASE s[m + 1].spec = "("
    <3>1. s[m + 2].spec = "E"
      BY <2>1, <2>3, <2>6, <2>8, Alphabet DEF Adjacent
    <3>2. s[n].spec = ")"
      BY <2>4, <2>8, <3>1
    <3> QED BY <1>9, <2>8, <3>1, <3>2, ThreeFit
  <2>9. CASE s[m + 1].spec = "E"
    <3>1. s[m + 2].spec \in BinaryOps
      BY <2>1, <2>6, <2>9, Alphabet DEF Adjacent
    <3>2. s[n].spec = "E"
      BY <2>2, <2>3, <3>1, Alphabet DEF Adjacent
    <3> QED BY <1>9, <2>9, <3>1, <3>2, ThreeFit
  <2> QED BY <1>6, <2>7, <2>8, <2>9
<1>10. n = m + 1 \/ n = m + 2 \/ n = m + 3
  BY <1>1
<1> QED BY <1>7, <1>8, <1>9, <1>10

(* On a readable tape an operand, a parenthesis or "#" comes after what      *)
(* expects one.                                                              *)
LEMMA Succeeds ==
    ASSUME NEW q \in Seq(TokenSet), Readable(q), NEW b \in 1..Len(q), NEW c, c # "$", q[b].spec = c,
           NEW r \in BinaryOps \cup {"#", "(", "$"}, Behind(q, b, r)
    PROVE  c \in {"i", "(", "#"}
<1>1. Ahead(q, b, c)
  BY DEF Ahead
<1>2. IF r = "$" THEN c \in {"i", "(", "#"} ELSE Follows(r, c)
  BY <1>1, NextFollows
<1>3. r \notin {"i", ")"}
  BY Alphabet
<1> QED BY <1>2, <1>3 DEF Follows

LEMMA EndsInOperator ==
    ASSUME NEW s \in Seq(TokenSet), StackShape(s), NEW q \in Seq(TokenSet), Readable(q), NEW w, NEW e \in 1..Len(q),
           NEW c \in BinaryOps \cup {")", "$"}, Ahead(q, e, c), NEW at, NEW out, Chart(s, c, q, w, e, at, out),
           s[Len(s)].spec \in BinaryOps \cup {"#"}
    PROVE  FALSE
<1>1. PICK r : r = s[Len(s)].spec
  OBVIOUS
<1>2. r \notin {"E", "$", "i", ")"} /\ r \in BinaryOps \cup {"#"}
  BY <1>1, Alphabet
<1>3. e > 1 /\ q[e - 1] = s[Len(s)]
  BY <1>1, <1>2, TopToken
<1>4. Behind(q, e, r)
  BY <1>1, <1>2, <1>3 DEF Behind
<1>5. IF r = "$" THEN c \in {"i", "(", "#"} ELSE Follows(r, c)
  BY <1>4, NextFollows
<1>6. c \notin {"i", "(", "#"}
  BY Alphabet
<1> QED BY <1>2, <1>5, <1>6 DEF Follows

LEMMA BeginsWithOperator ==
    ASSUME NEW s \in Seq(TokenSet), StackShape(s), NEW q \in Seq(TokenSet), Readable(q), NEW w, NEW e \in 1..Len(q),
           NEW c, NEW at, NEW out, Chart(s, c, q, w, e, at, out),
           NEW m \in 2..(Len(s) - 1), s[m].spec = "MARK", s[m - 1].spec \in BinaryOps \cup {"#", "(", "$"},
           s[m + 1].spec \in BinaryOps
    PROVE  FALSE
<1>1. PICK l \in Nat \ {0}, k \in Nat \ {0}, k2 \in Nat \ {0} :
         l = m - 1 /\ m = l + 1 /\ k = m + 1 /\ k2 = k + 1 /\ {l, m, k} \subseteq 1..Len(s)
  <2>1. Len(s) \in Nat
    OBVIOUS
  <2>2. /\ m - 1 \in Nat \ {0} /\ m + 1 \in Nat \ {0} /\ (m + 1) + 1 \in Nat \ {0} /\ m = (m - 1) + 1
        /\ m - 1 \in 1..Len(s) /\ m \in 1..Len(s) /\ m + 1 \in 1..Len(s)
    BY <2>1
  <2> QED BY <2>2
<1>2. Between(s, c, q, w, e, at, out, l, m) /\ Between(s, c, q, w, e, at, out, m, k)
      /\ Between(s, c, q, w, e, at, out, k, k2)
  BY <1>1, ChartAt
<1>3. s[l].spec \notin {"MARK", "E"} /\ s[k].spec \notin {"$", "MARK", "E"} /\ s[k].spec \notin {"i", "(", "#"}
      /\ s[l].spec \in BinaryOps \cup {"#", "(", "$"}
  BY <1>1, Alphabet
<1>4. PICK b \in Nat \ {0} : b = at[m]
  BY <1>2 DEF Between
<1>5. at[k] = b /\ s[k] = q[b] /\ at[k2] = b + 1 /\ b + 1 <= e
  BY <1>2, <1>3, <1>4 DEF Between
<1>6. b \in 1..Len(q)
  <2>1. e <= Len(q) /\ Len(q) \in Nat /\ e \in Nat
    OBVIOUS
  <2> QED BY <1>5, <2>1
<1>7. Behind(q, b, s[l].spec)
  <2>1. CASE s[l].spec = "$"
    <3>1. l \in DOMAIN s
      BY <1>1
    <3>2. l = 1
      BY <2>1, <3>1, OneDollar
    <3>3. at[m] = at[l] /\ at[1] = 1
      BY <1>2, <2>1, ChartEnds DEF Between
    <3> QED BY <1>4, <2>1, <3>2, <3>3 DEF Behind
  <2>2. CASE s[l].spec # "$"
    <3>1. at[l] \in Nat \ {0} /\ b = at[l] + 1 /\ s[l] = q[at[l]]
      BY <1>2, <1>3, <1>4, <2>2 DEF Between
    <3>2. PICK p \in Nat \ {0} : p = at[l]
      BY <3>1
    <3>3. b = p + 1
      BY <3>1, <3>2
    <3>4. b > 1 /\ b - 1 = p
      BY <3>3
    <3>5. q[p].spec = s[l].spec
      BY <3>1, <3>2
    <3> QED BY <2>2, <3>4, <3>5 DEF Behind
  <2> QED BY <2>1, <2>2
<1> QED BY <1>3, <1>5, <1>6, <1>7, Succeeds

LEMMA EmptyParens ==
    ASSUME NEW s \in Seq(TokenSet), NEW q \in Seq(TokenSet), Readable(q), NEW w, NEW e \in 1..Len(q),
           NEW c, NEW at, NEW out, Chart(s, c, q, w, e, at, out),
           NEW l \in 1..(Len(s) - 1), s[l].spec = "(", s[l + 1].spec = ")"
    PROVE  FALSE
<1>1. PICK k \in Nat \ {0}, k2 \in Nat \ {0} : k = l + 1 /\ k2 = k + 1 /\ {l, k} \subseteq 1..Len(s)
  <2>1. Len(s) \in Nat
    OBVIOUS
  <2>2. l + 1 \in Nat \ {0} /\ (l + 1) + 1 \in Nat \ {0} /\ l \in 1..Len(s) /\ l + 1 \in 1..Len(s)
    BY <2>1
  <2> QED BY <2>2
<1>2. Between(s, c, q, w, e, at, out, l, k) /\ Between(s, c, q, w, e, at, out, k, k2)
  BY <1>1, ChartAt
<1>3. PICK b \in Nat \ {0} : b = at[k]
  BY <1>2 DEF Between
<1>4. at[l] \in Nat \ {0} /\ b = at[l] + 1 /\ s[l] = q[at[l]] /\ s[k] = q[b] /\ at[k2] = b + 1 /\ b + 1 <= e
  BY <1>1, <1>2, <1>3 DEF Between
<1>5. b \in 1..Len(q)
  <2>1. e <= Len(q) /\ Len(q) \in Nat /\ e \in Nat
    OBVIOUS
  <2> QED BY <1>4, <2>1
<1>6. Behind(q, b, "(")
  <2>1. PICK p \in Nat \ {0} : p = at[l]
    BY <1>4
  <2>2. b = p + 1
    BY <1>4, <2>1
  <2>3. b > 1 /\ b - 1 = p
    BY <2>2
  <2>4. q[p].spec = "("
    BY <1>4, <2>1
  <2> QED BY <2>3, <2>4 DEF Behind
<1>7. q[b].spec = ")"
  BY <1>1, <1>4
<1> QED BY <1>5, <1>6, <1>7, Succeeds

LEMMA UnfitImpossible ==
    ASSUME NEW s \in Seq(TokenSet), StackShape(s), NEW q \in Seq(TokenSet), Readable(q), NEW w, NEW e \in 1..Len(q),
           NEW c \in BinaryOps \cup {")", "$"}, Ahead(q, e, c), NEW at, NEW out, Chart(s, c, q, w, e, at, out),
           stack_top_term(s).spec \in BinaryOps \cup {"#", "i", ")"}, NEW n \in Nat, n = Len(s), NEW m, m = MarkAt(s)
    PROVE  ~Unfit(s, n, m)
<1>1. m \in 2..(n - 1) /\ s[m].spec = "MARK" /\ s[m - 1].spec \in BinaryOps \cup {"#", "(", "$"}
  BY UnderMark
<1>2. ~(s[n].spec \in BinaryOps \cup {"#"})
  BY EndsInOperator
<1>3. ~(s[m + 1].spec \in BinaryOps)
  BY <1>1, BeginsWithOperator
<1>4. ASSUME n = m + 2, s[m + 1].spec = "(", s[n].spec = ")" PROVE FALSE
  <2>1. PICK l \in 1..(Len(s) - 1) : l = m + 1 /\ l + 1 = n
    <3>1. m + 1 \in 1..(n - 1) /\ (m + 1) + 1 = n
      BY <1>1, <1>4
    <3> QED BY <3>1
  <2>2. s[l].spec = "(" /\ s[l + 1].spec = ")"
    BY <1>4, <2>1
  <2> QED BY <2>2, EmptyParens
<1> QED BY <1>2, <1>3, <1>4 DEF Unfit

(* The tape of an expression that the reference reads, as the parser sees it. *)
LEMMA TapeIsReadable ==
    ASSUME Inv, Conserved, pc = "parse", Known("expression", Expression)
    PROVE  Readable(pp_list) /\ element \in 1..Len(pp_list) /\ Ahead(pp_list, element, input)
<1>1. pp_list \in Seq(TokenSet) /\ element \in 1..Len(pp_list)
  BY ParsingFacts
<1>2. Expression = Part(pp_list, 1, Len(pp_list)) /\ Len(pp_list) > 1
  BY ExpressionIsTokens
<1>3. pp_list[Len(pp_list)].spec = "$"
  BY DEF Inv, ParseInv, TapeInv
<1>4. Readable(pp_list)
  BY <1>1, <1>2, <1>3, SentenceIsReadable
<1>5. input = "$" => element = Len(pp_list)
  BY DollarIsLast
<1>6. Ahead(pp_list, element, input)
  BY <1>5 DEF Ahead, input
<1> QED BY <1>1, <1>4, <1>6

LEMMA RejectImpossible ==
    ASSUME Inv, Conserved, Charted, Reject
    PROVE  ~Known("expression", Expression)
<1> SUFFICES ASSUME Known("expression", Expression) PROVE FALSE
  OBVIOUS
<1>1. pc = "parse" /\ input \in TableSymbols /\ pp_table(stack_n, input) = "_"
  BY DEF Reject, Cell, Parsing
<1>2. /\ stack \in Seq(TokenSet) /\ StackShape(stack) /\ \A j \in DOMAIN stack : StackSymbol(stack[j])
      /\ pp_list \in Seq(TokenSet) /\ AST_list \in Seq(TokenSet)
  BY <1>1, ParsingFacts
<1>3. Readable(pp_list) /\ element \in 1..Len(pp_list) /\ Ahead(pp_list, element, input)
  BY <1>1, TapeIsReadable
<1>4. Blank(stack_n, input)
  BY <1>1 DEF Blank
<1>5. PICK at, out : Chart(stack, input, pp_list, AST_list, element, at, out)
  BY <1>1 DEF Charted
<1>6. Len(stack) \in Nat \ {0} /\ stack_n \in TableSymbols /\ stack_n = stack[TopTermAt(stack)].spec
  <2>1. TopTermAt(stack) \in DOMAIN stack /\ stack_n \notin {"E", "MARK"} /\ Len(stack) \in Nat \ {0}
    BY <1>2, TopTerm DEF stack_n
  <2>2. stack_n \in StackSymbols
    BY <1>2, <2>1 DEF StackSymbol, stack_n, stack_top_term
  <2> QED BY <2>1, <2>2 DEF StackSymbols, stack_n, stack_top_term
<1>7. CASE stack[Len(stack)].spec # "E"
  <2>1. stack_n = stack[Len(stack)].spec
    BY <1>2, <1>6, <1>7, TopTerm
  <2>2. IF stack[Len(stack)].spec = "$" THEN element = 1
        ELSE element \in Nat /\ element > 1 /\ pp_list[element - 1] = stack[Len(stack)]
    BY <1>2, <1>5, <1>7, TopToken
  <2>3. Behind(pp_list, element, stack_n)
    BY <2>1, <2>2 DEF Behind
  <2> QED BY <1>2, <1>3, <1>4, <1>6, <2>3, NoBlankUnderToken
<1>8. CASE stack[Len(stack)].spec = "E"
  <2>1. stack_n = stack[Len(stack) - 1].spec
    BY <1>2, <1>6, <1>8, TopTerm
  <2>2. PICK a, x : Piece(pp_list, a, element, stack_n, input, x)
    <3>1. element \in DOMAIN pp_list
      BY <1>2, <1>3
    <3> QED BY <1>2, <1>5, <1>8, <2>1, <3>1, TopPiece
  <2>3. input \notin {"#", "i", "("}
    BY <1>1, <1>8 DEF Inv, ParseInv, StackInv
  <2>4. stack_n \notin {"i", ")"}
    <3>1. Len(stack) > 1
      BY <1>2, <1>8, TopTerm
    <3>2. Len(stack) - 1 \in 1..(Len(stack) - 1) /\ (Len(stack) - 1) + 1 = Len(stack)
      BY <1>6, <3>1
    <3>3. Adjacent(stack_n, "E")
      BY <1>2, <1>8, <2>1, <3>2 DEF StackShape
    <3> QED BY <3>3, Alphabet DEF Adjacent
  <2> QED BY <1>2, <1>3, <1>4, <1>6, <2>2, <2>3, <2>4, NoBlankUnderPiece
<1> QED BY <1>7, <1>8

LEMMA NoRuleImpossible ==
    ASSUME Inv, Conserved, Charted, NoRule
    PROVE  ~Known("expression", Expression)
<1> SUFFICES ASSUME Known("expression", Expression) PROVE FALSE
  OBVIOUS
<1>1. pc = "parse" /\ pp_table(stack_n, input) = ">" /\ ~Fits3(Rhs(stack))
  BY DEF NoRule, Cell, Parsing, Fits3
<1>2. /\ stack \in Seq(TokenSet) /\ StackShape(stack) /\ pp_list \in Seq(TokenSet) /\ AST_list \in Seq(TokenSet)
  BY <1>1, ParsingFacts
<1>3. Readable(pp_list) /\ element \in 1..Len(pp_list) /\ Ahead(pp_list, element, input)
  BY <1>1, TapeIsReadable
<1>4. stack_top_term(stack).spec \in BinaryOps \cup {"#", "i", ")"} /\ input \in BinaryOps \cup {")", "$"}
  BY <1>1, TableCells DEF stack_n
<1>5. PICK at, out : Chart(stack, input, pp_list, AST_list, element, at, out)
  BY <1>1 DEF Charted
<1>6. PICK n \in Nat, m \in Nat : n = Len(stack) /\ m = MarkAt(stack)
  <2>1. MarkAt(stack) \in 2..(Len(stack) - 1)
    BY <1>2, <1>4, UnderMark
  <2> QED BY <1>2, <2>1, TopTerm
<1>7. m \in 1..n
  <2>1. m \in 2..(n - 1)
    BY <1>2, <1>4, <1>6, UnderMark
  <2> QED BY <2>1
<1>8. Unfit(stack, n, m)
  BY <1>1, <1>2, <1>4, <1>6, <1>7, UnfitHandles
<1>9. ~Unfit(stack, n, m)
  BY <1>2, <1>3, <1>4, <1>5, <1>6, UnfitImpossible
<1> QED BY <1>8, <1>9

LEMMA OffTableImpossible ==
    ASSUME Inv, Conserved, OffTable
    PROVE  ~Known("expression", Expression)
<1>1. pc = "parse" /\ input \notin TableSymbols
  BY DEF OffTable
<1>2. Known("expression", Expression) => input \in TableSymbols
  BY <1>1, TapeIsReadable DEF Readable, input
<1> QED BY <1>1, <1>2

Halts == exit_code # 0 => pc = "exit"

LEMMA NextRejects ==
    ASSUME Inv, Conserved, Charted, Halts, RejectsOnlyNonSentences, [Next]_vars
    PROVE  Halts' /\ RejectsOnlyNonSentences'
<1>1. CASE Collect \/ GiveBack \/ GiveBackCall \/ EndOfFile \/ ReturnEmpty \/ BeginExpression
  BY <1>1 DEF Collect, GiveBack, GiveBackCall, EndOfFile, ReturnEmpty, BeginExpression, Halts, RejectsOnlyNonSentences
<1>2. CASE GoesOn
  BY <1>2, GoesOnFacts DEF Halts, RejectsOnlyNonSentences
<1>3. CASE Ends
  <2>1. pc = "parse" /\ exit_code = 0 /\ Expression' = Expression
    BY <1>3, EndsFacts DEF Halts, Expression, Taken
  <2>2. (pc' = "exit" /\ exit_code' \in {2, 6, 9}) \/ (pc' = "undefined" /\ exit_code' = exit_code)
    BY <1>3 DEF Ends, TypeError, ZeroDivision, NoRule, Reject, OffTable, error
  <2>3. exit_code' = 2 => NoRule \/ Reject \/ OffTable
    BY <1>3, <2>1 DEF Ends, TypeError, ZeroDivision, error
  <2>4. exit_code' = 2 => ~Known("expression", Expression)
    BY <2>3, RejectImpossible, NoRuleImpossible, OffTableImpossible
  <2>5. exit_code' = 2 => (Postfix(Expression) = NoParse)'
    BY <2>1, <2>4 DEF Known, Of, Postfix
  <2> QED BY <2>1, <2>2, <2>5 DEF Halts, RejectsOnlyNonSentences
<1>4. CASE Accept
  BY <1>4 DEF Accept, Cell, Parsing, Halts, RejectsOnlyNonSentences
<1>5. CASE UNCHANGED vars
  BY <1>5 DEF vars, Halts, RejectsOnlyNonSentences, Expression, Taken
<1> QED BY <1>1, <1>2, <1>3, <1>4, <1>5, Steps

(* No expression is turned away as a syntax error: whenever error(2) ends    *)
(* the call, at an empty cell of pp_table or at a handle that no rule of     *)
(* reduce fits, the declared precedences give the tape no reading either.    *)
THEOREM RejectsWhatReferenceRejects == Spec => []RejectsOnlyNonSentences
<1>1. Init => Halts /\ RejectsOnlyNonSentences
  BY DEF Init, Halts, RejectsOnlyNonSentences
<1>2. /\ Inv /\ Conserved /\ ZeroInv /\ Charted
      /\ Halts /\ RejectsOnlyNonSentences /\ [Next]_vars
      => Halts' /\ RejectsOnlyNonSentences'
  BY NextRejects
<1> QED BY <1>1, <1>2, SpecCharted, PTL DEF Spec
-----------------------------------------------------------------------------
(* Evaluation.  The reference evaluates a postfix list to types or, under a  *)
(* valuation of the variables, to values; m says which.                      *)

TypesOf == [kind |-> "types", of |-> <<>>]
ValuesOf(v) == [kind |-> "values", of |-> v]

Fractions == {Undefined} \cup (Int \X (Nat \ {0}))
Results(m) == IF m.kind = "types" THEN ExprTypes \cup {"NONE"} ELSE Fractions

OperandOf(m, t) == IF m.kind = "types" THEN OperandType(t) ELSE IF t.attr = "0" THEN <<0, 1>> ELSE m.of
LengthOf(m, a) == IF m.kind = "types" THEN DocLength(a) ELSE Undefined
BinaryOf(m, op, a, b) == IF m.kind = "types" THEN DocType(op, a, b) ELSE Value(op, a, b)

(* What the token t makes of the values x computed so far. *)
Feed(m, x, t) ==
    IF t.spec = "i" THEN Append(x, OperandOf(m, t))
    ELSE IF t.spec = "#" THEN Append(Front(x), LengthOf(m, Last(x)))
    ELSE Append(SubSeq(x, 1, Len(x) - 2), BinaryOf(m, t.spec, x[Len(x) - 1], x[Len(x)]))

(* The values run[i] of the first i tokens of w; all of w leaves x. *)
Computes(m, w, run, x) ==
    /\ run \in [0..Len(w) -> Seq(Results(m))] /\ run[0] = <<>> /\ run[Len(w)] = x
    /\ \A i \in 1..Len(w) : run[i] = Feed(m, run[i - 1], w[i])
Leaves(m, w, x) == \E run : Computes(m, w, run, x)

LEMMA LeavesNothing ==
    ASSUME NEW m, NEW w, w = <<>>, NEW x, x = <<>>
    PROVE  Leaves(m, w, x)
<1> DEFINE run == [i \in 0..0 |-> x]
<1>1. Len(w) = 0 /\ x \in Seq(Results(m))
  OBVIOUS
<1>2. run \in [0..0 -> Seq(Results(m))] /\ run[0] = x
  BY <1>1
<1> HIDE DEF run
<1>3. \A i \in 1..0 : FALSE
  OBVIOUS
<1>4. Computes(m, w, run, x)
  BY <1>1, <1>2, <1>3 DEF Computes
<1> QED BY <1>4 DEF Leaves

LEMMA LeavesMore ==
    ASSUME NEW m, NEW w \in Seq(TokenSet), NEW x, Leaves(m, w, x), NEW t \in TokenSet,
           NEW y \in Seq(Results(m)), y = Feed(m, x, t)
    PROVE  Leaves(m, w \o <<t>>, y)
<1> DEFINE n == Len(w)
           u == w \o <<t>>
           more(run) == [i \in 0..(n + 1) |-> IF i = n + 1 THEN y ELSE run[i]]
<1>1. PICK run : Computes(m, w, run, x)
  BY DEF Leaves
<1>2. n \in Nat /\ Len(u) = n + 1 /\ u[n + 1] = t /\ \A i \in 1..n : u[i] = w[i]
  OBVIOUS
<1>3. /\ run \in [0..n -> Seq(Results(m))] /\ run[0] = <<>> /\ run[n] = x
      /\ \A i \in 1..n : run[i] = Feed(m, run[i - 1], w[i])
  BY <1>1 DEF Computes
<1> HIDE DEF n, u
<1>4. more(run) \in [0..(n + 1) -> Seq(Results(m))]
  <2>1. \A i \in 0..(n + 1) : i = n + 1 \/ i \in 0..n
    BY <1>2
  <2> QED BY <1>3, <2>1
<1>5. more(run)[0] = <<>> /\ more(run)[n + 1] = y
  <2>1. 0 \in 0..(n + 1) /\ n + 1 \in 0..(n + 1) /\ 0 # n + 1
    BY <1>2
  <2> QED BY <1>3, <2>1
<1>6. ASSUME NEW i \in 1..(n + 1) PROVE more(run)[i] = Feed(m, more(run)[i - 1], u[i])
  <2>0. i \in 0..(n + 1) /\ i - 1 \in 0..(n + 1) /\ i - 1 # n + 1
    BY <1>2
  <2>1. CASE i = n + 1
    <3>1. i - 1 = n
      BY <1>2, <2>1
    <3>2. more(run)[i - 1] = x /\ more(run)[i] = y /\ u[i] = t
      BY <1>2, <1>3, <2>0, <2>1, <3>1
    <3> QED BY <3>2
  <2>2. CASE i # n + 1
    <3>1. i \in 1..n
      BY <1>2, <2>2
    <3>2. more(run)[i - 1] = run[i - 1] /\ more(run)[i] = run[i] /\ u[i] = w[i]
      BY <1>2, <2>0, <2>2, <3>1
    <3> QED BY <1>3, <3>1, <3>2
  <2> QED BY <2>1, <2>2
<1> HIDE DEF more
<1>7. Computes(m, u, more(run), y)
  BY <1>2, <1>4, <1>5, <1>6 DEF Computes
<1> QED BY <1>7 DEF Leaves, u

(* The run is the function that Evaluate defines. *)
Evaluates(m, w, f) == f = [n \in 0..Len(w) |-> IF n = 0 THEN <<>> ELSE Feed(m, f[n - 1], w[n])]

LEMMA RunIs ==
    ASSUME NEW m, NEW w \in Seq(TokenSet), NEW x, Leaves(m, w, x)
    PROVE  /\ \E f : Evaluates(m, w, f)
           /\ \A f : Evaluates(m, w, f) => f[Len(w)] = x
<1> DEFINE N == Len(w)
<1>1. PICK run : Computes(m, w, run, x)
  BY DEF Leaves
<1>2. /\ N \in Nat /\ run \in [0..N -> Seq(Results(m))] /\ run[0] = <<>> /\ run[N] = x
      /\ \A i \in 1..N : run[i] = Feed(m, run[i - 1], w[i])
  BY <1>1 DEF Computes
<1> HIDE DEF N
<1>3. Evaluates(m, w, run)
  <2> DEFINE r == [n \in 0..N |-> IF n = 0 THEN <<>> ELSE Feed(m, run[n - 1], w[n])]
  <2>1. \A n \in 0..N : run[n] = r[n]
    <3> SUFFICES ASSUME NEW n \in 0..N PROVE run[n] = r[n]
      OBVIOUS
    <3>1. CASE n = 0
      BY <1>2, <3>1
    <3>2. CASE n \in 1..N
      BY <1>2, <3>2
    <3> QED BY <1>2, <3>1, <3>2
  <2>2. r = [n \in 0..N |-> r[n]]
    OBVIOUS
  <2> HIDE DEF r
  <2>3. run = r
    BY <1>2, <2>1, <2>2
  <2> QED BY <2>3 DEF r, N, Evaluates
<1>4. ASSUME NEW f, Evaluates(m, w, f) PROVE f[N] = x
  <2> DEFINE S == {n \in 0..N : f[n] = run[n]}
  <2>0. f = [n \in 0..N |-> IF n = 0 THEN <<>> ELSE Feed(m, f[n - 1], w[n])]
    BY <1>4 DEF Evaluates, N
  <2>1. 0 \in S
    BY <1>2, <2>0
  <2>2. \A i \in 0..(N - 1) : i \in S => i + 1 \in S
    <3> SUFFICES ASSUME NEW i \in 0..(N - 1), f[i] = run[i] PROVE f[i + 1] = run[i + 1]
      BY <1>2
    <3>1. i + 1 \in 1..N /\ i + 1 \in 0..N /\ (i + 1) - 1 = i /\ i + 1 # 0
      BY <1>2
    <3>2. run[i + 1] = Feed(m, run[i], w[i + 1])
      BY <1>2, <3>1
    <3>3. f[i + 1] = Feed(m, f[i], w[i + 1])
      BY <2>0, <3>1
    <3> QED BY <3>2, <3>3
  <2> HIDE DEF S
  <2>3. 0..N \subseteq S
    BY <1>2, <2>1, <2>2, UpTo
  <2>4. N \in 0..N
    BY <1>2
  <2>5. f[N] = run[N]
    BY <2>3, <2>4 DEF S
  <2> QED BY <1>2, <2>5
<1> QED BY <1>3, <1>4 DEF N

LEMMA TypesAre ==
    ASSUME NEW w \in Seq(TokenSet), NEW x, Leaves(TypesOf, w, x)
    PROVE  Types(w) = x
<1> DEFINE More(s, t) == IF t.spec = "i" THEN Append(s, OperandType(t))
                         ELSE IF t.spec = "#" THEN Append(Front(s), DocLength(Last(s)))
                         ELSE Append(SubSeq(s, 1, Len(s) - 2), DocType(t.spec, s[Len(s) - 1], s[Len(s)]))
           Eq(f) == f = [n \in 0..Len(w) |-> IF n = 0 THEN <<>> ELSE More(f[n - 1], w[n])]
           values == CHOOSE f : Eq(f)
<1>1. Types(w) = values[Len(w)]
  BY DEF Types, Evaluate
<1>2. \A s, t : Feed(TypesOf, s, t) = More(s, t)
  BY DEF Feed, OperandOf, LengthOf, BinaryOf, TypesOf
<1> HIDE DEF More
<1>3. \A f : Eq(f) <=> Evaluates(TypesOf, w, f)
  BY <1>2 DEF Evaluates
<1> HIDE DEF Eq
<1>4. Eq(values)
  BY <1>3, RunIs
<1> QED BY <1>1, <1>3, <1>4, RunIs

(* The values ZeroDivisionIsReal computes when every variable holds v. *)
ValuesUnder(v, w) ==
    LET Operand(t) == IF t.attr = "0" THEN <<0, 1>> ELSE v
        Length(a) == Undefined
    IN Evaluate(w, Operand, Length, Value)

LEMMA ValuesAre ==
    ASSUME NEW v, NEW w \in Seq(TokenSet), NEW x, Leaves(ValuesOf(v), w, x)
    PROVE  ValuesUnder(v, w) = x
<1> DEFINE m == ValuesOf(v)
           More(s, t) == IF t.spec = "i" THEN Append(s, IF t.attr = "0" THEN <<0, 1>> ELSE v)
                         ELSE IF t.spec = "#" THEN Append(Front(s), Undefined)
                         ELSE Append(SubSeq(s, 1, Len(s) - 2), Value(t.spec, s[Len(s) - 1], s[Len(s)]))
           Eq(f) == f = [n \in 0..Len(w) |-> IF n = 0 THEN <<>> ELSE More(f[n - 1], w[n])]
           values == CHOOSE f : Eq(f)
<1>1. ValuesUnder(v, w) = values[Len(w)]
  BY DEF ValuesUnder, Evaluate
<1>2. \A s, t : Feed(m, s, t) = More(s, t)
  BY DEF Feed, OperandOf, LengthOf, BinaryOf, ValuesOf
<1> HIDE DEF More, m
<1>3. \A f : Eq(f) <=> Evaluates(m, w, f)
  BY <1>2 DEF Evaluates
<1> HIDE DEF Eq
<1>4. Eq(values)
  BY <1>3, RunIs DEF m
<1> QED BY <1>1, <1>3, <1>4, RunIs DEF m
-----------------------------------------------------------------------------
(* The values of the list so far belong to the nonterminals on the stack.    *)

(* What the fields of the nonterminal t tell of its value a. *)
Means(m, t, a) == IF m.kind = "types" THEN t.type = a ELSE t.attr = "0" => a[1] = 0

Belong(m, s, x) ==
    /\ x \in Seq(Results(m)) /\ Len(x) = Count(s, Len(s))
    /\ \A j \in 1..Len(s) : s[j].spec = "E" => Means(m, s[j], x[Count(s, j)])

Valued(m, s, w) == \E x : Leaves(m, w, x) /\ Belong(m, s, x)

LEMMA CountGrows ==
    ASSUME NEW s, NEW n \in Nat, NEW j \in 0..n
    PROVE  Count(s, j) \in Nat /\ Count(s, n) \in Nat /\ Count(s, j) <= Count(s, n)
<1>1. IsFiniteSet(1..n)
  <2>1. 1 \in Int /\ n \in Int
    OBVIOUS
  <2> QED BY <2>1, FS_Interval, Zenon
<1>2. Es(s, n) \in SUBSET (1..n) /\ Es(s, j) \in SUBSET Es(s, n)
  BY DEF Es
<1>3. IsFiniteSet(Es(s, n))
  BY <1>1, <1>2, FS_Subset
<1>4. IsFiniteSet(Es(s, j)) /\ Cardinality(Es(s, j)) <= Cardinality(Es(s, n))
  BY <1>2, <1>3, FS_Subset
<1> QED BY <1>3, <1>4, FS_CardinalityType DEF Count

(* A nonterminal at j is one of the first Count(s, j) values. *)
LEMMA CountOfOne ==
    ASSUME NEW s, NEW n \in Nat, NEW j \in 1..n, s[j].spec = "E"
    PROVE  Count(s, j) \in 1..Count(s, n)
<1>1. j \in Nat \ {0} /\ j \in 0..n
  OBVIOUS
<1>2. Count(s, j - 1) \in Nat /\ Count(s, j) = Count(s, j - 1) + 1
  BY <1>1, CountStep
<1>3. Count(s, n) \in Nat /\ Count(s, j) <= Count(s, n)
  BY <1>1, CountGrows
<1> QED BY <1>2, <1>3

LEMMA ShiftBelong ==
    ASSUME NEW m, NEW s \in Seq(TokenSet), StackShape(s), NEW x, Belong(m, s, x),
           NEW t \in TokenSet, t.spec # "E"
    PROVE  Belong(m, Append(s, t), x) /\ Belong(m, Append(stack_mark(s), t), x)
<1> DEFINE n == Len(s)
           p == TopTermAt(s)
           u == Append(stack_mark(s), t)
           v == Append(s, t)
<1>1. n \in Nat \ {0} /\ p \in 1..n /\ p = IF s[n].spec = "E" THEN n - 1 ELSE n
  BY TopTerm
<1>2. /\ Len(u) = n + 2 /\ Count(u, n + 2) = Count(s, n)
      /\ Len(v) = n + 1 /\ Count(v, n + 1) = Count(s, n)
  BY ShiftCount
<1>3. /\ stack_mark(s) \in Seq(TokenSet) /\ Len(stack_mark(s)) = n + 1
      /\ \A k \in 1..p : stack_mark(s)[k] = s[k]
      /\ stack_mark(s)[p + 1] = MarkToken
      /\ p < n => stack_mark(s)[n + 1] = s[n]
  BY StackMark
<1>4. /\ x \in Seq(Results(m)) /\ Len(x) = Count(s, n)
      /\ \A j \in 1..n : s[j].spec = "E" => Means(m, s[j], x[Count(s, j)])
  BY DEF Belong
<1> HIDE DEF n, p
<1>5. v[n + 1] = t /\ \A k \in 1..n : v[k] = s[k]
  BY <1>1 DEF n
<1>6. u[n + 2] = t /\ \A k \in 1..(n + 1) : u[k] = stack_mark(s)[k]
  BY <1>1, <1>3
<1>7. /\ \A k \in 1..p : u[k] = s[k]
      /\ u[p + 1] = MarkToken /\ (p < n => u[n + 1] = s[n])
  <2>1. (\A k \in 1..p : k \in 1..(n + 1)) /\ p + 1 \in 1..(n + 1) /\ n + 1 \in 1..(n + 1)
    BY <1>1
  <2> QED BY <1>3, <1>6, <2>1
<1> HIDE DEF u, v
<1>8. Belong(m, v, x)
  <2>1. ASSUME NEW j \in 1..(n + 1), v[j].spec = "E" PROVE Means(m, v[j], x[Count(v, j)])
    <3>1. j \in 1..n
      BY <1>1, <1>5, <2>1
    <3>2. \A k \in 1..j : v[k] = s[k]
      <4>1. \A k \in 1..j : k \in 1..n
        BY <1>1, <3>1
      <4> QED BY <1>5, <4>1
    <3>3. Count(v, j) = Count(s, j)
      BY <3>1, <3>2, CountSame
    <3> QED BY <1>4, <1>5, <2>1, <3>1, <3>3
  <2> QED BY <1>2, <1>4, <2>1 DEF Belong
<1>9. Belong(m, u, x)
  <2>1. ASSUME NEW j \in 1..(n + 2), u[j].spec = "E" PROVE Means(m, u[j], x[Count(u, j)])
    <3>1. CASE j \in 1..p
      <4>1. \A k \in 1..j : u[k] = s[k]
        <5>1. \A k \in 1..j : k \in 1..p
          BY <1>1, <3>1
        <5> QED BY <1>7, <5>1
      <4>2. Count(u, j) = Count(s, j) /\ j \in 1..n
        BY <1>1, <3>1, <4>1, CountSame
      <4> QED BY <1>4, <1>7, <2>1, <3>1, <4>2
    <3>2. CASE j \notin 1..p
      <4>1. j # p + 1 /\ j # n + 2
        BY <1>6, <1>7, <2>1 DEF MarkToken
      <4>2. j = n + 1 /\ p < n
        BY <1>1, <3>2, <4>1
      <4>3. u[j] = s[n] /\ s[n].spec = "E"
        BY <1>7, <2>1, <4>2
      <4>4. Count(u, n + 2) = Count(u, (n + 2) - 1)
        <5>1. n + 2 \in Nat \ {0} /\ u[n + 2].spec # "E"
          BY <1>1, <1>6
        <5> QED BY <5>1, CountStep
      <4>5. (n + 2) - 1 = n + 1 /\ n \in 1..n
        BY <1>1
      <4>6. Count(u, j) = Count(s, n)
        BY <1>2, <4>2, <4>4, <4>5
      <4> QED BY <1>4, <4>3, <4>5, <4>6
    <3> QED BY <3>1, <3>2
  <2> QED BY <1>2, <1>4, <2>1 DEF Belong
<1> QED BY <1>8, <1>9 DEF u, v

(* A reduction replaces the values of the handle by one. *)
LEMMA ReducedBelong ==
    ASSUME NEW m, NEW s \in Seq(TokenSet), StackShape(s),
           stack_top_term(s).spec \in BinaryOps \cup {"#", "i", ")"},
           NEW x, Belong(m, s, x), NEW t \in TokenSet, t.spec = "E",
           NEW c, c = Count(s, MarkAt(s)), NEW a \in Results(m), Means(m, t, a),
           NEW y, y = Append(SubSeq(x, 1, c), a)
    PROVE  Belong(m, Replaced(s, t), y)
<1> DEFINE n == Len(s)
           k == MarkAt(s)
           u == Replaced(s, t)
<1>1. n \in Nat \ {0} /\ k \in 2..(n - 1)
  BY TopTerm, Marked
<1>2. Len(u) = k /\ u[k] = t /\ \A j \in 1..(k - 1) : u[j] = s[j]
  BY <1>1 DEF Replaced
<1>3. Len(u) = k /\ Count(u, k) = c + 1 /\ c \in Nat /\ k \in Nat
  BY ReducedCount
<1>4. /\ x \in Seq(Results(m)) /\ Len(x) = Count(s, n)
      /\ \A j \in 1..n : s[j].spec = "E" => Means(m, s[j], x[Count(s, j)])
  BY DEF Belong
<1>5. c <= Len(x)
  <2>1. k \in 0..n /\ n \in Nat
    BY <1>1
  <2>2. Count(s, k) <= Count(s, n)
    BY <2>1, CountGrows
  <2> QED BY <1>4, <2>2
<1>6. y \in Seq(Results(m)) /\ Len(y) = c + 1 /\ y[c + 1] = a /\ \A i \in 1..c : y[i] = x[i]
  <2> HIDE DEF n, k, u
  <2>1. SubSeq(x, 1, c) \in Seq(Results(m)) /\ Len(SubSeq(x, 1, c)) = c /\ \A i \in 1..c : SubSeq(x, 1, c)[i] = x[i]
    BY <1>3, <1>4, <1>5
  <2> QED BY <1>3, <2>1
<1> HIDE DEF n, u
<1>7. ASSUME NEW j \in 1..k, u[j].spec = "E" PROVE Means(m, u[j], y[Count(u, j)])
  <2>1. CASE j = k
    BY <1>2, <1>3, <1>6, <2>1
  <2>2. CASE j # k
    <3> HIDE DEF k
    <3>1. j \in 1..(k - 1) /\ j \in 1..n /\ j \in 1..k /\ k \in Nat
      BY <1>1, <2>2
    <3>2. \A i \in 1..j : u[i] = s[i]
      <4>1. \A i \in 1..j : i \in 1..(k - 1)
        BY <3>1
      <4> QED BY <1>2, <4>1
    <3>3. Count(u, j) = Count(s, j)
      BY <3>1, <3>2, CountSame
    <3>4. u[j] = s[j]
      BY <1>2, <3>1
    <3>5. Count(s, j) \in 1..c
      <4>1. Count(s, j) \in 1..Count(s, k)
        BY <1>7, <3>1, <3>4, CountOfOne
      <4> QED BY <4>1 DEF k
    <3> QED BY <1>4, <1>6, <1>7, <3>1, <3>3, <3>4, <3>5
  <2> QED BY <2>1, <2>2
<1> QED BY <1>2, <1>3, <1>6, <1>7 DEF Belong, u
-----------------------------------------------------------------------------
(* What is computed stays among the results, and a known zero is zero.      *)

Modes == {TypesOf} \cup {ValuesOf(v) : v \in Fractions}

LEMMA Times ==
    ASSUME NEW a \in Nat \ {0}, NEW b \in Nat \ {0}
    PROVE  a * b \in Nat \ {0}
OBVIOUS

LEMMA FractionParts ==
    ASSUME NEW a \in Fractions
    PROVE  a = Undefined \/ (a[1] \in Int /\ a[2] \in Nat \ {0})
BY DEF Fractions

LEMMA FractionOf ==
    ASSUME NEW n \in Int, NEW d \in Nat \ {0}
    PROVE  <<n, d>> \in Fractions
BY DEF Fractions

LEMMA ZeroAlone ==
    ASSUME NEW n, NEW d
    PROVE  <<n, d>>[1] = n
OBVIOUS

LEMMA ValueCloses ==
    ASSUME NEW op, NEW a \in Fractions, NEW b \in Fractions
    PROVE  /\ Value(op, a, b) \in Fractions
           /\ op \in {"+", "-", "*"} /\ a[1] = 0 /\ b[1] = 0 => Value(op, a, b)[1] = 0
           /\ op = "*" /\ (a[1] = 0 \/ b[1] = 0) => Value(op, a, b)[1] = 0
           /\ op \in {"/", "//"} /\ a[1] = 0 => Value(op, a, b)[1] = 0
<1>0. Undefined \in Fractions /\ Undefined[1] = 0
  BY DEF Fractions, Undefined
<1>1. CASE Undefined \in {a, b}
  <2>1. Value(op, a, b) = Undefined
    BY <1>1 DEF Value
  <2> QED BY <1>0, <2>1
<1>2. CASE Undefined \notin {a, b}
  <2>1. PICK a1 \in Int, a2 \in Nat \ {0}, b1 \in Int, b2 \in Nat \ {0} :
          a1 = a[1] /\ a2 = a[2] /\ b1 = b[1] /\ b2 = b[2]
    <3>1. a[1] \in Int /\ a[2] \in Nat \ {0} /\ b[1] \in Int /\ b[2] \in Nat \ {0}
      BY <1>2, FractionParts
    <3> QED BY <3>1
  <2>2. Value(op, a, b) = CASE op = "+" -> <<a1 * b2 + b1 * a2, a2 * b2>>
                            [] op = "-" -> <<a1 * b2 - b1 * a2, a2 * b2>>
                            [] op = "*" -> <<a1 * b1, a2 * b2>>
                            [] op = "/" /\ b1 # 0 -> IF b1 > 0 THEN <<a1 * b2, a2 * b1>>
                                                     ELSE <<-(a1 * b2), -(a2 * b1)>>
                            [] op = "//" /\ b1 # 0 ->
                                  IF b1 > 0 THEN <<(a1 * b2) \div (a2 * b1), 1>>
                                  ELSE <<(-(a1 * b2)) \div (-(a2 * b1)), 1>>
                            [] OTHER -> Undefined
    BY <1>2, <2>1 DEF Value
  <2>3. PICK d \in Nat \ {0}, x \in Int, y \in Int, z \in Int : d = a2 * b2 /\ x = a1 * b2 /\ y = b1 * a2 /\ z = a1 * b1
    <3>1. a2 * b2 \in Nat \ {0}
      BY Times
    <3>2. a1 * b2 \in Int /\ b1 * a2 \in Int /\ a1 * b1 \in Int
      OBVIOUS
    <3> QED BY <3>1, <3>2
  <2>4. /\ a1 = 0 => x = 0 /\ z = 0
        /\ b1 = 0 => y = 0 /\ z = 0
    BY <2>3
  <2>5. b1 > 0 => a2 * b1 \in Nat \ {0}
    BY Times
  <2>6. b1 < 0 => -(a2 * b1) \in Nat \ {0}
    <3> SUFFICES ASSUME b1 < 0 PROVE -(a2 * b1) \in Nat \ {0}
      OBVIOUS
    <3>1. PICK c \in Nat \ {0} : c = -b1
      OBVIOUS
    <3>2. a2 * c \in Nat \ {0}
      BY Times
    <3>3. -(a2 * b1) = a2 * c
      BY <3>1
    <3> QED BY <3>2, <3>3
  <2>7. CASE op \in {"+", "-", "*"}
    <3>1. x + y \in Int /\ x - y \in Int
      OBVIOUS
    <3>2. /\ op = "+" => Value(op, a, b) = <<x + y, d>>
          /\ op = "-" => Value(op, a, b) = <<x - y, d>>
          /\ op = "*" => Value(op, a, b) = <<z, d>>
      BY <2>2, <2>3
    <3>3. Value(op, a, b) \in Fractions
      BY <2>7, <3>1, <3>2, FractionOf
    <3>4. /\ op = "+" => Value(op, a, b)[1] = x + y
          /\ op = "-" => Value(op, a, b)[1] = x - y
          /\ op = "*" => Value(op, a, b)[1] = z
      BY <3>2, ZeroAlone
    <3>5. /\ a1 = 0 /\ b1 = 0 => x + y = 0 /\ x - y = 0
          /\ a1 = 0 \/ b1 = 0 => z = 0
      BY <2>4
    <3>6. op \notin {"/", "//"}
      BY <2>7
    <3> QED BY <2>1, <2>7, <3>3, <3>4, <3>5, <3>6
  <2>8. CASE op = "/" /\ b1 # 0
    <3>1. PICK n \in Int, e \in Nat \ {0} : Value(op, a, b) = <<n, e>> /\ (a1 = 0 => n = 0)
      <4>1. CASE b1 > 0
        <5>1. Value(op, a, b) = <<x, a2 * b1>>
          BY <2>2, <2>3, <2>8, <4>1
        <5> QED BY <2>4, <2>5, <4>1, <5>1
      <4>2. CASE b1 < 0
        <5>1. Value(op, a, b) = <<-x, -(a2 * b1)>>
          BY <2>2, <2>3, <2>8, <4>2
        <5>2. -x \in Int /\ (a1 = 0 => -x = 0)
          BY <2>4
        <5> QED BY <2>6, <4>2, <5>1, <5>2
      <4> QED BY <2>8, <4>1, <4>2
    <3>2. Value(op, a, b)[1] = n
      BY <3>1, ZeroAlone
    <3> QED BY <2>1, <2>8, <3>1, <3>2, FractionOf
  <2>9. CASE op = "//" /\ b1 # 0
    <3>1. PICK n \in Int, e \in Nat \ {0} : Value(op, a, b) = <<n, e>> /\ (a1 = 0 => n = 0)
      <4>1. ASSUME NEW p \in Int, NEW e \in Nat \ {0} PROVE p \div e \in Int /\ (p = 0 => p \div e = 0)
        OBVIOUS
      <4>2. CASE b1 > 0
        <5>1. Value(op, a, b) = <<x \div (a2 * b1), 1>>
          BY <2>2, <2>3, <2>9, <4>2
        <5>2. PICK e \in Nat \ {0} : e = a2 * b1
          BY <2>5, <4>2
        <5>3. x \div e \in Int /\ (a1 = 0 => x \div e = 0)
          BY <2>4, <4>1
        <5> QED BY <5>1, <5>2, <5>3
      <4>3. CASE b1 < 0
        <5>1. Value(op, a, b) = <<(-x) \div (-(a2 * b1)), 1>>
          BY <2>2, <2>3, <2>9, <4>3
        <5>2. PICK e \in Nat \ {0}, p \in Int : e = -(a2 * b1) /\ p = -x
          BY <2>6, <4>3
        <5>3. p \div e \in Int /\ (a1 = 0 => p \div e = 0)
          BY <2>4, <4>1, <5>2
        <5> QED BY <5>1, <5>2, <5>3
      <4> QED BY <2>9, <4>2, <4>3
    <3>2. Value(op, a, b)[1] = n
      BY <3>1, ZeroAlone
    <3> QED BY <2>1, <2>9, <3>1, <3>2, FractionOf
  <2>10. CASE ~(op \in {"+", "-", "*"}) /\ ~(op = "/" /\ b1 # 0) /\ ~(op = "//" /\ b1 # 0)
    <3>1. Value(op, a, b) = Undefined
      BY <2>2, <2>10
    <3> QED BY <1>0, <3>1
  <2> QED BY <2>7, <2>8, <2>9, <2>10
<1> QED BY <1>1, <1>2

LEMMA DocCloses ==
    ASSUME NEW op, NEW a, NEW b
    PROVE  DocType(op, a, b) \in ExprTypes \cup {"NONE"} /\ DocLength(a) \in ExprTypes \cup {"NONE"}
BY DEF DocType, DocLength, ExprTypes, VarTypes

LEMMA ResultsClose ==
    ASSUME NEW m \in Modes
    PROVE  /\ \A t \in Retagged : t.spec = "i" => OperandOf(m, t) \in Results(m)
           /\ \A a \in Results(m) : LengthOf(m, a) \in Results(m)
           /\ \A op : \A a, b \in Results(m) : BinaryOf(m, op, a, b) \in Results(m)
<1>1. CASE m = TypesOf
  <2>1. m.kind = "types"
    BY <1>1 DEF TypesOf
  <2>2. \A t \in Retagged : t.spec = "i" => OperandType(t) \in ExprTypes
    BY RetaggedFacts DEF ExprTypes
  <2> QED BY <2>1, <2>2, DocCloses DEF OperandOf, LengthOf, BinaryOf, Results
<1>2. ASSUME NEW v \in Fractions, m = ValuesOf(v)
      PROVE  /\ \A t \in Retagged : t.spec = "i" => OperandOf(m, t) \in Results(m)
             /\ \A a \in Results(m) : LengthOf(m, a) \in Results(m)
             /\ \A op : \A a, b \in Results(m) : BinaryOf(m, op, a, b) \in Results(m)
  <2>1. m.kind # "types" /\ m.of = v
    BY <1>2 DEF ValuesOf
  <2>2. <<0, 1>> \in Fractions /\ Undefined \in Fractions
    BY DEF Fractions
  <2> QED BY <2>1, <2>2, ValueCloses DEF OperandOf, LengthOf, BinaryOf, Results
<1> QED BY <1>1, <1>2 DEF Modes
-----------------------------------------------------------------------------
(* What each rule does to the values.                                       *)

Reducible(s) ==
    /\ s \in Seq(TokenSet) /\ StackShape(s) /\ \A j \in DOMAIN s : StackSymbol(s[j])
    /\ stack_top_term(s).spec \in BinaryOps \cup {"#", "i", ")"}

(* Where the symbols of a rule lie. *)
LEMMA RulePlaces ==
    ASSUME NEW s, Reducible(s), NEW m, m = MarkAt(s), NEW r, r = Rhs(s)
    PROVE  LET n == Len(s)
           IN /\ n \in Nat /\ m \in 2..(n - 1) /\ s[m].spec = "MARK"
              /\ IsOperand(r) => n = m + 1 /\ r[2] = s[m + 1]
              /\ IsLength(r) => n = m + 2 /\ r[1] = s[m + 1] /\ r[2] = s[m + 2]
              /\ IsParens(r) \/ IsBinary(r) =>
                    n = m + 3 /\ r[0] = s[m + 1] /\ r[1] = s[m + 2] /\ r[2] = s[m + 3]
<1> DEFINE n == Len(s)
<1>1. /\ s \in Seq(TokenSet) /\ StackShape(s) /\ \A j \in DOMAIN s : StackSymbol(s[j])
      /\ stack_top_term(s).spec \in BinaryOps \cup {"#", "i", ")"}
  BY DEF Reducible
<1>2. n \in Nat /\ m \in 2..(n - 1) /\ n \in (m + 1)..(m + 3) /\ s[m].spec = "MARK"
  BY <1>1, Marked, TopTerm
<1>3. ASSUME NEW k \in 0..2, r[k].spec # "EMPTY"
      PROVE  n - 2 + k >= m + 1 /\ r[k] = s[n - 2 + k]
  <2>1. n - 2 + k \in (m + 1)..n /\ r[k] = s[n - 2 + k]
    BY <1>1, <1>3, RhsPositions
  <2> HIDE DEF n
  <2> QED BY <1>2, <2>1
<1>4. \A k \in 0..2 : r[k].spec = "EMPTY" => n - 2 + k <= m
  BY <1>1, RhsEmpty
<1> HIDE DEF n
<1>5. /\ r[0].spec # "EMPTY" => n - 2 >= m + 1 /\ r[0] = s[n - 2]
      /\ r[1].spec # "EMPTY" => n - 1 >= m + 1 /\ r[1] = s[n - 1]
      /\ r[2].spec # "EMPTY" => n >= m + 1 /\ r[2] = s[n]
      /\ r[0].spec = "EMPTY" => n - 2 <= m
      /\ r[1].spec = "EMPTY" => n - 1 <= m
  <2>1. n - 2 + 0 = n - 2 /\ n - 2 + 1 = n - 1 /\ n - 2 + 2 = n
    BY <1>2
  <2> QED BY <1>3, <1>4, <2>1
<1>6. IsOperand(r) => n = m + 1 /\ r[2] = s[m + 1]
  BY <1>2, <1>5 DEF IsOperand
<1>7. IsLength(r) => n = m + 2 /\ r[1] = s[m + 1] /\ r[2] = s[m + 2]
  <2> SUFFICES ASSUME IsLength(r) PROVE n = m + 2 /\ r[1] = s[m + 1] /\ r[2] = s[m + 2]
    OBVIOUS
  <2>1. n = m + 2 /\ r[1] = s[n - 1] /\ r[2] = s[n]
    BY <1>2, <1>5 DEF IsLength
  <2>2. n - 1 = m + 1
    BY <1>2, <2>1
  <2> QED BY <2>1, <2>2
<1>8. IsParens(r) \/ IsBinary(r) => n = m + 3 /\ r[0] = s[m + 1] /\ r[1] = s[m + 2] /\ r[2] = s[m + 3]
  <2> SUFFICES ASSUME IsParens(r) \/ IsBinary(r)
               PROVE  n = m + 3 /\ r[0] = s[m + 1] /\ r[1] = s[m + 2] /\ r[2] = s[m + 3]
    OBVIOUS
  <2>1. r[0].spec # "EMPTY" /\ r[1].spec # "EMPTY" /\ r[2].spec # "EMPTY"
    BY Alphabet DEF IsParens, IsBinary
  <2>2. n = m + 3 /\ r[0] = s[n - 2] /\ r[1] = s[n - 1] /\ r[2] = s[n]
    BY <1>2, <1>5, <2>1
  <2>3. n - 2 = m + 1 /\ n - 1 = m + 2
    BY <1>2, <2>2
  <2> QED BY <2>2, <2>3
<1> QED BY <1>2, <1>6, <1>7, <1>8 DEF n

(* Which values belong to the nonterminals of a rule. *)
LEMMA RuleCounts ==
    ASSUME NEW s, Reducible(s), NEW m, m = MarkAt(s), NEW r, r = Rhs(s), NEW c, c = Count(s, m)
    PROVE  /\ c \in Nat
           /\ IsOperand(r) => Count(s, Len(s)) = c
           /\ IsLength(r) => Count(s, Len(s)) = c + 1 /\ Count(s, m + 2) = c + 1
           /\ IsParens(r) => Count(s, Len(s)) = c + 1 /\ Count(s, m + 2) = c + 1
           /\ IsBinary(r) => Count(s, Len(s)) = c + 2 /\ Count(s, m + 1) = c + 1 /\ Count(s, m + 3) = c + 2
<1> DEFINE n == Len(s)
<1>1. /\ n \in Nat /\ m \in 2..(n - 1) /\ s[m].spec = "MARK"
      /\ IsOperand(r) => n = m + 1 /\ r[2] = s[m + 1]
      /\ IsLength(r) => n = m + 2 /\ r[1] = s[m + 1] /\ r[2] = s[m + 2]
      /\ IsParens(r) \/ IsBinary(r) =>
            n = m + 3 /\ r[0] = s[m + 1] /\ r[1] = s[m + 2] /\ r[2] = s[m + 3]
  BY RulePlaces
<1> HIDE DEF n
<1>2. PICK m1 \in Nat \ {0}, m2 \in Nat \ {0}, m3 \in Nat \ {0} : m1 = m + 1 /\ m2 = m + 2 /\ m3 = m + 3
  BY <1>1
<1>3. m1 - 1 = m /\ m2 - 1 = m1 /\ m3 - 1 = m2 /\ m \in Nat \ {0}
  BY <1>1, <1>2
<1>4. /\ c \in Nat /\ (s[m1].spec = "E" => Count(s, m1) = c + 1) /\ (s[m1].spec # "E" => Count(s, m1) = c)
  <2>1. /\ Count(s, m1 - 1) \in Nat
        /\ s[m1].spec = "E" => Count(s, m1) = Count(s, m1 - 1) + 1
        /\ s[m1].spec # "E" => Count(s, m1) = Count(s, m1 - 1)
    BY CountStep
  <2> QED BY <1>3, <2>1
<1>5. /\ (s[m2].spec = "E" => Count(s, m2) = Count(s, m1) + 1) /\ (s[m2].spec # "E" => Count(s, m2) = Count(s, m1))
      /\ (s[m3].spec = "E" => Count(s, m3) = Count(s, m2) + 1) /\ (s[m3].spec # "E" => Count(s, m3) = Count(s, m2))
  BY <1>3, CountStep
<1>6. IsOperand(r) => Count(s, n) = c
  <2> SUFFICES ASSUME IsOperand(r) PROVE Count(s, n) = c
    OBVIOUS
  <2>1. n = m1 /\ s[m1].spec # "E"
    BY <1>1, <1>2 DEF IsOperand
  <2> QED BY <1>4, <2>1
<1>7. IsLength(r) => Count(s, n) = c + 1 /\ Count(s, m + 2) = c + 1
  <2> SUFFICES ASSUME IsLength(r) PROVE Count(s, n) = c + 1 /\ Count(s, m + 2) = c + 1
    OBVIOUS
  <2>1. n = m2 /\ s[m1].spec # "E" /\ s[m2].spec = "E"
    BY <1>1, <1>2 DEF IsLength
  <2> QED BY <1>2, <1>4, <1>5, <2>1
<1>8. IsParens(r) => Count(s, n) = c + 1 /\ Count(s, m + 2) = c + 1
  <2> SUFFICES ASSUME IsParens(r) PROVE Count(s, n) = c + 1 /\ Count(s, m + 2) = c + 1
    OBVIOUS
  <2>1. n = m3 /\ s[m1].spec # "E" /\ s[m2].spec = "E" /\ s[m3].spec # "E"
    BY <1>1, <1>2 DEF IsParens
  <2> QED BY <1>2, <1>4, <1>5, <2>1
<1>9. IsBinary(r) => Count(s, n) = c + 2 /\ Count(s, m + 1) = c + 1 /\ Count(s, m + 3) = c + 2
  <2> SUFFICES ASSUME IsBinary(r) PROVE Count(s, n) = c + 2 /\ Count(s, m + 1) = c + 1 /\ Count(s, m + 3) = c + 2
    OBVIOUS
  <2>1. n = m3 /\ s[m1].spec = "E" /\ s[m2].spec # "E" /\ s[m3].spec = "E"
    <3>1. r[1].spec # "E"
      BY Alphabet DEF IsBinary
    <3> QED BY <1>1, <1>2, <3>1 DEF IsBinary
  <2>2. Count(s, m1) = c + 1 /\ Count(s, m3) = Count(s, m1) + 1
    BY <1>4, <1>5, <2>1
  <2>3. (c + 1) + 1 = c + 2
    BY <1>4
  <2> QED BY <1>2, <2>1, <2>2, <2>3
<1> QED BY <1>4, <1>6, <1>7, <1>8, <1>9 DEF n

(* The value a of a rule, the tokens u it lists, after the values x. *)
Makes(m, r, x, c, a, u) ==
    \/ IsOperand(r) /\ u = <<r[2]>> /\ a = OperandOf(m, r[2]) /\ Len(x) = c
    \/ IsLength(r) /\ u = <<r[1]>> /\ a = LengthOf(m, x[c + 1]) /\ Len(x) = c + 1
    \/ IsParens(r) /\ u = <<>> /\ a = x[c + 1] /\ Len(x) = c + 1
    \/ IsBinary(r) /\ u = <<r[1]>> /\ a = BinaryOf(m, r[1].spec, x[c + 1], x[c + 2]) /\ Len(x) = c + 2

LEMMA FrontIs ==
    ASSUME NEW S, NEW x \in Seq(S), NEW c \in Nat, Len(x) = c + 1
    PROVE  Front(x) = SubSeq(x, 1, c) /\ Last(x) = x[c + 1] /\ x = Append(SubSeq(x, 1, c), x[c + 1])
<1> DEFINE y == SubSeq(x, 1, c)
           z == Append(y, x[c + 1])
<1>1. Front(x) = y /\ Last(x) = x[c + 1]
  BY DEF Front, Last
<1>2. y \in Seq(S) /\ Len(y) = c /\ (\A i \in 1..c : y[i] = x[i]) /\ x[c + 1] \in S
  <2>1. \A i \in 1..c : i \in 1..Len(x)
    OBVIOUS
  <2>2. c + 1 \in 1..Len(x)
    OBVIOUS
  <2> QED BY <2>1, <2>2
<1>3. Len(z) = c + 1 /\ z \in Seq(S) /\ z[c + 1] = x[c + 1] /\ \A i \in 1..c : z[i] = y[i]
  <2> HIDE DEF y
  <2> QED BY <1>2
<1> HIDE DEF y, z
<1>4. \A i \in 1..(c + 1) : z[i] = x[i]
  <2>1. \A i \in 1..(c + 1) : i = c + 1 \/ i \in 1..c
    OBVIOUS
  <2> QED BY <1>2, <1>3, <2>1
<1>5. z = x
  BY <1>3, <1>4
<1> QED BY <1>1, <1>5 DEF y, z

(* One value a instead of those above c; the list grows by u. *)
Becomes(m, w, x, c, a, u) ==
    /\ a \in Results(m) /\ u \in Seq(TokenSet)
    /\ \E y : y = Append(SubSeq(x, 1, c), a) /\ Leaves(m, w \o u, y)

LEMMA Fed ==
    ASSUME NEW m \in Modes, NEW w \in Seq(TokenSet), NEW x \in Seq(Results(m)), Leaves(m, w, x),
           NEW r, NEW c \in Nat, NEW a, NEW u, Makes(m, r, x, c, a, u),
           r[2].spec = "i" => r[2] \in Retagged, r[1] \in TokenSet
    PROVE  Becomes(m, w, x, c, a, u)
<1> DEFINE y == Append(SubSeq(x, 1, c), a)
<1>0. SUFFICES a \in Results(m) /\ u \in Seq(TokenSet) /\ Leaves(m, w \o u, y)
  <2>1. y = Append(SubSeq(x, 1, c), a)
    BY Zenon
  <2> HIDE DEF y
  <2> QED BY <2>1, Zenon DEF Becomes
<1>1. \A i \in 1..Len(x) : x[i] \in Results(m)
  OBVIOUS
<1>2. Len(x) \in Nat /\ (c <= Len(x) => SubSeq(x, 1, c) \in Seq(Results(m)))
  OBVIOUS
<1>3. ASSUME c <= Len(x), a \in Results(m), NEW t \in TokenSet, u = <<t>>, y = Feed(m, x, t)
      PROVE  a \in Results(m) /\ u \in Seq(TokenSet) /\ Leaves(m, w \o u, y)
  <2>1. y \in Seq(Results(m))
    <3>1. SubSeq(x, 1, c) \in Seq(Results(m))
      BY <1>2, <1>3
    <3> QED BY <1>3, <3>1
  <2> HIDE DEF y
  <2>2. Leaves(m, w \o <<t>>, y)
    BY <1>3, <2>1, LeavesMore
  <2> QED BY <1>3, <2>2
<1>4. CASE IsOperand(r) /\ u = <<r[2]>> /\ a = OperandOf(m, r[2]) /\ Len(x) = c
  <2>1. r[2].spec = "i" /\ r[2] \in Retagged
    BY <1>4 DEF IsOperand
  <2>2. r[2] \in TokenSet /\ a \in Results(m)
    BY <1>4, <2>1, ResultsClose, RetaggedFacts
  <2>3. SubSeq(x, 1, c) = x
    BY <1>4
  <2>4. y = Feed(m, x, r[2])
    BY <1>4, <2>1, <2>3 DEF Feed
  <2> QED BY <1>2, <1>3, <1>4, <2>2, <2>4
<1>5. CASE IsLength(r) /\ u = <<r[1]>> /\ a = LengthOf(m, x[c + 1]) /\ Len(x) = c + 1
  <2>1. r[1].spec = "#" /\ c <= Len(x)
    BY <1>2, <1>5 DEF IsLength
  <2>2. c + 1 \in 1..Len(x)
    BY <1>2, <1>5
  <2>3. a \in Results(m)
    BY <1>1, <1>5, <2>2, ResultsClose
  <2>4. Front(x) = SubSeq(x, 1, c) /\ Last(x) = x[c + 1]
    BY <1>5, FrontIs
  <2>5. y = Feed(m, x, r[1])
    BY <1>5, <2>1, <2>4 DEF Feed
  <2> QED BY <1>3, <1>5, <2>1, <2>3, <2>5
<1>6. CASE IsParens(r) /\ u = <<>> /\ a = x[c + 1] /\ Len(x) = c + 1
  <2>1. c + 1 \in 1..Len(x)
    BY <1>2, <1>6
  <2>2. a \in Results(m) /\ y = x
    BY <1>1, <1>6, <2>1, FrontIs
  <2> HIDE DEF y
  <2>3. w \o u = w /\ u \in Seq(TokenSet)
    BY <1>6
  <2> QED BY <2>2, <2>3
<1>7. CASE IsBinary(r) /\ u = <<r[1]>> /\ a = BinaryOf(m, r[1].spec, x[c + 1], x[c + 2]) /\ Len(x) = c + 2
  <2>1. r[1].spec \notin {"i", "#"} /\ c <= Len(x)
    BY <1>2, <1>7, OperatorCases DEF IsBinary
  <2>2. c + 1 \in 1..Len(x) /\ c + 2 \in 1..Len(x) /\ Len(x) - 2 = c /\ Len(x) - 1 = c + 1
    BY <1>2, <1>7
  <2>3. a \in Results(m)
    BY <1>1, <1>7, <2>2, ResultsClose
  <2>4. y = Feed(m, x, r[1])
    BY <1>7, <2>1, <2>2 DEF Feed
  <2> QED BY <1>3, <1>7, <2>1, <2>3, <2>4
<1> HIDE DEF y
<1> QED BY <1>4, <1>5, <1>6, <1>7 DEF Makes

(* Every rule makes something. *)
LEMMA RuleMakes ==
    ASSUME NEW s, Reducible(s), NEW r, r = Rhs(s), NEW c, c = Count(s, MarkAt(s)),
           NEW m, NEW x, Len(x) = Count(s, Len(s))
    PROVE  /\ c \in Nat
           /\ IsOperand(r) => Makes(m, r, x, c, OperandOf(m, r[2]), <<r[2]>>)
           /\ IsLength(r) => Makes(m, r, x, c, LengthOf(m, x[c + 1]), <<r[1]>>)
           /\ IsParens(r) => Makes(m, r, x, c, x[c + 1], <<>>)
           /\ IsBinary(r) => Makes(m, r, x, c, BinaryOf(m, r[1].spec, x[c + 1], x[c + 2]), <<r[1]>>)
BY RuleCounts DEF Makes
-----------------------------------------------------------------------------
(* What the fields of a nonterminal tell of its value stays true.           *)

(* The comparisons are the rules that do not keep their comments (see        *)
(* RelationsAsDocumented).                                                   *)
ComparesAsDocumented ==
    LET r == Rhs(stack) IN
    Cell(">") /\ IsBinary(r) /\ r[1].spec \in RelOps =>
        NontBinary(r).type = DocType(r[1].spec, r[0].type, r[2].type)

(* They do when no string is compared. *)
LEMMA StringsAside ==
    ASSUME NEW op \in BinaryOps, NEW a, NEW b, op \in RelOps => a # "STRING" /\ b # "STRING"
    PROVE  BinaryType(op, a, b) = DocType(op, a, b)
<1>1. CASE op \in RelOps
  <2>1. /\ RelationOk(a, b) <=> {a, b} \subseteq DocNumeric
        /\ EqualityOk(a, b) <=> {a, b} \subseteq DocNumeric \cup {"NIL"}
        /\ {a, b} # {"STRING"} /\ ({a, b} \subseteq {"STRING", "NIL"} => {a, b} \subseteq DocNumeric \cup {"NIL"})
    BY <1>1 DEF RelationOk, EqualityOk, Numeric, DocNumeric
  <2> QED BY <1>1, <2>1 DEF BinaryType, DocType, RelOps
<1>2. CASE op \in {"+", "-", "*"}
  <2>1. ({a, b} \subseteq DocNumeric <=> a \in Numeric /\ b \in Numeric) /\ ({a, b} = {"INTEGER"} <=> a = "INTEGER" /\ b = "INTEGER")
    BY DEF Numeric, DocNumeric
  <2> QED BY <1>2, <2>1 DEF BinaryType, DocType, ArithmeticType, Numeric
<1>3. CASE op \in {"/", "//", ".."}
  <2>1. /\ {a, b} \subseteq DocNumeric <=> a \in Numeric /\ b \in Numeric
        /\ {a, b} = {"INTEGER"} <=> a = "INTEGER" /\ b = "INTEGER"
        /\ {a, b} = {"STRING"} <=> a = "STRING" /\ b = "STRING"
    BY DEF Numeric, DocNumeric
  <2> QED BY <1>3, <2>1 DEF BinaryType, DocType
<1> QED BY <1>1, <1>2, <1>3 DEF BinaryOps, AddOps, MulOps

(* In the mode of types, comparisons are held to their comments. *)
Agreed(m, r) ==
    m.kind = "types" /\ IsBinary(r) =>
        NontBinary(r).type = DocType(r[1].spec, r[0].type, r[2].type)

LEMMA AgreedNow ==
    ASSUME Cell(">"), ComparesAsDocumented, NEW m
    PROVE  Agreed(m, Rhs(stack))
<1> DEFINE r == Rhs(stack)
<1>1. CASE r[1].spec \in RelOps
  BY <1>1 DEF ComparesAsDocumented, Agreed
<1>2. CASE r[1].spec \notin RelOps
  <2>1. r[1].spec \in BinaryOps => BinaryType(r[1].spec, r[0].type, r[2].type) = DocType(r[1].spec, r[0].type, r[2].type)
    BY <1>2, StringsAside
  <2> QED BY <2>1 DEF Agreed, IsBinary, NontBinary
<1> QED BY <1>1, <1>2

(* The values of a rule's operands. *)
LEMMA OperandsMean ==
    ASSUME NEW s, Reducible(s), NEW r, r = Rhs(s), NEW c, c = Count(s, MarkAt(s)),
           NEW m, NEW x, Belong(m, s, x)
    PROVE  /\ IsLength(r) => Means(m, r[2], x[c + 1])
           /\ IsParens(r) => Means(m, r[1], x[c + 1])
           /\ IsBinary(r) => Means(m, r[0], x[c + 1]) /\ Means(m, r[2], x[c + 2])
<1> DEFINE k == MarkAt(s)
           n == Len(s)
<1>1. /\ n \in Nat /\ k \in 2..(n - 1)
      /\ IsLength(r) => n = k + 2 /\ r[1] = s[k + 1] /\ r[2] = s[k + 2]
      /\ IsParens(r) \/ IsBinary(r) =>
            n = k + 3 /\ r[0] = s[k + 1] /\ r[1] = s[k + 2] /\ r[2] = s[k + 3]
  BY RulePlaces
<1>2. /\ IsLength(r) => Count(s, k + 2) = c + 1
      /\ IsParens(r) => Count(s, k + 2) = c + 1
      /\ IsBinary(r) => Count(s, k + 1) = c + 1 /\ Count(s, k + 3) = c + 2
  BY RuleCounts
<1>3. \A j \in 1..n : s[j].spec = "E" => Means(m, s[j], x[Count(s, j)])
  BY DEF Belong
<1> HIDE DEF k, n
<1>4. /\ n = k + 2 => k + 2 \in 1..n
      /\ n = k + 3 => k + 1 \in 1..n /\ k + 2 \in 1..n /\ k + 3 \in 1..n
  BY <1>1
<1>5. IsLength(r) => Means(m, r[2], x[c + 1])
  <2> SUFFICES ASSUME IsLength(r) PROVE Means(m, r[2], x[c + 1])
    OBVIOUS
  <2>1. r[2] = s[k + 2] /\ s[k + 2].spec = "E" /\ k + 2 \in 1..n
    BY <1>1, <1>4 DEF IsLength
  <2> QED BY <1>2, <1>3, <2>1
<1>6. IsParens(r) => Means(m, r[1], x[c + 1])
  <2> SUFFICES ASSUME IsParens(r) PROVE Means(m, r[1], x[c + 1])
    OBVIOUS
  <2>1. r[1] = s[k + 2] /\ s[k + 2].spec = "E" /\ k + 2 \in 1..n
    BY <1>1, <1>4 DEF IsParens
  <2> QED BY <1>2, <1>3, <2>1
<1>7. IsBinary(r) => Means(m, r[0], x[c + 1]) /\ Means(m, r[2], x[c + 2])
  <2> SUFFICES ASSUME IsBinary(r) PROVE Means(m, r[0], x[c + 1]) /\ Means(m, r[2], x[c + 2])
    OBVIOUS
  <2>1. /\ r[0] = s[k + 1] /\ s[k + 1].spec = "E" /\ k + 1 \in 1..n
        /\ r[2] = s[k + 3] /\ s[k + 3].spec = "E" /\ k + 3 \in 1..n
    BY <1>1, <1>4 DEF IsBinary
  <2> QED BY <1>2, <1>3, <2>1
<1> QED BY <1>5, <1>6, <1>7

(* The nonterminal of each rule means its value. *)
LEMMA RuleMeans ==
    ASSUME NEW r, NEW m \in Modes, NEW x \in Seq(Results(m)), NEW c \in Nat
    PROVE  /\ IsOperand(r) => Means(m, NontOperand(r), OperandOf(m, r[2]))
           /\ IsLength(r) /\ r[2] \in TokenSet /\ r[2].type = "STRING" /\ Means(m, r[2], x[c + 1]) =>
                  Means(m, NontLength(r), LengthOf(m, x[c + 1]))
           /\ (IsBinary(r) /\ Agreed(m, r) /\ Len(x) = c + 2
               /\ Means(m, r[0], x[c + 1]) /\ Means(m, r[2], x[c + 2])) =>
                  Means(m, NontBinary(r), BinaryOf(m, r[1].spec, x[c + 1], x[c + 2]))
<1>1. CASE m.kind = "types"
  <2>1. IsOperand(r) => Means(m, NontOperand(r), OperandOf(m, r[2]))
    BY <1>1 DEF Means, OperandOf, NontOperand
  <2>2. ASSUME r[2] \in TokenSet, r[2].type = "STRING", Means(m, r[2], x[c + 1])
        PROVE  Means(m, NontLength(r), LengthOf(m, x[c + 1]))
    <3>1. x[c + 1] = "STRING" /\ NontLength(r).type = "INTEGER"
      BY <1>1, <2>2 DEF Means, NontLength, TokenSet
    <3>2. LengthOf(m, x[c + 1]) = "INTEGER"
      BY <1>1, <3>1 DEF LengthOf, DocLength
    <3> QED BY <1>1, <3>1, <3>2 DEF Means
  <2>3. ASSUME IsBinary(r), Agreed(m, r), Means(m, r[0], x[c + 1]), Means(m, r[2], x[c + 2])
        PROVE  Means(m, NontBinary(r), BinaryOf(m, r[1].spec, x[c + 1], x[c + 2]))
    <3>1. x[c + 1] = r[0].type /\ x[c + 2] = r[2].type
      BY <1>1, <2>3 DEF Means
    <3>2. BinaryOf(m, r[1].spec, x[c + 1], x[c + 2]) = DocType(r[1].spec, r[0].type, r[2].type)
      BY <1>1, <3>1 DEF BinaryOf
    <3> QED BY <1>1, <2>3, <3>2 DEF Means, Agreed
  <2> QED BY <2>1, <2>2, <2>3, Zenon
<1>2. CASE m.kind # "types"
  <2>1. m.of \in Fractions /\ Results(m) = Fractions
    BY <1>2 DEF Modes, TypesOf, ValuesOf, Results
  <2>2. IsOperand(r) => Means(m, NontOperand(r), OperandOf(m, r[2]))
    BY <1>2, ZeroAlone DEF Means, OperandOf, NontOperand
  <2>3. Means(m, NontLength(r), LengthOf(m, x[c + 1]))
    BY <1>2 DEF Means, LengthOf, Undefined
  <2>4. ASSUME IsBinary(r), Len(x) = c + 2, Means(m, r[0], x[c + 1]), Means(m, r[2], x[c + 2])
        PROVE  Means(m, NontBinary(r), BinaryOf(m, r[1].spec, x[c + 1], x[c + 2]))
    <3> DEFINE op == r[1].spec
               a == x[c + 1]
               b == x[c + 2]
    <3>1. a \in Fractions /\ b \in Fractions
      <4>1. c + 1 \in 1..Len(x) /\ c + 2 \in 1..Len(x)
        BY <2>4
      <4>2. \A i \in 1..Len(x) : x[i] \in Results(m)
        OBVIOUS
      <4> QED BY <2>1, <4>1, <4>2
    <3>2. (r[0].attr = "0" => a[1] = 0) /\ (r[2].attr = "0" => b[1] = 0)
      BY <1>2, <2>4 DEF Means
    <3>3. BinaryOf(m, op, a, b) = Value(op, a, b)
      BY <1>2 DEF BinaryOf
    <3>4. NontBinary(r).attr = "0" => KnownZero(op, r[0].attr, r[2].attr)
      BY DEF NontBinary
    <3> HIDE DEF op, a, b
    <3>5. KnownZero(op, r[0].attr, r[2].attr) => Value(op, a, b)[1] = 0
      BY <3>1, <3>2, ValueCloses DEF KnownZero
    <3>6. Means(m, NontBinary(r), BinaryOf(m, op, a, b))
      BY <1>2, <3>3, <3>4, <3>5 DEF Means
    <3> QED BY <3>6 DEF op, a, b
  <2> QED BY <2>2, <2>3, <2>4, Zenon
<1> QED BY <1>1, <1>2
-----------------------------------------------------------------------------
(* The values the list has belong to the stack, in every state.             *)

HoldsValues(m) == pc = "parse" => Valued(m, stack, AST_list)

LEMMA ReducibleNow ==
    ASSUME Inv, Cell(">")
    PROVE  Reducible(stack) /\ pc = "parse" /\ AST_list \in Seq(TokenSet) /\ Len(stack) \in Nat
BY ParsingFacts, TableCells DEF Cell, Parsing, stack_n, Reducible

LEMMA PushValued ==
    ASSUME Inv, Cell(">"), NEW m \in Modes, NEW x, Leaves(m, AST_list, x), Belong(m, stack, x),
           NEW r, r = Rhs(stack), NEW c, c = Count(stack, MarkAt(stack)), NEW a, NEW u,
           Makes(m, r, x, c, a, u), NEW nont \in TokenSet, nont.spec = "E", Means(m, nont, a), Push(nont, u)
    PROVE  HoldsValues(m)'
<1>1. Reducible(stack) /\ AST_list \in Seq(TokenSet)
  BY ReducibleNow
<1>2. stack' = Replaced(stack, nont) /\ AST_list' = AST_list \o u
  BY DEF Push
<1>3. c \in Nat
  BY <1>1, RuleCounts
<1>4. (r[2].spec = "i" => r[2] \in Retagged) /\ r[1] \in TokenSet
  <2>1. r[1] \in TokenSet /\ (r[2].spec # "EMPTY" => StackSymbol(r[2]))
    BY RhsSymbols
  <2> QED BY <2>1 DEF StackSymbol
<1>5. x \in Seq(Results(m))
  BY DEF Belong
<1>6. Becomes(m, AST_list, x, c, a, u)
  <2>1. AST_list \in Seq(TokenSet) /\ (r[2].spec = "i" => r[2] \in Retagged) /\ r[1] \in TokenSet
    BY <1>1, <1>4
  <2> QED BY <1>3, <1>5, <2>1, Fed
<1>7. PICK y : a \in Results(m) /\ y = Append(SubSeq(x, 1, c), a) /\ Leaves(m, AST_list \o u, y)
  BY <1>6 DEF Becomes
<1>8. Belong(m, Replaced(stack, nont), y)
  BY <1>1, <1>7, ReducedBelong DEF Reducible
<1> QED BY <1>2, <1>7, <1>8 DEF HoldsValues, Valued

LEMMA ReduceValued ==
    ASSUME Inv, NEW m \in Modes, HoldsValues(m), Agreed(m, Rhs(stack)),
           ReduceOperand \/ ReduceLength \/ ReduceBinary \/ ReduceParens
    PROVE  HoldsValues(m)'
<1>0. Cell(">")
  BY DEF ReduceOperand, ReduceLength, ReduceBinary, ReduceParens
<1>1. Reducible(stack) /\ pc = "parse"
  BY <1>0, ReducibleNow
<1>2. PICK r, c : r = Rhs(stack) /\ c = Count(stack, MarkAt(stack))
  OBVIOUS
<1>3. PICK x : Leaves(m, AST_list, x) /\ Belong(m, stack, x)
  BY <1>1 DEF HoldsValues, Valued
<1>4. x \in Seq(Results(m)) /\ Len(x) = Count(stack, Len(stack))
  BY <1>3 DEF Belong
<1>5. /\ c \in Nat
      /\ IsOperand(r) => Makes(m, r, x, c, OperandOf(m, r[2]), <<r[2]>>)
      /\ IsLength(r) => Makes(m, r, x, c, LengthOf(m, x[c + 1]), <<r[1]>>)
      /\ IsParens(r) => Makes(m, r, x, c, x[c + 1], <<>>)
      /\ IsBinary(r) => Makes(m, r, x, c, BinaryOf(m, r[1].spec, x[c + 1], x[c + 2]), <<r[1]>>)
  BY <1>1, <1>2, <1>4, RuleMakes
<1>6. /\ IsLength(r) => Means(m, r[2], x[c + 1])
      /\ IsParens(r) => Means(m, r[1], x[c + 1])
      /\ IsBinary(r) => Means(m, r[0], x[c + 1]) /\ Means(m, r[2], x[c + 2])
  BY <1>1, <1>2, <1>3, OperandsMean
<1>7. r[1] \in TokenSet /\ r[2] \in TokenSet /\ (r[2].spec = "i" => r[2] \in Retagged)
  <2>1. r[1] \in TokenSet /\ r[2] \in TokenSet /\ (r[2].spec # "EMPTY" => StackSymbol(r[2]))
    BY <1>0, <1>2, RhsSymbols
  <2> QED BY <2>1 DEF StackSymbol
<1>8. CASE ReduceOperand
  <2>1. IsOperand(r) /\ r[2].spec = "i" /\ Push(NontOperand(r), <<r[2]>>)
    BY <1>2, <1>8 DEF ReduceOperand, IsOperand
  <2>2. NontOperand(r) \in TokenSet /\ NontOperand(r).spec = "E"
    BY <1>7, <2>1, NontOperandFacts
  <2>3. Means(m, NontOperand(r), OperandOf(m, r[2]))
    BY <1>4, <1>5, <2>1, RuleMeans
  <2> QED BY <1>0, <1>2, <1>3, <1>5, <2>1, <2>2, <2>3, PushValued
<1>9. CASE ReduceLength
  <2>1. IsLength(r) /\ r[2].spec = "E" /\ r[2].type = "STRING" /\ Push(NontLength(r), <<r[1]>>)
    BY <1>2, <1>9 DEF ReduceLength, IsLength
  <2>2. NontLength(r) \in TokenSet /\ NontLength(r).spec = "E"
    BY <1>7, <2>1, NontLengthFacts
  <2>3. Means(m, NontLength(r), LengthOf(m, x[c + 1]))
    BY <1>4, <1>5, <1>6, <1>7, <2>1, RuleMeans
  <2> QED BY <1>0, <1>2, <1>3, <1>5, <2>1, <2>2, <2>3, PushValued
<1>10. CASE ReduceBinary
  <2>1. IsBinary(r) /\ NontBinary(r).type # "NONE" /\ Push(NontBinary(r), <<r[1]>>)
    BY <1>2, <1>10 DEF ReduceBinary
  <2>2. NontBinary(r) \in TokenSet /\ NontBinary(r).spec = "E"
    BY <2>1, NontBinaryFacts
  <2>3. Makes(m, r, x, c, BinaryOf(m, r[1].spec, x[c + 1], x[c + 2]), <<r[1]>>) /\ Len(x) = c + 2
    <3>1. Len(x) = c + 2
      BY <1>1, <1>2, <1>4, <2>1, RuleCounts
    <3> QED BY <1>5, <2>1, <3>1
  <2>4. Means(m, NontBinary(r), BinaryOf(m, r[1].spec, x[c + 1], x[c + 2]))
    BY <1>2, <1>4, <1>5, <1>6, <2>1, <2>3, RuleMeans
  <2> QED BY <1>0, <1>2, <1>3, <2>1, <2>2, <2>3, <2>4, PushValued
<1>11. CASE ReduceParens
  <2>1. IsParens(r) /\ r[1].spec = "E" /\ Push(r[1], <<>>)
    BY <1>2, <1>11 DEF ReduceParens, IsParens
  <2> QED BY <1>0, <1>2, <1>3, <1>5, <1>6, <1>7, <2>1, PushValued
<1> QED BY <1>8, <1>9, <1>10, <1>11

LEMMA ShiftValued ==
    ASSUME Inv, NEW m, HoldsValues(m), Shift \/ MarkAndShift
    PROVE  HoldsValues(m)'
<1> DEFINE t == pp_list[element]
<1>1. /\ pc = "parse" /\ AST_list' = AST_list
      /\ stack' \in {Append(stack, t), Append(stack_mark(stack), t)}
  BY DEF Shift, MarkAndShift, Cell, Parsing, Advance
<1>2. t.spec # "E"
  BY TableCells, Alphabet DEF Shift, MarkAndShift, Cell, Parsing, input
<1>3. stack \in Seq(TokenSet) /\ StackShape(stack) /\ t \in TokenSet
  BY <1>1, ParsingFacts
<1> HIDE DEF t
<1>4. PICK x : Leaves(m, AST_list, x) /\ Belong(m, stack, x)
  BY <1>1 DEF HoldsValues, Valued
<1>5. Belong(m, stack', x)
  <2>1. Belong(m, Append(stack, t), x) /\ Belong(m, Append(stack_mark(stack), t), x)
    BY <1>2, <1>3, <1>4, ShiftBelong
  <2> QED BY <1>1, <2>1
<1> QED BY <1>1, <1>4, <1>5 DEF HoldsValues, Valued

LEMMA BeginValued ==
    ASSUME ZeroInv, BeginExpression, NEW m
    PROVE  HoldsValues(m)'
<1> DEFINE s == <<DollarToken>>
           x == <<>>
           none == <<>>
<1>1. stack' = s /\ AST_list' = none
  BY DEF BeginExpression, ZeroInv
<1>2. Len(s) = 1 /\ s[1].spec # "E"
  BY DEF DollarToken
<1>3. Len(x) = 0 /\ x \in Seq(Results(m))
  OBVIOUS
<1> HIDE DEF s
<1>4. Count(s, 1) = 0
  <2>1. 1 \in Nat \ {0} /\ 1 - 1 = 0
    OBVIOUS
  <2>2. Count(s, 1) = Count(s, 1 - 1)
    BY <1>2, <2>1, CountStep
  <2> QED BY <2>1, <2>2, CountNone
<1>5. Belong(m, s, x)
  <2>1. \A j \in 1..1 : s[j].spec # "E"
    BY <1>2
  <2> HIDE DEF x
  <2> QED BY <1>2, <1>3, <1>4, <2>1 DEF Belong
<1>6. Leaves(m, none, x)
  BY LeavesNothing
<1> HIDE DEF x, none
<1> QED BY <1>1, <1>5, <1>6 DEF HoldsValues, Valued

LEMMA NextValued ==
    ASSUME Inv, ZeroInv, NEW m \in Modes, HoldsValues(m), m.kind = "types" => ComparesAsDocumented, [Next]_vars
    PROVE  HoldsValues(m)'
<1>1. CASE Collect \/ GiveBack \/ GiveBackCall \/ EndOfFile \/ ReturnEmpty
  BY <1>1 DEF Collect, GiveBack, GiveBackCall, EndOfFile, ReturnEmpty, HoldsValues
<1>2. CASE BeginExpression
  BY <1>2, BeginValued
<1>3. CASE GoesOn
  <2>1. CASE Shift \/ MarkAndShift
    BY <2>1, ShiftValued
  <2>2. CASE ReduceOperand \/ ReduceLength \/ ReduceBinary \/ ReduceParens
    <3>1. Cell(">")
      BY <2>2 DEF ReduceOperand, ReduceLength, ReduceBinary, ReduceParens
    <3>2. Agreed(m, Rhs(stack))
      BY <3>1, AgreedNow DEF Agreed
    <3> QED BY <2>2, <3>2, ReduceValued
  <2> QED BY <1>3, <2>1, <2>2 DEF GoesOn
<1>4. CASE Ends
  BY <1>4, EndsFacts DEF HoldsValues
<1>5. CASE Accept
  BY <1>5 DEF Accept, HoldsValues
<1>6. CASE UNCHANGED vars
  BY <1>6 DEF vars, HoldsValues
<1> QED BY <1>1, <1>2, <1>3, <1>4, <1>5, <1>6, Steps

-----------------------------------------------------------------------------
(* Division by a known zero.                                                *)

ZeroReal == exit_code = 9 => \A v \in Fractions : Last(ValuesUnder(v, AST_list))[1] = 0

ValueInv == \A v \in Fractions : HoldsValues(ValuesOf(v))

LEMMA ZeroDivisionReal ==
    ASSUME Inv, ValueInv, ZeroDivision
    PROVE  ZeroReal'
<1>1. PICK r, c : r = Rhs(stack) /\ c = Count(stack, MarkAt(stack))
  OBVIOUS
<1>2. Cell(">") /\ IsBinary(r) /\ r[2].attr = "0" /\ AST_list' = AST_list
  BY <1>1 DEF ZeroDivision, DividesByZero, error
<1>3. Reducible(stack) /\ pc = "parse" /\ AST_list \in Seq(TokenSet)
  BY <1>2, ReducibleNow
<1>4. ASSUME NEW v \in Fractions PROVE Last(ValuesUnder(v, AST_list))[1] = 0
  <2> DEFINE m == ValuesOf(v)
  <2>1. PICK x : Leaves(m, AST_list, x) /\ Belong(m, stack, x)
    BY <1>3 DEF ValueInv, HoldsValues, Valued
  <2>2. Means(m, r[2], x[c + 2])
    BY <1>1, <1>2, <1>3, <2>1, OperandsMean
  <2>3. x[c + 2][1] = 0
    BY <1>2, <2>2 DEF Means, ValuesOf
  <2>4. Len(x) = c + 2
    <3>1. Len(x) = Count(stack, Len(stack))
      BY <2>1 DEF Belong
    <3> QED BY <1>1, <1>2, <1>3, <3>1, RuleCounts
  <2>5. ValuesUnder(v, AST_list) = x
    BY <1>3, <2>1, ValuesAre
  <2>6. Last(x) = x[c + 2]
    BY <2>4 DEF Last
  <2> QED BY <2>3, <2>5, <2>6
<1> QED BY <1>2, <1>4 DEF ZeroReal

LEMMA NextReal ==
    ASSUME Inv, ZeroInv, Halts, ValueInv, ZeroReal, [Next]_vars
    PROVE  ValueInv' /\ ZeroReal'
<1>1. ValueInv'
  <2> SUFFICES ASSUME NEW v \in Fractions PROVE HoldsValues(ValuesOf(v))'
    BY DEF ValueInv
  <2>1. ValuesOf(v) \in Modes /\ ValuesOf(v).kind # "types" /\ HoldsValues(ValuesOf(v))
    BY DEF Modes, ValuesOf, ValueInv
  <2> QED BY <2>1, NextValued
<1>2. ZeroReal'
  <2>1. CASE Collect \/ GiveBack \/ GiveBackCall \/ EndOfFile \/ ReturnEmpty \/ BeginExpression \/ Accept
    BY <2>1 DEF Collect, GiveBack, GiveBackCall, EndOfFile, ReturnEmpty, BeginExpression, Accept, Cell, Parsing,
                Halts, ZeroReal
  <2>2. CASE GoesOn
    <3>1. exit_code' = 0
      BY <2>2, GoesOnFacts DEF Halts
    <3> QED BY <3>1 DEF ZeroReal
  <2>3. CASE ZeroDivision
    BY <2>3, ZeroDivisionReal
  <2>4. CASE TypeError \/ NoRule \/ Reject \/ OffTable
    <3>1. exit_code' \in {0, 2, 6}
      BY <2>4, EndsFacts DEF Ends, TypeError, NoRule, Reject, OffTable, error, Halts
    <3> QED BY <3>1 DEF ZeroReal
  <2>5. CASE UNCHANGED vars
    BY <2>5 DEF vars, ZeroReal
  <2> QED BY <2>1, <2>2, <2>3, <2>4, <2>5, Steps DEF Ends
<1> QED BY <1>1, <1>2

LEMMA RealIsZero == ASSUME ZeroReal PROVE ZeroDivisionIsReal
<1>1. Valuations \subseteq Fractions
  BY DEF Valuations, Fractions
<1> QED BY <1>1 DEF ZeroReal, ZeroDivisionIsReal, ValuesUnder

(* Whatever the tape, whenever error(9) ends the call, the divisor that      *)
(* reduce has on its stack is an expression whose value is zero, or none,    *)
(* whatever the variables hold: the attribute "0" that NontBinary carries    *)
(* upwards never marks anything else.                                        *)
THEOREM ZeroDivisionsAreReal == Spec => []ZeroDivisionIsReal
<1>1. Init => Halts /\ ValueInv /\ ZeroReal
  BY DEF Init, Halts, ValueInv, HoldsValues, ZeroReal
<1>2. Inv /\ ZeroInv /\ Conserved /\ Charted /\ Halts /\ RejectsOnlyNonSentences /\ [Next]_vars => Halts'
  BY NextRejects
<1>3. Inv /\ ZeroInv /\ Halts /\ ValueInv /\ ZeroReal /\ [Next]_vars => ValueInv' /\ ZeroReal'
  BY NextReal
<1>4. ZeroReal => ZeroDivisionIsReal
  BY RealIsZero
<1> QED BY <1>1, <1>2, <1>3, <1>4, SpecCharted, RejectsWhatReferenceRejects, PTL DEF Spec
-----------------------------------------------------------------------------
(* The automaton apart from the types: it stands at e of the tape q with the *)
(* stack s and the list w.                                                   *)

Closing(q) ==
    /\ q \in Seq(TokenSet) /\ Len(q) > 1 /\ q[Len(q)].spec = "$"
    /\ \A k \in 1..(Len(q) - 1) : q[k] \in Retagged

Standing(q, s, w, e) ==
    /\ s \in Seq(TokenSet) /\ StackShape(s) /\ \A j \in DOMAIN s : StackSymbol(s[j])
    /\ w \in Seq(TokenSet) /\ e \in DOMAIN q
    /\ s[Len(s)].spec = "E" => q[e].spec \notin {"#", "i", "("}
    /\ Len(s) = 1 => e = 1
    /\ Shifted(s) /\ \E at, out : Chart(s, q[e].spec, q, w, e, at, out)

CellOf(q, s, e) == pp_table(stack_top_term(s).spec, q[e].spec)

LEMMA NextElement ==
    ASSUME NEW q, Closing(q), NEW e \in DOMAIN q, q[e].spec # "$"
    PROVE  e \in Nat /\ e + 1 \in DOMAIN q /\ q[e] \in Retagged /\ q[e] \in TokenSet
<1>1. q \in Seq(TokenSet) /\ e \in 1..Len(q) /\ e # Len(q)
  BY DEF Closing
<1> QED BY <1>1 DEF Closing

LEMMA TheEnd ==
    ASSUME NEW q, Closing(q), NEW e \in DOMAIN q, q[e].spec = "$"
    PROVE  e = Len(q)
<1>1. q \in Seq(TokenSet) /\ e \in 1..Len(q) /\ \A k \in 1..(Len(q) - 1) : q[k].spec # "$"
  BY RetaggedFacts DEF Closing
<1>2. e \in 1..(Len(q) - 1) => FALSE
  BY <1>1
<1> QED BY <1>1, <1>2

LEMMA StandsShifted ==
    ASSUME NEW q, Closing(q), NEW s, NEW w, NEW e, Standing(q, s, w, e), CellOf(q, s, e) = "="
    PROVE  Standing(q, Append(s, q[e]), w, e + 1) /\ Len(Append(s, q[e])) = Len(s) + 1
<1> DEFINE t == q[e]
           u == Append(s, t)
<1>1. stack_top_term(s).spec = "(" /\ t.spec = ")"
  BY TableCells DEF CellOf
<1>2. /\ s \in Seq(TokenSet) /\ StackShape(s) /\ \A j \in DOMAIN s : StackSymbol(s[j])
      /\ w \in Seq(TokenSet) /\ e \in DOMAIN q /\ Shifted(s) /\ q \in Seq(TokenSet)
  BY DEF Standing, Closing
<1>3. e + 1 \in DOMAIN q /\ t \in Retagged /\ t \in TokenSet
  BY <1>1, <1>2, NextElement
<1>4. PICK at, out : Chart(s, t.spec, q, w, e, at, out)
  BY DEF Standing
<1>5. \E at2, out2 : Chart(u, q[e + 1].spec, q, w, e + 1, at2, out2)
  <2>1. s # <<>> /\ s[1].spec = "$" /\ t.spec \notin {"$", "MARK", "E"}
    BY <1>1, <1>2 DEF StackShape
  <2> QED BY <1>2, <1>4, <2>1, ChartShift
<1> HIDE DEF t
<1>6. /\ u \in Seq(TokenSet) /\ Len(u) = Len(s) + 1 /\ u[Len(u)] = t /\ StackShape(u)
      /\ \A k \in DOMAIN u : u[k] = t \/ \E j \in DOMAIN s : u[k] = s[j]
  BY <1>1, <1>2, <1>3, ShiftShape
<1>7. Shifted(u)
  BY <1>2, <1>3, ShiftShifted
<1>8. StackSymbol(t)
  BY <1>1, <1>3 DEF StackSymbol, StackSymbols, TableSymbols
<1> HIDE DEF u
<1>9. Len(u) # 1
  <2>1. Len(s) \in Nat \ {0}
    BY <1>2, TopTerm
  <2> QED BY <1>6, <2>1
<1>10. \A k \in DOMAIN u : StackSymbol(u[k])
  BY <1>2, <1>6, <1>8
<1>11. Standing(q, u, w, e + 1)
  BY <1>1, <1>2, <1>3, <1>5, <1>6, <1>7, <1>9, <1>10 DEF Standing
<1> QED BY <1>6, <1>11 DEF u, t

LEMMA StandsMarked ==
    ASSUME NEW q, Closing(q), NEW s, NEW w, NEW e, Standing(q, s, w, e), CellOf(q, s, e) = "<"
    PROVE  Standing(q, Append(stack_mark(s), q[e]), w, e + 1) /\ Len(Append(stack_mark(s), q[e])) = Len(s) + 2
<1> DEFINE t == q[e]
           u == Append(stack_mark(s), t)
<1>1. /\ stack_top_term(s).spec \in BinaryOps \cup {"#", "(", "$"}
      /\ t.spec \in BinaryOps \cup {"#", "i", "("} /\ t.spec \in Shifts(stack_top_term(s).spec)
  <2>1. t.spec \in Shifts(stack_top_term(s).spec)
    BY DEF CellOf, pp_table
  <2> QED BY <2>1, TableCells DEF CellOf
<1>0. t.spec \notin {"$", "E", "MARK"}
  BY <1>1, Alphabet
<1>2. /\ s \in Seq(TokenSet) /\ StackShape(s) /\ \A j \in DOMAIN s : StackSymbol(s[j])
      /\ w \in Seq(TokenSet) /\ e \in DOMAIN q /\ Shifted(s) /\ q \in Seq(TokenSet)
      /\ s[Len(s)].spec = "E" => t.spec \notin {"#", "i", "("}
  BY DEF Standing, Closing
<1>3. e + 1 \in DOMAIN q /\ t \in Retagged /\ t \in TokenSet
  BY <1>0, <1>2, NextElement
<1>4. PICK at, out : Chart(s, t.spec, q, w, e, at, out)
  BY DEF Standing
<1>5. \E at2, out2 : Chart(u, q[e + 1].spec, q, w, e + 1, at2, out2)
  BY <1>0, <1>2, <1>4, ChartMark
<1> HIDE DEF t
<1>6. /\ u \in Seq(TokenSet) /\ Len(u) = Len(s) + 2 /\ u[Len(u)] = t /\ StackShape(u)
      /\ \A k \in DOMAIN u : u[k] \in {MarkToken, t} \/ \E j \in DOMAIN s : u[k] = s[j]
  BY <1>1, <1>2, <1>3, MarkAndShiftShape
<1>7. Shifted(u)
  BY <1>0, <1>1, <1>2, <1>3, MarkShifted
<1>8. StackSymbol(t) /\ StackSymbol(MarkToken)
  BY <1>0, <1>1, <1>3 DEF StackSymbol, StackSymbols, TableSymbols, MarkToken
<1> HIDE DEF u
<1>9. Len(u) # 1
  <2>1. Len(s) \in Nat \ {0}
    BY <1>2, TopTerm
  <2> QED BY <1>6, <2>1
<1>10. \A k \in DOMAIN u : StackSymbol(u[k])
  BY <1>2, <1>6, <1>8
<1>11. Standing(q, u, w, e + 1)
  BY <1>0, <1>2, <1>3, <1>5, <1>6, <1>7, <1>9, <1>10 DEF Standing
<1> QED BY <1>6, <1>11 DEF u, t

(* The tokens u that the rule of r lists. *)
Lists(r, u) ==
    \/ IsOperand(r) /\ u = <<r[2]>>
    \/ IsParens(r) /\ u = <<>>
    \/ IsLength(r) /\ u = <<r[1]>>
    \/ IsBinary(r) /\ u = <<r[1]>>

LEMMA RuleCovers ==
    ASSUME NEW q \in Seq(TokenSet), NEW s, NEW w, NEW e, Standing(q, s, w, e), CellOf(q, s, e) = ">",
           NEW u, Lists(Rhs(s), u), NEW m, m = MarkAt(s), NEW c, c = q[e].spec,
           NEW at, NEW out, Chart(s, c, q, w, e, at, out)
    PROVE  Covers(s[m - 1].spec, c, Part(q, at[m], e), Part(w \o u, out[m], Len(w \o u) + 1))
<1> DEFINE r == Rhs(s)
<1>1. /\ s \in Seq(TokenSet) /\ StackShape(s) /\ \A j \in DOMAIN s : StackSymbol(s[j])
      /\ w \in Seq(TokenSet) /\ e \in DOMAIN q /\ Shifted(s)
  BY DEF Standing
<1>2. Reducible(s) /\ c \in Reduces(stack_top_term(s).spec)
  <2>1. stack_top_term(s).spec \in BinaryOps \cup {"#", "i", ")"}
    BY TableCells DEF CellOf
  <2>2. c \in Reduces(stack_top_term(s).spec)
    BY DEF CellOf, pp_table
  <2> QED BY <1>1, <2>1, <2>2 DEF Reducible
<1>3. /\ Len(s) \in Nat /\ m \in 2..(Len(s) - 1) /\ s[m].spec = "MARK"
      /\ IsOperand(r) => Len(s) = m + 1 /\ r[2] = s[m + 1]
      /\ IsLength(r) => Len(s) = m + 2 /\ r[1] = s[m + 1] /\ r[2] = s[m + 2]
      /\ IsParens(r) \/ IsBinary(r) =>
            Len(s) = m + 3 /\ r[0] = s[m + 1] /\ r[1] = s[m + 2] /\ r[2] = s[m + 3]
  BY <1>2, RulePlaces
<1>4. Opened(s, m) \in Shifts(s[m - 1].spec) /\ m \in Nat \ {0, 1}
  BY <1>1, <1>3 DEF Shifted
<1>5. s[Len(s)].spec = "E" => stack_top_term(s) = s[Len(s) - 1]
  BY <1>1, TopTerm DEF stack_top_term
<1> HIDE DEF r
<1>6. CASE IsOperand(r) /\ u = <<r[2]>>
  <2>1. Len(s) = m + 1 /\ s[m + 1].spec = "i" /\ u = <<s[m + 1]>>
    BY <1>3, <1>6 DEF IsOperand
  <2> QED BY <1>1, <1>3, <1>4, <2>1, OperandCovers
<1>7. CASE IsParens(r) /\ u = <<>>
  <2>1. Len(s) = m + 3 /\ s[m + 1].spec = "(" /\ s[m + 2].spec = "E" /\ s[m + 3].spec = ")"
    BY <1>3, <1>7 DEF IsParens
  <2>2. w \o u = w
    BY <1>1, <1>7
  <2>3. Covers(s[m - 1].spec, c, Part(q, at[m], e), Part(w, out[m], Len(w) + 1))
    BY <1>1, <1>3, <1>4, <2>1, ParensCovers
  <2> QED BY <2>2, <2>3
<1>8. CASE IsLength(r) /\ u = <<r[1]>>
  <2>1. Len(s) = m + 2 /\ s[m + 1].spec = "#" /\ s[m + 2].spec = "E" /\ u = <<s[m + 1]>>
    BY <1>3, <1>8 DEF IsLength
  <2>2. Len(s) - 1 = m + 1 /\ stack_top_term(s) = s[m + 1]
    BY <1>3, <1>5, <2>1
  <2>3. c \in Reduces("#") /\ "#" \in Shifts(s[m - 1].spec)
    BY <1>2, <1>4, <2>1, <2>2 DEF Opened
  <2> QED BY <1>1, <1>3, <1>4, <2>1, <2>3, LengthCovers
<1>9. CASE IsBinary(r) /\ u = <<r[1]>>
  <2>1. Len(s) = m + 3 /\ s[m + 1].spec = "E" /\ s[m + 2].spec \in BinaryOps /\ s[m + 3].spec = "E" /\ u = <<s[m + 2]>>
    BY <1>3, <1>9 DEF IsBinary
  <2>2. Len(s) - 1 = m + 2 /\ stack_top_term(s) = s[m + 2]
    BY <1>3, <1>5, <2>1
  <2>3. c \in Reduces(s[m + 2].spec) /\ s[m + 2].spec \in Shifts(s[m - 1].spec)
    BY <1>2, <1>4, <2>1, <2>2 DEF Opened
  <2> QED BY <1>1, <1>3, <1>4, <2>1, <2>3, BinaryCovers
<1> QED BY <1>6, <1>7, <1>8, <1>9 DEF Lists, r

LEMMA StandsReduced ==
    ASSUME NEW q, Closing(q), NEW s, NEW w, NEW e, Standing(q, s, w, e), CellOf(q, s, e) = ">",
           NEW u \in Seq(TokenSet), Lists(Rhs(s), u), NEW t \in TokenSet, t.spec = "E", t.type \in ExprTypes
    PROVE  /\ Standing(q, Replaced(s, t), w \o u, e) /\ Reducible(s)
           /\ Len(Replaced(s, t)) \in Nat /\ Len(Replaced(s, t)) < Len(s)
<1> DEFINE v == Replaced(s, t)
           x == w \o u
<1>1. /\ s \in Seq(TokenSet) /\ StackShape(s) /\ \A j \in DOMAIN s : StackSymbol(s[j])
      /\ w \in Seq(TokenSet) /\ e \in DOMAIN q /\ Shifted(s) /\ q \in Seq(TokenSet)
  BY DEF Standing, Closing
<1>2. stack_top_term(s).spec \in BinaryOps \cup {"#", "i", ")"} /\ q[e].spec \in BinaryOps \cup {")", "$"}
  BY TableCells DEF CellOf
<1>3. PICK at, out : Chart(s, q[e].spec, q, w, e, at, out)
  BY DEF Standing
<1>4. Covers(s[MarkAt(s) - 1].spec, q[e].spec, Part(q, at[MarkAt(s)], e), Part(w \o u, out[MarkAt(s)], Len(w \o u) + 1))
  BY <1>1, <1>3, RuleCovers
<1>5. \E at2, out2 : Chart(v, q[e].spec, q, x, e, at2, out2)
  <2>1. e \in Nat
    BY <1>1
  <2> QED BY <1>1, <1>2, <1>3, <1>4, <2>1, ChartReplaced
<1>6. /\ v \in Seq(TokenSet) /\ Len(v) > 1 /\ v[Len(v)] = t /\ StackShape(v)
      /\ \A k \in DOMAIN v : v[k] = t \/ \E j \in DOMAIN s : v[k] = s[j]
  BY <1>1, <1>2, ReducedShape
<1>7. Shifted(v)
  BY <1>1, <1>2, ReplacedShifted
<1>8. MarkAt(s) \in 2..(Len(s) - 1) /\ Len(s) \in Nat /\ Len(v) = MarkAt(s)
  BY <1>1, <1>2, UnderMark, ReplacedIs
<1>9. x \in Seq(TokenSet)
  BY <1>1
<1> HIDE DEF v, x
<1>10. StackSymbol(t)
  BY DEF StackSymbol, StackSymbols
<1>11. (\A k \in DOMAIN v : StackSymbol(v[k])) /\ Len(v) # 1 /\ q[e].spec \notin {"#", "i", "("}
  <2>1. \A k \in DOMAIN v : StackSymbol(v[k])
    BY <1>1, <1>6, <1>10
  <2>2. q[e].spec \notin {"#", "i", "("}
    BY <1>2, Alphabet
  <2>3. Len(v) # 1
    BY <1>6
  <2> QED BY <2>1, <2>2, <2>3
<1>12. Standing(q, v, x, e)
  BY <1>1, <1>5, <1>6, <1>7, <1>9, <1>11 DEF Standing
<1>13. Len(v) \in Nat /\ Len(v) < Len(s)
  BY <1>8
<1> QED BY <1>1, <1>2, <1>12, <1>13 DEF v, x, Reducible
-----------------------------------------------------------------------------
(* On the tape of a sentence it is never stuck.                             *)

LEMMA NotBlank ==
    ASSUME NEW q, Closing(q), Readable(q), NEW s, NEW w, NEW e, Standing(q, s, w, e)
    PROVE  ~Blank(stack_top_term(s).spec, q[e].spec)
<1> SUFFICES ASSUME Blank(stack_top_term(s).spec, q[e].spec) PROVE FALSE
  OBVIOUS
<1> DEFINE r == stack_top_term(s).spec
           c == q[e].spec
<1>1. /\ s \in Seq(TokenSet) /\ StackShape(s) /\ \A j \in DOMAIN s : StackSymbol(s[j])
      /\ w \in Seq(TokenSet) /\ e \in DOMAIN q /\ q \in Seq(TokenSet)
  BY DEF Standing, Closing
<1>2. e \in 1..Len(q) /\ Ahead(q, e, c) /\ Blank(r, c)
  <2>1. c = "$" => e = Len(q)
    BY <1>1, TheEnd
  <2>2. e \in 1..Len(q)
    BY <1>1
  <2>3. Blank(r, c)
    OBVIOUS
  <2> HIDE DEF r, c
  <2>4. q[e].spec = c
    BY DEF c
  <2> QED BY <2>1, <2>2, <2>3, <2>4 DEF Ahead
<1>3. PICK at, out : Chart(s, c, q, w, e, at, out)
  BY DEF Standing
<1>4. Len(s) \in Nat \ {0} /\ r \in TableSymbols /\ r = s[TopTermAt(s)].spec
  <2>1. TopTermAt(s) \in DOMAIN s /\ r \notin {"E", "MARK"} /\ Len(s) \in Nat \ {0}
    BY <1>1, TopTerm
  <2>2. r \in StackSymbols
    BY <1>1, <2>1 DEF StackSymbol, stack_top_term
  <2> QED BY <2>1, <2>2 DEF StackSymbols, stack_top_term
<1>5. CASE s[Len(s)].spec # "E"
  <2>1. r = s[Len(s)].spec
    BY <1>1, <1>4, <1>5, TopTerm
  <2>2. IF s[Len(s)].spec = "$" THEN e = 1 ELSE e \in Nat /\ e > 1 /\ q[e - 1] = s[Len(s)]
    BY <1>1, <1>3, <1>5, TopToken
  <2>3. Behind(q, e, r)
    BY <2>1, <2>2 DEF Behind
  <2> QED BY <1>1, <1>2, <1>4, <2>3, NoBlankUnderToken
<1>6. CASE s[Len(s)].spec = "E"
  <2>1. r = s[Len(s) - 1].spec
    BY <1>1, <1>4, <1>6, TopTerm
  <2>2. PICK a, x : Piece(q, a, e, r, c, x)
    BY <1>1, <1>3, <1>6, <2>1, TopPiece
  <2>3. c \notin {"#", "i", "("}
    BY <1>6 DEF Standing
  <2>4. r \notin {"i", ")"}
    <3>1. Len(s) > 1
      BY <1>1, <1>6, TopTerm
    <3>2. Len(s) - 1 \in 1..(Len(s) - 1) /\ (Len(s) - 1) + 1 = Len(s)
      <4>1. Len(s) \in Nat
        BY <1>4
      <4> QED BY <3>1, <4>1
    <3>3. Adjacent(r, "E")
      BY <1>1, <1>6, <2>1, <3>2 DEF StackShape
    <3> QED BY <3>3, Alphabet DEF Adjacent
  <2> HIDE DEF r, c
  <2> QED BY <1>1, <1>2, <1>4, <2>2, <2>3, <2>4, NoBlankUnderPiece
<1> QED BY <1>5, <1>6

LEMMA SomeRule ==
    ASSUME NEW q, Closing(q), Readable(q), NEW s, NEW w, NEW e, Standing(q, s, w, e), CellOf(q, s, e) = ">"
    PROVE  Fits3(Rhs(s))
<1> SUFFICES ASSUME ~Fits3(Rhs(s)) PROVE FALSE
  OBVIOUS
<1> DEFINE c == q[e].spec
<1>1. s \in Seq(TokenSet) /\ StackShape(s) /\ w \in Seq(TokenSet) /\ e \in DOMAIN q /\ q \in Seq(TokenSet)
  BY DEF Standing, Closing
<1>2. e \in 1..Len(q) /\ Ahead(q, e, c)
  <2>1. c = "$" => e = Len(q)
    BY <1>1, TheEnd
  <2> QED BY <1>1, <2>1 DEF Ahead
<1>3. PICK at, out : Chart(s, c, q, w, e, at, out)
  BY DEF Standing
<1>4. stack_top_term(s).spec \in BinaryOps \cup {"#", "i", ")"} /\ c \in BinaryOps \cup {")", "$"}
  BY TableCells DEF CellOf
<1>6. PICK n \in Nat, m \in Nat : n = Len(s) /\ m = MarkAt(s)
  <2>1. MarkAt(s) \in 2..(Len(s) - 1)
    BY <1>1, <1>4, UnderMark
  <2> QED BY <1>1, <2>1, TopTerm
<1>7. m \in 1..n
  <2>1. m \in 2..(n - 1)
    BY <1>1, <1>4, <1>6, UnderMark
  <2> QED BY <2>1
<1>8. Unfit(s, n, m)
  BY <1>1, <1>4, <1>6, <1>7, UnfitHandles
<1>9. ~Unfit(s, n, m)
  BY <1>1, <1>2, <1>3, <1>4, <1>6, UnfitImpossible
<1> QED BY <1>8, <1>9

(* Where the table accepts, the list is the postfix form of the tape. *)
LEMMA StandsAccepting ==
    ASSUME NEW q, Closing(q), NEW s, NEW w, NEW e, Standing(q, s, w, e), CellOf(q, s, e) = "#"
    PROVE  /\ Yields("expression", Part(q, 1, Len(q)), w) /\ Part(q, 1, Len(q)) # <<>>
           /\ Len(s) = 2 /\ s[1].spec = "$" /\ s[2].spec = "E"
<1>1. /\ stack_top_term(s).spec = "$" /\ q[e].spec = "$"
      /\ s \in Seq(TokenSet) /\ StackShape(s) /\ w \in Seq(TokenSet) /\ e \in DOMAIN q /\ q \in Seq(TokenSet)
      /\ s[1].spec = "$"
  BY TableCells DEF CellOf, Standing, Closing, StackShape
<1>0. e = Len(q) /\ Len(q) \in Nat /\ Len(q) > 1
  BY <1>1, TheEnd DEF Closing
<1>2. Len(s) = 2 /\ s[2].spec = "E"
  <2>1. TopTermAt(s) = 1
    BY <1>1, TopTerm, OneDollar DEF stack_top_term
  <2>2. Len(s) # 1
    BY <1>0 DEF Standing
  <2>3. Len(s) \in Nat /\ 1 = IF s[Len(s)].spec = "E" THEN Len(s) - 1 ELSE Len(s)
    BY <1>1, <2>1, TopTerm
  <2>4. s[Len(s)].spec = "E"
    BY <2>2, <2>3
  <2>5. Len(s) = 2
    BY <2>3, <2>4
  <2> QED BY <2>4, <2>5
<1>3. PICK at, out : Chart(s, "$", q, w, e, at, out)
  BY <1>1 DEF Standing
<1>4. at[1] = 1 /\ out[1] = 1 /\ at[3] = e /\ out[3] = Len(w) + 1
  <2>1. Len(s) + 1 = 3
    BY <1>2
  <2> QED BY <1>3, <2>1, ChartEnds
<1>5. at[2] = 1 /\ out[2] = 1
  <2>1. PICK j \in Nat, k \in Nat : j = 1 /\ k = 2
    OBVIOUS
  <2>2. k = j + 1 /\ j \in 1..Len(s) /\ s[j].spec = "$"
    BY <1>1, <1>2, <2>1
  <2>3. Between(s, "$", q, w, e, at, out, j, k)
    BY <1>1, <1>3, <2>2, ChartAt
  <2> QED BY <1>4, <2>1, <2>2, <2>3 DEF Between
<1>6. Covers(Row(s, 2), Above(s, 2, "$"), Part(q, 1, e), Part(w, 1, Len(w) + 1))
  <2>1. PICK j \in Nat, k \in Nat : j = 2 /\ k = 3
    OBVIOUS
  <2>2. k = j + 1 /\ j \in 1..Len(s) /\ s[j].spec = "E"
    BY <1>2, <2>1
  <2>3. Between(s, "$", q, w, e, at, out, j, k)
    BY <1>1, <1>3, <2>2, ChartAt
  <2> QED BY <1>4, <1>5, <2>1, <2>2, <2>3 DEF Between
<1>7. Row(s, 2) = "$"
  BY <1>1 DEF Row
<1>8. Part(w, 1, Len(w) + 1) = w
  BY <1>1, PartWhole
<1>9. Yields("expression", Part(q, 1, Len(q)), w)
  BY <1>0, <1>6, <1>7, <1>8, PhraseOfRow DEF Covers
<1>10. Part(q, 1, Len(q)) # <<>>
  <2>1. PICK a \in Nat \ {0} : a = 1
    OBVIOUS
  <2>2. a <= Len(q) /\ Len(q) <= Len(q) + 1
    BY <1>0, <2>1
  <2>3. Part(q, a, Len(q)) \in Seq(TokenSet) /\ Len(Part(q, a, Len(q))) = Len(q) - a
    BY <1>0, <1>1, <2>2, PartIs
  <2>4. Len(Part(q, 1, Len(q))) # 0 /\ Part(q, 1, Len(q)) \in Seq(TokenSet)
    BY <1>0, <2>1, <2>3
  <2> QED BY <2>4
<1> QED BY <1>1, <1>2, <1>9, <1>10
-----------------------------------------------------------------------------
(* An error of types is contagious: if the automaton went on after one, what *)
(* it lists would end without a type.                                        *)

Spoiled(x) == \E i \in 1..Len(x) : x[i] = "NONE"

Carries(q, s, w, e, x) ==
    /\ Standing(q, s, w, e) /\ Leaves(TypesOf, w, x) /\ Spoiled(x)
    /\ x \in Seq(Results(TypesOf)) /\ Len(x) = Count(s, Len(s))

LEMMA NoneSpreads ==
    ASSUME NEW op, NEW a, NEW b, a = "NONE" \/ b = "NONE"
    PROVE  DocType(op, a, b) = "NONE" /\ DocLength("NONE") = "NONE"
<1>1. /\ ~({a, b} \subseteq DocNumeric) /\ {a, b} # {"INTEGER"} /\ {a, b} # {"STRING"}
      /\ ~({a, b} \subseteq DocNumeric \cup {"NIL"}) /\ ~({a, b} \subseteq {"STRING", "NIL"})
  BY DEF DocNumeric
<1> QED BY <1>1 DEF DocType, DocLength

LEMMA SpoiledStays ==
    ASSUME NEW r, NEW x \in Seq(Results(TypesOf)), Spoiled(x), NEW c \in Nat, NEW a, NEW u,
           Makes(TypesOf, r, x, c, a, u), NEW y, y = Append(SubSeq(x, 1, c), a), a \in Results(TypesOf)
    PROVE  Spoiled(y) /\ y \in Seq(Results(TypesOf)) /\ Len(y) = c + 1
<1>0. TypesOf.kind = "types"
  BY DEF TypesOf
<1>1. PICK i \in 1..Len(x) : x[i] = "NONE"
  BY DEF Spoiled
<1>2. c <= Len(x) /\ Len(x) \in Nat
  BY DEF Makes
<1>3. y \in Seq(Results(TypesOf)) /\ Len(y) = c + 1 /\ y[c + 1] = a /\ \A j \in 1..c : y[j] = x[j]
  <2>1. SubSeq(x, 1, c) \in Seq(Results(TypesOf)) /\ Len(SubSeq(x, 1, c)) = c /\ \A j \in 1..c : SubSeq(x, 1, c)[j] = x[j]
    BY <1>2
  <2> QED BY <2>1
<1>4. i \in 1..c \/ a = "NONE"
  <2>1. CASE IsOperand(r) /\ Len(x) = c
    BY <2>1
  <2>2. CASE a = LengthOf(TypesOf, x[c + 1]) /\ Len(x) = c + 1
    <3>1. i \in 1..c \/ i = c + 1
      BY <2>2
    <3>2. i = c + 1 => a = DocLength("NONE")
      BY <1>0, <1>1, <2>2 DEF LengthOf
    <3> QED BY <3>1, <3>2, NoneSpreads
  <2>3. CASE a = x[c + 1] /\ Len(x) = c + 1
    <3>1. i \in 1..c \/ i = c + 1
      BY <2>3
    <3> QED BY <1>1, <2>3, <3>1
  <2>4. CASE a = BinaryOf(TypesOf, r[1].spec, x[c + 1], x[c + 2]) /\ Len(x) = c + 2
    <3>1. i \in 1..c \/ i = c + 1 \/ i = c + 2
      BY <2>4
    <3>2. a = DocType(r[1].spec, x[c + 1], x[c + 2])
      BY <1>0, <2>4 DEF BinaryOf
    <3>3. i = c + 1 \/ i = c + 2 => x[c + 1] = "NONE" \/ x[c + 2] = "NONE"
      BY <1>1
    <3> QED BY <3>1, <3>2, <3>3, NoneSpreads
  <2> QED BY <2>1, <2>2, <2>3, <2>4 DEF Makes
<1>5. \E j \in 1..Len(y) : y[j] = "NONE"
  <2>1. CASE i \in 1..c
    <3>1. i \in 1..Len(y) /\ y[i] = "NONE"
      BY <1>1, <1>3, <2>1
    <3> QED BY <3>1
  <2>2. CASE a = "NONE"
    <3>1. c + 1 \in 1..Len(y) /\ y[c + 1] = "NONE"
      BY <1>3, <2>2
    <3> QED BY <3>1
  <2> QED BY <1>4, <2>1, <2>2
<1> QED BY <1>3, <1>5 DEF Spoiled

Measure(q, s, e) == 3 * (Len(q) - e) + Len(s)

LEMMA MeasureIs ==
    ASSUME NEW q, Closing(q), NEW s, NEW w, NEW e, Standing(q, s, w, e)
    PROVE  Measure(q, s, e) \in Nat /\ Len(q) \in Nat /\ e \in 1..Len(q) /\ Len(s) \in Nat
<1>1. Len(q) \in Nat /\ e \in 1..Len(q)
  BY DEF Closing, Standing
<1>2. Len(s) \in Nat
  BY DEF Standing
<1> QED BY <1>1, <1>2 DEF Measure

LEMMA FourCells ==
    ASSUME NEW r, NEW c, ~Blank(r, c)
    PROVE  pp_table(r, c) = "<" \/ pp_table(r, c) = ">" \/ pp_table(r, c) = "=" \/ pp_table(r, c) = "#"
BY Zenon DEF Blank, pp_table

(* It goes on until the table accepts. *)
LEMMA CarriesOn ==
    ASSUME NEW q, Closing(q), Readable(q), NEW s, NEW w, NEW e, NEW x, Carries(q, s, w, e, x),
           CellOf(q, s, e) # "#"
    PROVE  \E s2, w2, e2, x2 : Carries(q, s2, w2, e2, x2) /\ Measure(q, s2, e2) < Measure(q, s, e)
<1>1. /\ Standing(q, s, w, e) /\ Leaves(TypesOf, w, x) /\ Spoiled(x)
      /\ x \in Seq(Results(TypesOf)) /\ Len(x) = Count(s, Len(s))
  BY DEF Carries
<1>2. /\ s \in Seq(TokenSet) /\ StackShape(s) /\ e \in DOMAIN q /\ w \in Seq(TokenSet)
  BY <1>1 DEF Standing
<1>3. Len(q) \in Nat /\ e \in 1..Len(q) /\ Len(s) \in Nat
  BY <1>1, MeasureIs
<1>4. CellOf(q, s, e) = "<" \/ CellOf(q, s, e) = ">" \/ CellOf(q, s, e) = "="
  <2>1. ~Blank(stack_top_term(s).spec, q[e].spec)
    BY <1>1, NotBlank
  <2> QED BY <2>1, FourCells DEF CellOf
<1>5. CASE CellOf(q, s, e) = "="
  <2> DEFINE u == Append(s, q[e])
  <2>1. Standing(q, u, w, e + 1) /\ Len(u) = Len(s) + 1
    BY <1>1, <1>5, StandsShifted
  <2>2. Count(u, Len(u)) = Count(s, Len(s))
    <3>1. q[e].spec = ")"
      BY <1>5, TableCells DEF CellOf
    <3>2. q[e] \in TokenSet
      BY <1>2, <3>1, NextElement
    <3>3. Count(u, Len(s) + 1) = Count(s, Len(s))
      BY <1>2, <3>1, <3>2, ShiftCount
    <3> QED BY <2>1, <3>3
  <2> HIDE DEF u
  <2>3. Carries(q, u, w, e + 1, x)
    BY <1>1, <2>1, <2>2 DEF Carries
  <2>4. Measure(q, u, e + 1) < Measure(q, s, e)
    BY <1>3, <2>1 DEF Measure
  <2> QED BY <2>3, <2>4
<1>6. CASE CellOf(q, s, e) = "<"
  <2> DEFINE u == Append(stack_mark(s), q[e])
  <2>1. Standing(q, u, w, e + 1) /\ Len(u) = Len(s) + 2
    BY <1>1, <1>6, StandsMarked
  <2>2. Count(u, Len(u)) = Count(s, Len(s))
    <3>1. q[e].spec \in BinaryOps \cup {"#", "i", "("}
      BY <1>6, TableCells DEF CellOf
    <3>4. q[e].spec # "$" /\ q[e].spec # "E"
      BY <3>1, Alphabet
    <3>2. q[e] \in TokenSet
      BY <1>2, <3>4, NextElement
    <3>3. Count(u, Len(s) + 2) = Count(s, Len(s))
      BY <1>2, <3>4, <3>2, ShiftCount
    <3> QED BY <2>1, <3>3
  <2> HIDE DEF u
  <2>3. Carries(q, u, w, e + 1, x)
    BY <1>1, <2>1, <2>2 DEF Carries
  <2>4. Measure(q, u, e + 1) < Measure(q, s, e)
    BY <1>3, <2>1 DEF Measure
  <2> QED BY <2>3, <2>4
<1>7. CASE CellOf(q, s, e) = ">"
  <2> DEFINE t == [type |-> "UNDEF", spec |-> "E", attr |-> "E"]
             m == TypesOf
  <2>1. PICK r, c : r = Rhs(s) /\ c = Count(s, MarkAt(s))
    OBVIOUS
  <2>2. Fits3(r)
    BY <1>1, <1>7, <2>1, SomeRule
  <2>3. Reducible(s)
    <3>1. stack_top_term(s).spec \in BinaryOps \cup {"#", "i", ")"}
      BY <1>7, TableCells DEF CellOf
    <3> QED BY <1>1, <3>1 DEF Reducible, Standing
  <2>4. c \in Nat /\ \E a, u : Makes(m, r, x, c, a, u)
    BY <1>1, <2>1, <2>2, <2>3, RuleMakes DEF Fits3
  <2>5. PICK a, u : Makes(m, r, x, c, a, u)
    BY <2>4
  <2>6. r[1] \in TokenSet /\ (r[2].spec = "i" => r[2] \in Retagged)
    <3>1. ASSUME NEW k \in 0..2
          PROVE  r[k] \in TokenSet /\ (r[k].spec # "EMPTY" => StackSymbol(r[k]))
      <4>1. r[k] = EmptyToken \/ \E j \in DOMAIN s : r[k] = s[j]
        BY <2>1, <2>3, RhsFacts DEF Reducible
      <4>2. EmptyToken \in TokenSet /\ EmptyToken.spec = "EMPTY"
        BY SpecialTokens DEF EmptyToken
      <4> QED BY <1>2, <2>3, <4>1, <4>2 DEF Reducible
    <3>2. 1 \in 0..2 /\ 2 \in 0..2
      OBVIOUS
    <3> QED BY <3>1, <3>2 DEF StackSymbol
  <2>7. Becomes(m, w, x, c, a, u)
    <3>1. m \in Modes
      BY DEF Modes
    <3> HIDE DEF m
    <3>2. x \in Seq(Results(m)) /\ Leaves(m, w, x)
      BY <1>1 DEF m
    <3> QED BY <1>2, <2>4, <2>5, <2>6, <3>1, <3>2, Fed
  <2>8. PICK y : a \in Results(m) /\ u \in Seq(TokenSet) /\ y = Append(SubSeq(x, 1, c), a) /\ Leaves(m, w \o u, y)
    BY <2>7 DEF Becomes
  <2>9. Spoiled(y) /\ y \in Seq(Results(m)) /\ Len(y) = c + 1
    BY <1>1, <2>4, <2>5, <2>8, SpoiledStays
  <2>10. t \in TokenSet /\ t.spec = "E" /\ t.type \in ExprTypes
    <3>1. "E" \in Attributes
      BY AttributesAssumption
    <3>2. "UNDEF" \in ExprTypes
      BY DEF ExprTypes, VarTypes
    <3> QED BY <3>1, <3>2, ExprTypesAreTypes DEF TokenSet
  <2>11. Lists(Rhs(s), u)
    BY <2>1, <2>5 DEF Lists, Makes
  <2> HIDE DEF t, m
  <2>12. /\ Standing(q, Replaced(s, t), w \o u, e)
         /\ Len(Replaced(s, t)) \in Nat /\ Len(Replaced(s, t)) < Len(s)
    BY <1>1, <1>7, <2>8, <2>10, <2>11, StandsReduced
  <2>13. Count(Replaced(s, t), Len(Replaced(s, t))) = c + 1
    <3>1. /\ Len(Replaced(s, t)) = MarkAt(s)
          /\ Count(Replaced(s, t), MarkAt(s)) = Count(s, MarkAt(s)) + 1
      BY <2>3, <2>10, ReducedCount DEF Reducible
    <3> QED BY <2>1, <3>1
  <2>14. PICK v, z : v = Replaced(s, t) /\ z = w \o u
    OBVIOUS
  <2>15. Carries(q, v, z, e, y)
    BY <2>8, <2>9, <2>12, <2>13, <2>14 DEF Carries, m
  <2>16. Measure(q, v, e) < Measure(q, s, e)
    <3>1. Len(v) \in Nat /\ Len(v) < Len(s)
      BY <2>12, <2>14
    <3> QED BY <1>3, <3>1 DEF Measure
  <2> QED BY <2>15, <2>16
<1> QED BY <1>4, <1>5, <1>6, <1>7

LEMMA CarriesToTheEnd ==
    ASSUME NEW q, Closing(q), Readable(q), NEW s, NEW w, NEW e, NEW x, Carries(q, s, w, e, x)
    PROVE  LET p == Part(q, 1, Len(q)) IN p # <<>> /\ Types(Postfix(p)) = <<"NONE">>
<1> DEFINE S == {n \in Nat : \E s2, w2, e2, x2 : Carries(q, s2, w2, e2, x2) /\ n = Measure(q, s2, e2)}
<1>1. \A s2, w2, e2, x2 : Carries(q, s2, w2, e2, x2) => Measure(q, s2, e2) \in Nat
  BY MeasureIs DEF Carries
<1>2. S \in SUBSET Nat /\ S # {}
  BY <1>1
<1>3. PICK n \in S : \A k \in S : n <= k
  BY <1>2, Least
<1>4. PICK s2, w2, e2, x2 : Carries(q, s2, w2, e2, x2) /\ n = Measure(q, s2, e2)
  BY <1>3
<1>5. CellOf(q, s2, e2) = "#"
  <2> SUFFICES ASSUME CellOf(q, s2, e2) # "#" PROVE FALSE
    OBVIOUS
  <2>1. PICK s3, w3, e3, x3 : Carries(q, s3, w3, e3, x3) /\ Measure(q, s3, e3) < Measure(q, s2, e2)
    BY <1>4, CarriesOn
  <2>2. PICK k \in Nat : k = Measure(q, s3, e3)
    BY <1>1, <2>1
  <2>3. k \in S /\ k < n /\ n \in Nat
    BY <1>2, <1>4, <2>1, <2>2
  <2> QED BY <1>3, <2>3
<1> HIDE DEF S
<1>6. /\ Standing(q, s2, w2, e2) /\ Leaves(TypesOf, w2, x2) /\ Spoiled(x2)
      /\ x2 \in Seq(Results(TypesOf)) /\ Len(x2) = Count(s2, Len(s2)) /\ w2 \in Seq(TokenSet)
  BY <1>4 DEF Carries, Standing
<1>7. /\ Yields("expression", Part(q, 1, Len(q)), w2) /\ Part(q, 1, Len(q)) # <<>>
      /\ Len(s2) = 2 /\ s2[1].spec = "$" /\ s2[2].spec = "E"
  BY <1>5, <1>6, StandsAccepting
<1>8. Count(s2, 2) = 1
  <2>1. 2 - 1 = 1 /\ 1 - 1 = 0 /\ 1 \in Nat \ {0} /\ 2 \in Nat \ {0}
    OBVIOUS
  <2>2. Count(s2, 2) = Count(s2, 2 - 1) + 1
    BY <1>7, <2>1, CountStep
  <2>3. Count(s2, 1) = Count(s2, 1 - 1)
    BY <1>7, <2>1, CountStep
  <2> QED BY <2>1, <2>2, <2>3, CountNone
<1>9. x2 = <<"NONE">>
  <2>1. Len(x2) = 1
    BY <1>6, <1>7, <1>8
  <2>2. PICK i \in 1..1 : x2[i] = "NONE"
    BY <1>6, <2>1 DEF Spoiled
  <2>3. x2[1] = "NONE"
    BY <2>2
  <2> QED BY <1>6, <2>1, <2>3
<1>10. Types(w2) = x2
  BY <1>6, TypesAre
<1>11. Postfix(Part(q, 1, Len(q))) = w2
  BY <1>7 DEF Yields, Postfix, Of
<1> QED BY <1>7, <1>9, <1>10, <1>11

(* Everything the counts need where the stack holds one nonterminal. *)
LEMMA CountOfPair ==
    ASSUME NEW s, s[1].spec = "$", s[2].spec = "E"
    PROVE  Count(s, 2) = 1
<1>1. 2 - 1 = 1 /\ 1 - 1 = 0 /\ 1 \in Nat \ {0} /\ 2 \in Nat \ {0}
  OBVIOUS
<1>2. Count(s, 2) = Count(s, 2 - 1) + 1
  BY <1>1, CountStep
<1>3. Count(s, 1) = Count(s, 1 - 1)
  BY <1>1, CountStep
<1> QED BY <1>1, <1>2, <1>3, CountNone

-----------------------------------------------------------------------------
(* The type that is returned.                                               *)

TypedReturn == pc = "return" /\ AST_list # <<>> => Types(AST_list) = <<ret_code>>

LEMMA AcceptTyped ==
    ASSUME Inv, HoldsValues(TypesOf), Accept
    PROVE  Types(AST_list) = <<ret_code'>>
<1> DEFINE m == TypesOf
<1>1. /\ pc = "parse" /\ Cell("#") /\ AST_list' = AST_list /\ ret_code' = stack[Len(stack)].type
      /\ stack_n = "$" /\ input = "$"
  BY TableCells DEF Accept, Cell, Parsing
<1>2. stack \in Seq(TokenSet) /\ StackShape(stack) /\ AST_list \in Seq(TokenSet)
  BY <1>1, ParsingFacts
<1>3. Len(stack) = 2 /\ stack[2].spec = "E" /\ stack[1].spec = "$"
  BY <1>1, <1>2, AcceptFacts DEF StackShape
<1>4. PICK x : Leaves(m, AST_list, x) /\ Belong(m, stack, x)
  BY <1>1 DEF HoldsValues, Valued
<1>5. Count(stack, 2) = 1
  BY <1>3, CountOfPair
<1>6. x \in Seq(Results(m)) /\ Len(x) = 1 /\ Means(m, stack[2], x[1])
  <2>1. 2 \in 1..Len(stack)
    BY <1>3
  <2> QED BY <1>3, <1>4, <1>5, <2>1 DEF Belong
<1>7. x[1] = ret_code'
  BY <1>1, <1>3, <1>6 DEF Means, TypesOf
<1>8. x = <<ret_code'>>
  BY <1>6, <1>7
<1>9. Types(AST_list) = x
  BY <1>2, <1>4, TypesAre
<1> QED BY <1>8, <1>9
-----------------------------------------------------------------------------
(* The error of types that is raised.                                       *)

(* An expression has no type when its postfix form computes none. *)
Untyped == Types(Postfix(Expression)) = <<"NONE">>

TypedError == exit_code = 6 /\ Postfix(Expression) # NoParse => Untyped

LEMMA ErrorStands ==
    ASSUME Inv, Conserved, Charted, Cell(">"), Known("expression", Expression)
    PROVE  /\ Closing(pp_list) /\ Readable(pp_list) /\ CellOf(pp_list, stack, element) = ">"
           /\ Standing(pp_list, stack, AST_list, element)
           /\ Expression = Part(pp_list, 1, Len(pp_list))
<1>1. pc = "parse"
  BY DEF Cell, Parsing
<1>2. Closing(pp_list)
  <2>1. /\ pp_list \in Seq(TokenSet) /\ pp_list[Len(pp_list)].spec = "$"
        /\ \A k \in 1..(Len(pp_list) - 1) : pp_list[k] \in Retagged
    BY <1>1 DEF Inv, ParseInv, TapeInv, TypeOK
  <2>2. Len(pp_list) > 1
    BY <1>1, ExpressionIsTokens
  <2> QED BY <2>1, <2>2 DEF Closing
<1>3. Readable(pp_list)
  BY <1>1, TapeIsReadable
<1>4. CellOf(pp_list, stack, element) = ">"
  BY DEF Cell, CellOf, stack_n, input
<1>5. Standing(pp_list, stack, AST_list, element)
  <2>1. /\ stack \in Seq(TokenSet) /\ StackShape(stack) /\ element \in DOMAIN pp_list
        /\ AST_list \in Seq(TokenSet) /\ \A k \in DOMAIN stack : StackSymbol(stack[k])
    BY <1>1, ParsingFacts
  <2>2. /\ stack[Len(stack)].spec = "E" => pp_list[element].spec \notin {"#", "i", "("}
        /\ Len(stack) = 1 => element = 1
    BY <1>1 DEF Inv, ParseInv, StackInv, input
  <2>3. Shifted(stack) /\ \E at, out : Chart(stack, pp_list[element].spec, pp_list, AST_list, element, at, out)
    BY <1>1 DEF Charted, input
  <2> QED BY <2>1, <2>2, <2>3 DEF Standing
<1>6. Expression = Part(pp_list, 1, Len(pp_list))
  BY <1>1, ExpressionIsTokens
<1> QED BY <1>2, <1>3, <1>4, <1>5, <1>6

(* The first rule that computes no type. *)
LEMMA FirstSpoils ==
    ASSUME NEW q, Closing(q), NEW s, NEW w, NEW e, Standing(q, s, w, e), CellOf(q, s, e) = ">",
           NEW x, Leaves(TypesOf, w, x), x \in Seq(Results(TypesOf)), Len(x) = Count(s, Len(s)),
           NEW r, r = Rhs(s), NEW c, c = Count(s, MarkAt(s)),
           NEW a, a = "NONE", NEW u, Makes(TypesOf, r, x, c, a, u)
    PROVE  \E v, z, y : Carries(q, v, z, e, y)
<1> DEFINE t == [type |-> "UNDEF", spec |-> "E", attr |-> "E"]
           m == TypesOf
           y == Append(SubSeq(x, 1, c), a)
<1>1. /\ s \in Seq(TokenSet) /\ StackShape(s) /\ w \in Seq(TokenSet)
      /\ stack_top_term(s).spec \in BinaryOps \cup {"#", "i", ")"}
  BY TableCells DEF Standing, CellOf
<1>2. Reducible(s)
  BY <1>1 DEF Reducible, Standing
<1>3. c \in Nat
  BY <1>2, RuleCounts
<1>4. r[1] \in TokenSet /\ (r[2].spec = "i" => r[2] \in Retagged)
  <2>1. ASSUME NEW k \in 0..2
        PROVE  r[k] \in TokenSet /\ (r[k].spec # "EMPTY" => StackSymbol(r[k]))
    <3>1. r[k] = EmptyToken \/ \E j \in DOMAIN s : r[k] = s[j]
      BY <1>2, RhsFacts DEF Reducible
    <3>2. EmptyToken \in TokenSet /\ EmptyToken.spec = "EMPTY"
      BY SpecialTokens DEF EmptyToken
    <3> QED BY <1>1, <1>2, <3>1, <3>2 DEF Reducible
  <2>2. 1 \in 0..2 /\ 2 \in 0..2
    OBVIOUS
  <2> QED BY <2>1, <2>2 DEF StackSymbol
<1>5. Becomes(m, w, x, c, a, u)
  <2>1. m \in Modes
    BY DEF Modes
  <2> HIDE DEF m
  <2>2. x \in Seq(Results(m)) /\ Leaves(m, w, x)
    BY DEF m
  <2>3. Makes(m, r, x, c, a, u)
    BY DEF m
  <2> QED BY <1>1, <1>3, <1>4, <2>1, <2>2, <2>3, Fed
<1>6. u \in Seq(TokenSet) /\ Leaves(m, w \o u, y)
  BY <1>5 DEF Becomes
<1>7. y \in Seq(Results(m)) /\ Len(y) = c + 1 /\ Spoiled(y)
  <2>1. c <= Len(x) /\ Len(x) \in Nat
    BY <1>3 DEF Makes
  <2>2. SubSeq(x, 1, c) \in Seq(Results(m)) /\ Len(SubSeq(x, 1, c)) = c
    BY <1>3, <2>1
  <2>3. a \in Results(m)
    BY DEF Results, TypesOf
  <2>4. y \in Seq(Results(m)) /\ Len(y) = c + 1 /\ y[c + 1] = a /\ c + 1 \in 1..(c + 1)
    BY <1>3, <2>2, <2>3
  <2> QED BY <2>4 DEF Spoiled
<1>8. t \in TokenSet /\ t.spec = "E" /\ t.type \in ExprTypes
  <2>1. "E" \in Attributes
    BY AttributesAssumption
  <2>2. "UNDEF" \in ExprTypes
    BY DEF ExprTypes, VarTypes
  <2> QED BY <2>1, <2>2, ExprTypesAreTypes DEF TokenSet
<1>9. Lists(Rhs(s), u)
  BY DEF Lists, Makes
<1> HIDE DEF t, m, y
<1>10. Standing(q, Replaced(s, t), w \o u, e)
  BY <1>6, <1>8, <1>9, StandsReduced
<1>11. Count(Replaced(s, t), Len(Replaced(s, t))) = c + 1
  <2>1. /\ Len(Replaced(s, t)) = MarkAt(s)
        /\ Count(Replaced(s, t), MarkAt(s)) = Count(s, MarkAt(s)) + 1
    BY <1>2, <1>8, ReducedCount DEF Reducible
  <2> QED BY <2>1
<1>12. Carries(q, Replaced(s, t), w \o u, e, y)
  BY <1>6, <1>7, <1>10, <1>11 DEF Carries, m
<1> QED BY <1>12

LEMMA TypeErrorMakes ==
    ASSUME Inv, HoldsValues(TypesOf), ComparesAsDocumented, TypeError
    PROVE  \E x : /\ Leaves(TypesOf, AST_list, x) /\ x \in Seq(Results(TypesOf)) /\ Len(x) = Count(stack, Len(stack))
                  /\ \E u : Makes(TypesOf, Rhs(stack), x, Count(stack, MarkAt(stack)), "NONE", u)
<1>1. PICK r, c, m : r = Rhs(stack) /\ c = Count(stack, MarkAt(stack)) /\ m = TypesOf
  OBVIOUS
<1>2. Cell(">") /\ m.kind = "types"
  BY <1>1 DEF TypeError, TypesOf
<1>3. Reducible(stack) /\ pc = "parse"
  BY <1>2, ReducibleNow
<1>4. PICK x : Leaves(m, AST_list, x) /\ Belong(m, stack, x)
  BY <1>1, <1>3 DEF HoldsValues, Valued
<1>5. x \in Seq(Results(m)) /\ Len(x) = Count(stack, Len(stack))
  BY <1>4 DEF Belong
<1>6. /\ IsLength(r) => Makes(m, r, x, c, LengthOf(m, x[c + 1]), <<r[1]>>)
      /\ IsBinary(r) => Makes(m, r, x, c, BinaryOf(m, r[1].spec, x[c + 1], x[c + 2]), <<r[1]>>)
  BY <1>1, <1>3, <1>5, RuleMakes
<1>7. /\ IsLength(r) => Means(m, r[2], x[c + 1])
      /\ IsBinary(r) => Means(m, r[0], x[c + 1]) /\ Means(m, r[2], x[c + 2])
  BY <1>1, <1>3, <1>4, OperandsMean
<1>8. \E u : Makes(m, r, x, c, "NONE", u)
  <2>1. CASE IsLength(r) /\ r[2].type # "STRING"
    <3>1. x[c + 1] # "STRING"
      BY <1>2, <1>7, <2>1 DEF Means
    <3>2. LengthOf(m, x[c + 1]) = "NONE"
      BY <1>2, <3>1 DEF LengthOf, DocLength
    <3> QED BY <1>6, <2>1, <3>2
  <2>2. CASE IsBinary(r) /\ NontBinary(r).type = "NONE"
    <3>1. NontBinary(r).type = DocType(r[1].spec, r[0].type, r[2].type)
      <4>1. Agreed(m, Rhs(stack))
        BY <1>2, AgreedNow
      <4> QED BY <1>1, <1>2, <2>2, <4>1 DEF Agreed
    <3>2. x[c + 1] = r[0].type /\ x[c + 2] = r[2].type
      BY <1>2, <1>7, <2>2 DEF Means
    <3>3. BinaryOf(m, r[1].spec, x[c + 1], x[c + 2]) = "NONE"
      BY <1>2, <2>2, <3>1, <3>2 DEF BinaryOf
    <3> QED BY <1>6, <2>2, <3>3
  <2> QED BY <1>1, <2>1, <2>2 DEF TypeError
<1> QED BY <1>1, <1>4, <1>5, <1>8

LEMMA TypeErrorTyped ==
    ASSUME Inv, Conserved, Charted, HoldsValues(TypesOf), ComparesAsDocumented, TypeError
    PROVE  Known("expression", Expression) => Untyped
<1> SUFFICES ASSUME Known("expression", Expression) PROVE Untyped
  OBVIOUS
<1>1. Cell(">")
  BY DEF TypeError
<1>2. /\ Closing(pp_list) /\ Readable(pp_list) /\ CellOf(pp_list, stack, element) = ">"
      /\ Standing(pp_list, stack, AST_list, element)
      /\ Expression = Part(pp_list, 1, Len(pp_list))
  BY <1>1, ErrorStands
<1>3. PICK x, u : /\ Leaves(TypesOf, AST_list, x) /\ x \in Seq(Results(TypesOf)) /\ Len(x) = Count(stack, Len(stack))
                  /\ Makes(TypesOf, Rhs(stack), x, Count(stack, MarkAt(stack)), "NONE", u)
  BY TypeErrorMakes
<1>4. PICK v, z, y : Carries(pp_list, v, z, element, y)
  BY <1>2, <1>3, FirstSpoils
<1> QED BY <1>2, <1>4, CarriesToTheEnd DEF Untyped

LEMMA NextTyped ==
    ASSUME Inv, Conserved, ZeroInv, Charted, Halts, HoldsValues(TypesOf), TypedReturn, TypedError,
           ComparesAsDocumented, [Next]_vars
    PROVE  HoldsValues(TypesOf)' /\ TypedReturn' /\ TypedError'
<1>1. HoldsValues(TypesOf)'
  <2>1. TypesOf \in Modes
    BY DEF Modes
  <2> QED BY <2>1, NextValued
<1>2. CASE Collect \/ GiveBack \/ GiveBackCall \/ EndOfFile \/ BeginExpression
  BY <1>1, <1>2 DEF Collect, GiveBack, GiveBackCall, EndOfFile, BeginExpression, Halts, TypedReturn, TypedError
<1>3. CASE ReturnEmpty
  <2>1. AST_list' = <<>> /\ exit_code' = 0
    BY <1>3 DEF ReturnEmpty, ZeroInv, Halts
  <2> QED BY <1>1, <2>1 DEF TypedReturn, TypedError
<1>4. CASE GoesOn
  <2>1. pc' = "parse" /\ exit_code' = 0
    BY <1>4, GoesOnFacts DEF Halts
  <2> QED BY <1>1, <2>1 DEF TypedReturn, TypedError
<1>5. CASE Ends
  <2>1. pc' # "return" /\ exit_code = 0 /\ Expression' = Expression
    BY <1>5, EndsFacts DEF Halts, Expression, Taken
  <2>2. exit_code' = 6 => TypeError
    BY <1>5, <2>1 DEF Ends, ZeroDivision, NoRule, Reject, OffTable, error
  <2>3. exit_code' = 6 /\ Postfix(Expression) # NoParse => Untyped
    BY <2>2, TypeErrorTyped DEF Known, Of, Postfix
  <2>4. (Postfix(Expression) # NoParse)' <=> Postfix(Expression) # NoParse
    BY <2>1
  <2>5. Untyped' <=> Untyped
    BY <2>1 DEF Untyped
  <2> QED BY <1>1, <2>1, <2>3, <2>4, <2>5 DEF TypedReturn, TypedError
<1>6. CASE Accept
  <2>1. TypedReturn'
    <3>1. AST_list' = AST_list
      BY <1>6 DEF Accept
    <3> QED BY <1>6, <3>1, AcceptTyped DEF TypedReturn
  <2>2. exit_code' = 0
    BY <1>6 DEF Accept, Cell, Parsing, Halts
  <2> QED BY <1>1, <2>1, <2>2 DEF TypedError
<1>7. CASE UNCHANGED vars
  BY <1>1, <1>7 DEF vars, TypedReturn, TypedError, Untyped, Expression, Taken
<1> QED BY <1>2, <1>3, <1>4, <1>5, <1>6, <1>7, Steps

LEMMA TypedIsDocumented ==
    ASSUME TypeOK, TypedReturn, TypedError
    PROVE  TypedAsDocumented
<1>1. ret_code # "NONE"
  BY DEF TypeOK, VarTypes
<1> QED BY <1>1 DEF TypedReturn, TypedError, Untyped, TypedAsDocumented

LEMMA SpecTyped ==
    Spec /\ []ComparesAsDocumented =>
        [](Inv /\ Conserved /\ ZeroInv /\ Charted /\ Halts /\ HoldsValues(TypesOf) /\ TypedReturn /\ TypedError)
<1>1. Init => Halts /\ HoldsValues(TypesOf) /\ TypedReturn /\ TypedError
  BY DEF Init, Halts, HoldsValues, TypedReturn, TypedError
<1>2. Inv /\ ZeroInv /\ Conserved /\ Charted /\ Halts /\ RejectsOnlyNonSentences /\ [Next]_vars => Halts'
  BY NextRejects
<1>3. /\ Inv /\ Conserved /\ ZeroInv /\ Charted /\ Halts
      /\ HoldsValues(TypesOf) /\ TypedReturn /\ TypedError /\ ComparesAsDocumented /\ [Next]_vars
      => HoldsValues(TypesOf)' /\ TypedReturn' /\ TypedError'
  BY NextTyped
<1> QED BY <1>1, <1>2, <1>3, SpecCharted, RejectsWhatReferenceRejects, PTL DEF Spec

(* Where the comparisons that are reduced get the type their comments name,  *)
(* which is so whenever no string is compared (StringsAside), the type that  *)
(* DLL_parse returns is the documented type of the whole expression, and     *)
(* error(6) ends the call for no expression but one that has no type: what   *)
(* reduce checks handle by handle adds up to the typing of the expression.   *)
THEOREM TypesAsDocumented == Spec /\ []ComparesAsDocumented => []TypedAsDocumented
<1>1. Inv /\ TypedReturn /\ TypedError => TypedAsDocumented
  BY TypedIsDocumented DEF Inv
<1> QED BY <1>1, SpecTyped, PTL

-----------------------------------------------------------------------------
(* The refinement: a call is one step to its caller.  The definitions that   *)
(* ExprCall reaches through its own instance are those of this module.       *)

LEMMA CallCut == ASSUME NEW s PROVE Call!Cut(s) = Cut(s)
BY Zenon DEF Call!Cut, Cut, Call!Joins, Joins, Call!Retag, Retag, Call!EndsTape, EndsTape,
   Call!BeginsStatement, BeginsStatement, Call!BeginsCall, BeginsCall

LEMMA CallSymbols == Call!TableSymbols = TableSymbols /\ Call!NoParse = NoParse /\ Call!AnyType = ExprTypes
<1>1. Call!TableSymbols = TableSymbols /\ Call!NoParse = NoParse
  BY Zenon DEF Call!TableSymbols, TableSymbols, Call!BinaryOps, BinaryOps, Call!AddOps, AddOps, Call!MulOps, MulOps,
     Call!RelOps, RelOps, Call!NoParse, NoParse, Call!EmptyToken, EmptyToken
<1>2. Call!AnyType = ExprTypes
  BY DEF Call!AnyType, ExprTypes, VarTypes
<1> QED BY <1>1, <1>2

LEMMA CallPostfix == ASSUME NEW s PROVE Call!Postfix(s) = Postfix(s)
BY Zenon DEF Call!Postfix, Postfix, Call!Reading, Reading, Call!ReadBy, ReadBy, Call!Joined, Joined,
   Call!TopLevel, TopLevel, Call!Depth, Depth, Call!Cardinality, Cardinality, Call!Max, Max, Call!Min, Min,
   Call!Before, Before, Call!After, After, Call!Rules, Rules, Call!NoParse, NoParse, Call!EmptyToken, EmptyToken,
   Call!TokenSet, TokenSet, Call!TokenTypes, TokenTypes, Call!Literals, Literals, Call!Specs, Specs,
   Call!Attributes, Attributes, Call!Keywords, Keywords, Call!Datatypes, Datatypes,
   Call!TableSymbols, TableSymbols, Call!BinaryOps, BinaryOps, Call!AddOps, AddOps, Call!MulOps, MulOps, Call!RelOps, RelOps

LEMMA CallTypes == ASSUME NEW p PROVE Call!TypeOf(p) = Types(p)[1]
BY Zenon DEF Call!TypeOf, Types, Call!Evaluate, Evaluate, Call!Operand, OperandType, Call!DocLength, DocLength,
   Call!DocType, DocType, Call!DocNumeric, DocNumeric, Call!Front, Front, Call!Last, Last

LEMMA CallIdles ==
    ASSUME pc \notin Outcomes, pc' \notin Outcomes, got' = got, exit_code' = exit_code
    PROVE  UNCHANGED Call!vars
BY DEF Call!vars, Running, Outcomes

LEMMA CollectCalls == ASSUME Inv, Collect PROVE [Call!Next]_(Call!vars)
<1>1. PICK next \in Lexemes \cup {EofToken} : got' = got \o Record(next)
  BY DEF Collect, Delivered
<1>2. pc = "collect" /\ pc' = "collect" /\ exit_code' = exit_code /\ got \in Seq(Lexemes)
  BY DEF Collect, Inv, TypeOK
<1>3. CASE next = EofToken
  <2>1. got' = got
    BY <1>1, <1>2, <1>3, EofRetag
  <2> QED BY <1>2, <2>1, CallIdles DEF Outcomes
<1>4. CASE next \in Lexemes
  <2>1. got' = Append(got, next)
    <3>1. Record(next) = <<next>>
      BY <1>4, LexemeFacts DEF Record
    <3> QED BY <1>1, <1>2, <3>1
  <2>2. Call!Deliver
    BY <1>2, <1>4, <2>1 DEF Call!Deliver, Running, Outcomes
  <2> QED BY <2>2 DEF Call!Next
<1> QED BY <1>1, <1>3, <1>4

LEMMA ExpressionItems ==
    ASSUME Inv, Conserved, pc = "parse"
    PROVE  /\ Len(pp_list) \in Nat /\ Expression \in Seq(TokenSet) /\ Expression # <<>>
           /\ Len(Expression) = Len(pp_list) - 1 /\ DOMAIN Expression = 1..(Len(pp_list) - 1)
           /\ \A i \in 1..(Len(pp_list) - 1) : Expression[i] = pp_list[i]
<1>1. Expression = Part(pp_list, 1, Len(pp_list)) /\ Len(pp_list) \in Nat /\ Len(pp_list) > 1
  BY ExpressionIsTokens
<1>2. pp_list \in Seq(TokenSet)
  BY DEF Inv, TypeOK
<1>3. /\ Part(pp_list, 1, Len(pp_list)) \in Seq(TokenSet)
      /\ Len(Part(pp_list, 1, Len(pp_list))) = Len(pp_list) - 1
      /\ \A i \in 1..(Len(pp_list) - 1) : Part(pp_list, 1, Len(pp_list))[i] = pp_list[i]
  BY <1>1, <1>2 DEF Part
<1>4. Len(Expression) # 0
  BY <1>1, <1>3
<1>5. Expression # <<>>
  BY <1>4
<1> QED BY <1>1, <1>3, <1>5

(* The tape that ExprCall cuts off is the expression in hand. *)
LEMMA CallTape ==
    ASSUME Inv, Conserved, CutAsCalled, pc = "parse"
    PROVE  /\ Call!Tape = Expression /\ list = Call!Cut(got).list
           /\ Expression \in Seq(TokenSet) /\ Expression # <<>>
<1>1. Expression = Part(pp_list, 1, Len(pp_list)) /\ Len(pp_list) \in Nat /\ Len(pp_list) > 1
  BY ExpressionIsTokens
<1>2. pp_list \in Seq(TokenSet) /\ pp_list[Len(pp_list)].spec = "$" /\ pp_list # <<>>
  BY <1>1 DEF Inv, TypeOK, ParseInv, TapeInv
<1>3. Tape = Part(pp_list, 1, Len(pp_list))
  BY <1>2 DEF Tape, Part
<1>4. list = Cut(got).list /\ Tape = Cut(got).tape
  BY DEF CutAsCalled
<1>5. Call!Tape = Expression /\ list = Call!Cut(got).list
  BY <1>1, <1>3, <1>4, CallCut DEF Call!Tape
<1> QED BY <1>5, ExpressionItems

LEMMA ReturnEmptyCalls ==
    ASSUME Inv, Conserved, ZeroInv, CutAsCalled, ReturnEmpty
    PROVE  Call!Return
<1>1. /\ pc = "expr" /\ pc' = "return" /\ pp_list = <<>> /\ AST_list' = <<>> /\ ret_code' \in ExprTypes
      /\ list' = list /\ got' = got /\ exit_code' = exit_code
  BY DEF ReturnEmpty, ZeroInv, ExprTypes
<1>2. list = Cut(got).list /\ Cut(got).tape = <<>>
  <2>1. Tape = <<>>
    BY <1>1 DEF Tape
  <2> QED BY <1>1, <2>1 DEF CutAsCalled
<1>3. Call!Tape = <<>> /\ list = Call!Cut(got).list
  BY <1>2, CallCut DEF Call!Tape
<1>4. Call!OnTable
  BY <1>3 DEF Call!OnTable
<1> QED BY <1>1, <1>3, <1>4, CallSymbols DEF Call!Return, Running, Outcomes

LEMMA AcceptCalls ==
    ASSUME Inv, Inv', Conserved, Charted, CutAsCalled, HoldsValues(TypesOf), Accept
    PROVE  Call!Return
<1>1. /\ pc = "parse" /\ pc' = "return" /\ AST_list' = AST_list
      /\ list' = list /\ got' = got /\ exit_code' = exit_code
  BY DEF Accept, Cell, Parsing
<1>2. Call!Tape = Expression /\ list = Call!Cut(got).list /\ Expression # <<>>
  BY <1>1, CallTape
<1>3. Yields("expression", Expression, AST_list)
  BY AcceptReads
<1>4. Call!OnTable
  <2>1. Readable(pp_list) /\ Len(pp_list) \in Nat
    <3>1. Known("expression", Expression)
      BY <1>3 DEF Yields, Known
    <3> QED BY <1>1, <3>1, TapeIsReadable, ExpressionIsTokens
  <2>2. DOMAIN Expression = 1..(Len(pp_list) - 1) /\ \A i \in 1..(Len(pp_list) - 1) : Expression[i] = pp_list[i]
    BY <1>1, ExpressionItems
  <2>3. ASSUME NEW i \in 1..(Len(pp_list) - 1) PROVE Expression[i].spec \in TableSymbols
    <3>1. i \in 1..Len(pp_list)
      BY <2>1
    <3> QED BY <2>1, <2>2, <3>1 DEF Readable
  <2> QED BY <1>2, <2>2, <2>3, CallSymbols DEF Call!OnTable
<1>5. PICK p : p = AST_list
  OBVIOUS
<1>6. Call!Postfix(Expression) = p /\ p # Call!NoParse
  BY <1>3, <1>5, CallPostfix, CallSymbols DEF Yields, Postfix, Of
<1>7. PICK c : c = ret_code'
  OBVIOUS
<1>8. Call!TypeOf(p) = c /\ c # "NONE"
  <2>2. Types(p) = <<c>>
    BY <1>5, <1>7, AcceptTyped
  <2>3. c # "NONE"
    <3>1. c \in VarTypes \cup {"BOOL"}
      BY <1>7 DEF Inv, TypeOK
    <3> QED BY <3>1 DEF VarTypes
  <2> QED BY <2>2, <2>3, CallTypes
<1> QED BY <1>1, <1>2, <1>4, <1>5, <1>6, <1>7, <1>8 DEF Call!Return, Running, Outcomes

(* The operator that reduce finds on the stack is one of the tape. *)
LEMMA OperatorOnTape ==
    ASSUME Inv, Conserved, Charted, Cell(">"), IsBinary(Rhs(stack))
    PROVE  \E i \in DOMAIN Expression : Expression[i] = Rhs(stack)[1]
<1>1. PICK r, m, j : r = Rhs(stack) /\ m = MarkAt(stack) /\ j = m + 2
  OBVIOUS
<1>2. Reducible(stack) /\ pc = "parse"
  BY ReducibleNow
<1>3. m \in 2..(Len(stack) - 1) /\ Len(stack) = m + 3 /\ Len(stack) \in Nat /\ r[1] = stack[m + 2]
  BY <1>1, <1>2, RulePlaces
<1>4. j \in 1..Len(stack) /\ r[1] = stack[j]
  BY <1>1, <1>3
<1>5. stack[j].spec \in BinaryOps
  BY <1>1, <1>4 DEF IsBinary
<1>6. PICK at, out : Chart(stack, input, pp_list, AST_list, element, at, out)
  BY <1>2 DEF Charted
<1>7. PICK k \in Nat : k = j + 1
  BY <1>4
<1>8. Between(stack, input, pp_list, AST_list, element, at, out, j, k)
  BY <1>2, <1>4, <1>6, <1>7, ChartAt DEF Reducible
<1>9. at[j] \in Nat \ {0} /\ at[j] + 1 <= element /\ stack[j] = pp_list[at[j]]
  <2>1. stack[j].spec \notin {"$", "MARK", "E"}
    BY <1>5, Alphabet
  <2> QED BY <1>8, <2>1 DEF Between
<1>10. Len(pp_list) \in Nat /\ element \in 1..Len(pp_list) /\ Len(Expression) = Len(pp_list) - 1
       /\ Expression \in Seq(TokenSet) /\ \A i \in 1..(Len(pp_list) - 1) : Expression[i] = pp_list[i]
  BY <1>2, ExpressionItems, ParsingFacts
<1>11. PICK i \in Nat \ {0} : i = at[j]
  BY <1>9
<1>12. i \in 1..(Len(pp_list) - 1)
  BY <1>9, <1>10, <1>11
<1>13. i \in DOMAIN Expression /\ Expression[i] = r[1]
  BY <1>4, <1>9, <1>10, <1>11, <1>12
<1> QED BY <1>1, <1>13

LEMMA StopCalls ==
    ASSUME pc = "parse", NEW code, error(code)
    PROVE  Call!Stop(code) /\ Running
BY DEF error, Call!Stop, Running, Outcomes

LEMMA EndsCalls ==
    ASSUME Inv, Conserved, Charted, CutAsCalled, Halts, HoldsValues(TypesOf), ComparesAsDocumented, Ends
    PROVE  Call!Next
<1>1. pc = "parse" /\ exit_code = 0
  BY EndsFacts DEF Halts
<1>2. PICK e : e = Expression
  OBVIOUS
<1>3. Call!Tape = e /\ e # <<>> /\ e \in Seq(TokenSet)
  BY <1>1, <1>2, CallTape
<1>4. ASSUME error(2), NoRule \/ Reject \/ OffTable PROVE Call!SyntaxError
  <2>1. ~Known("expression", e)
    BY <1>2, <1>4, RejectImpossible, NoRuleImpossible, OffTableImpossible
  <2>2. Call!Postfix(e) = Call!NoParse
    BY <2>1, CallPostfix, CallSymbols DEF Known, Of, Postfix
  <2> QED BY <1>1, <1>3, <1>4, <2>2, StopCalls DEF Call!SyntaxError, Running
<1>5. CASE TypeError
  <2>1. Known("expression", e) => Untyped
    BY <1>2, <1>5, TypeErrorTyped
  <2>2. Call!Postfix(e) = Call!NoParse \/ Call!TypeOf(Call!Postfix(e)) = "NONE"
    <3>1. CASE ~Known("expression", e)
      BY <3>1, CallPostfix, CallSymbols DEF Known, Of, Postfix
    <3>2. CASE Untyped
      <4>1. Types(Postfix(e)) = <<"NONE">>
        BY <1>2, <3>2 DEF Untyped
      <4>2. Types(Postfix(e))[1] = "NONE"
        BY <4>1
      <4> QED BY <4>2, CallPostfix, CallTypes
    <3> QED BY <2>1, <3>1, <3>2
  <2>3. error(6)
    BY <1>5 DEF TypeError
  <2>4. Call!TypeError
    BY <1>1, <1>3, <2>2, <2>3, StopCalls DEF Call!TypeError, Running
  <2> QED BY <2>4 DEF Call!Next
<1>6. CASE ZeroDivision
  <2>1. Cell(">") /\ IsBinary(Rhs(stack)) /\ Rhs(stack)[1].spec \in {"/", "//"} /\ error(9)
    BY <1>6 DEF ZeroDivision, DividesByZero
  <2>2. \E i \in DOMAIN e : e[i].spec \in {"/", "//"}
    BY <1>2, <2>1, OperatorOnTape
  <2>3. Call!ZeroDivision
    BY <1>1, <1>3, <2>1, <2>2, StopCalls DEF Call!ZeroDivision, Running
  <2> QED BY <2>3 DEF Call!Next
<1>7. CASE NoRule \/ Reject
  <2>1. error(2)
    BY <1>7 DEF NoRule, Reject
  <2> QED BY <1>4, <1>7, <2>1 DEF Call!Next
<1>8. CASE OffTable
  <2>1. CASE error(2)
    BY <1>4, <1>8, <2>1 DEF Call!Next
  <2>2. CASE ~error(2)
    <3>1. /\ pc' = "undefined" /\ input \notin TableSymbols
          /\ UNCHANGED <<token, pp_list, list, stack, element, AST_list, ret_code, exit_code, got>>
      BY <1>8, <2>2 DEF OffTable
    <3>2. input # "$"
      BY <3>1, Alphabet DEF TableSymbols
    <3>3. element \in 1..(Len(pp_list) - 1)
      <4>1. element \in 1..Len(pp_list) /\ pp_list[Len(pp_list)].spec = "$" /\ Len(pp_list) \in Nat
        BY <1>1, ParsingFacts DEF Inv, ParseInv, TapeInv
      <4>2. element # Len(pp_list)
        BY <3>2, <4>1 DEF input
      <4> QED BY <4>1, <4>2
    <3>4. element \in DOMAIN e /\ e[element] = pp_list[element]
      BY <1>1, <1>2, <3>3, ExpressionItems
    <3>5. ~Call!OnTable
      BY <1>3, <3>1, <3>4, CallSymbols DEF Call!OnTable, input
    <3>6. Call!Unspecified
      BY <1>1, <3>1, <3>5 DEF Call!Unspecified, Running, Outcomes
    <3> QED BY <3>6 DEF Call!Next
  <2> QED BY <2>1, <2>2
<1> QED BY <1>5, <1>6, <1>7, <1>8 DEF Ends

LEMMA NextCalls ==
    ASSUME Inv, Inv', Conserved, ZeroInv, Charted, CutAsCalled, Halts,
           HoldsValues(TypesOf), ComparesAsDocumented, [Next]_vars
    PROVE  [Call!Next]_(Call!vars)
<1>1. CASE Collect
  BY <1>1, CollectCalls
<1>2. CASE GiveBack \/ GiveBackCall \/ EndOfFile \/ BeginExpression
  <2>1. pc \notin Outcomes /\ pc' \notin Outcomes /\ got' = got /\ exit_code' = exit_code
    BY <1>2 DEF GiveBack, GiveBackCall, EndOfFile, BeginExpression, Outcomes
  <2> QED BY <2>1, CallIdles
<1>3. CASE GoesOn
  <2>1. pc \notin Outcomes /\ pc' \notin Outcomes /\ got' = got /\ exit_code' = exit_code
    BY <1>3, GoesOnFacts DEF Outcomes
  <2> QED BY <2>1, CallIdles
<1>4. CASE ReturnEmpty
  BY <1>4, ReturnEmptyCalls DEF Call!Next
<1>5. CASE Accept
  BY <1>5, AcceptCalls DEF Call!Next
<1>6. CASE Ends
  BY <1>6, EndsCalls
<1>7. CASE UNCHANGED vars
  BY <1>7 DEF vars, Call!vars, Running
<1> QED BY <1>1, <1>2, <1>3, <1>4, <1>5, <1>6, <1>7, Steps

LEMMA InitCalls == Init => Call!Init
<1> SUFFICES ASSUME Init PROVE Call!Init
  OBVIOUS
<1>1. token \in Lexemes \cup {EofToken} /\ got = Record(token) /\ pc = "collect" /\ exit_code = 0
  BY DEF Init, Delivered
<1>2. got \in {<<>>} \cup {<<t>> : t \in Lexemes}
  <2>1. CASE token = EofToken
    BY <1>1, <2>1, EofRetag
  <2>2. CASE token \in Lexemes
    <3>1. Record(token) = <<token>>
      BY <2>2, LexemeFacts DEF Record
    <3> QED BY <1>1, <2>2, <3>1
  <2> QED BY <1>1, <2>1, <2>2
<1> QED BY <1>1, <1>2 DEF Call!Init, Running, Outcomes

(* Under the same condition on comparisons, a whole call of DLL_parse is one *)
(* step to its caller, for every input: whatever the scanner delivers, the   *)
(* call ends as ExprCall says, with the tokens given back, the postfix form  *)
(* and the type that are functions of the tokens, or with the error of the   *)
(* expression.                                                               *)
THEOREM CallIsOneStep == Spec /\ []ComparesAsDocumented => ImplementsCall
<1>1. Init => Call!Init
  BY InitCalls
<1>2. /\ Inv /\ Inv' /\ Conserved /\ ZeroInv /\ Charted /\ CutAsCalled /\ Halts
      /\ HoldsValues(TypesOf) /\ ComparesAsDocumented /\ [Next]_vars
      => [Call!Next]_(Call!vars)
  BY NextCalls
<1> QED BY <1>1, <1>2, SpecTyped, TapeIsCut, PTL DEF Spec, ImplementsCall, Call!Spec

-----------------------------------------------------------------------------
(* Programs that compare no strings: a condition on the tokens.             *)

NoComparison == \A t \in Lexemes : t.spec \notin RelOps
NoString == \A t \in Lexemes : t.spec = "i" => OperandType(t) # "STRING"

Stringless == pc = "parse" => \A k \in DOMAIN stack : stack[k].spec = "E" => stack[k].type # "STRING"

LEMMA RetaggedPlain ==
    ASSUME NEW u \in Retagged
    PROVE  /\ NoComparison => u.spec \notin RelOps
           /\ NoString /\ u.spec = "i" => OperandType(u) # "STRING"
<1>1. PICK t \in Lexemes : u = Retag(t)
  BY DEF Retagged
<1>2. CASE t.spec = "nil"
  <2>1. u = [t EXCEPT !.spec = "i", !.type = "NIL"] /\ t \in TokenSet
    BY <1>1, <1>2, LexemeFacts DEF Retag
  <2>2. u.spec = "i" /\ u.type = "NIL"
    BY <2>1 DEF TokenSet
  <2>3. "i" \notin RelOps /\ OperandType(u) = "NIL"
    BY <2>2 DEF OperandType, RelOps
  <2> QED BY <2>2, <2>3
<1>3. CASE t.spec # "nil"
  <2>1. u = t
    BY <1>1, <1>3 DEF Retag
  <2> QED BY <2>1 DEF NoComparison, NoString
<1> QED BY <1>2, <1>3

(* The symbols of a rule are elements of the stack. *)
LEMMA RuleSymbols ==
    ASSUME Inv, Cell(">"), NEW k \in 0..2, Rhs(stack)[k].spec # "EMPTY"
    PROVE  Rhs(stack)[k] \in TokenSet /\ StackSymbol(Rhs(stack)[k]) /\ \E j \in DOMAIN stack : Rhs(stack)[k] = stack[j]
<1>1. Reducible(stack)
  BY ReducibleNow
<1>2. Rhs(stack)[k] = EmptyToken \/ \E j \in DOMAIN stack : Rhs(stack)[k] = stack[j]
  BY <1>1, RhsFacts DEF Reducible
<1>3. EmptyToken.spec = "EMPTY"
  BY DEF EmptyToken
<1> QED BY <1>2, <1>3, RhsSymbols

LEMMA ComparesOnlyOthers ==
    ASSUME Inv, NoComparison \/ (NoString /\ Stringless)
    PROVE  ComparesAsDocumented
<1> DEFINE r == Rhs(stack)
<1> SUFFICES ASSUME Cell(">"), IsBinary(r), r[1].spec \in RelOps
             PROVE  NontBinary(r).type = DocType(r[1].spec, r[0].type, r[2].type)
  BY DEF ComparesAsDocumented
<1>1. r[0].spec = "E" /\ r[1].spec \in BinaryOps /\ r[2].spec = "E"
  BY DEF IsBinary
<1>2. /\ StackSymbol(r[1])
      /\ \E j \in DOMAIN stack : r[0] = stack[j]
      /\ \E j \in DOMAIN stack : r[2] = stack[j]
  <2>1. r[1].spec \notin {"EMPTY", "MARK", "E", "$"}
    BY <1>1, Alphabet
  <2> QED BY <1>1, <2>1, RuleSymbols
<1>3. ~NoComparison
  <2>1. r[1].spec \notin {"EMPTY", "MARK", "E", "$"}
    BY <1>1, Alphabet
  <2>2. r[1] \in Retagged
    BY <1>2, <2>1 DEF StackSymbol
  <2> QED BY <2>2, RetaggedPlain
<1>4. r[0].type # "STRING" /\ r[2].type # "STRING"
  <2>1. pc = "parse" /\ Stringless
    BY <1>3 DEF Cell, Parsing
  <2> QED BY <1>1, <1>2, <2>1 DEF Stringless
<1> QED BY <1>1, <1>4, StringsAside DEF NontBinary

LEMMA PushStringless ==
    ASSUME Inv, Stringless, Cell(">"), NEW nont \in TokenSet, nont.spec = "E", nont.type # "STRING",
           NEW u, Push(nont, u)
    PROVE  Stringless'
<1>1. Reducible(stack) /\ pc = "parse" /\ stack' = Replaced(stack, nont)
  BY ReducibleNow DEF Push
<1>2. \A k \in DOMAIN stack' : stack'[k] = nont \/ \E j \in DOMAIN stack : stack'[k] = stack[j]
  BY <1>1, ReducedShape DEF Reducible
<1> QED BY <1>1, <1>2 DEF Stringless

LEMMA NextStringless ==
    ASSUME Inv, NoString, Stringless, [Next]_vars
    PROVE  Stringless'
<1> DEFINE r == Rhs(stack)
<1>1. CASE BeginExpression
  <2>1. stack' = <<DollarToken>> /\ DollarToken.spec # "E"
    BY <1>1 DEF BeginExpression, DollarToken
  <2> QED BY <2>1 DEF Stringless
<1>2. CASE Shift \/ MarkAndShift
  <2> DEFINE t == pp_list[element]
  <2>1. /\ pc = "parse" /\ stack \in Seq(TokenSet) /\ StackShape(stack) /\ t \in TokenSet
        /\ stack[Len(stack)].spec = "E" => input \notin {"#", "i", "("}
    BY <1>2, ParsingFacts DEF Shift, MarkAndShift, Cell, Parsing, Inv, ParseInv, StackInv
  <2>2. t.spec # "E" /\ MarkToken.spec # "E"
    BY <1>2, TableCells, Alphabet DEF Shift, MarkAndShift, Cell, Parsing, input, MarkToken
  <2>3. \A k \in DOMAIN stack' : stack'[k] \in {MarkToken, t} \/ \E j \in DOMAIN stack : stack'[k] = stack[j]
    <3>1. CASE Shift
      <4>1. stack' = Append(stack, t) /\ stack_top_term(stack).spec = "(" /\ t.spec = ")"
        BY <3>1, TableCells DEF Shift, Cell, Advance, stack_n, input
      <4> QED BY <2>1, <4>1, ShiftShape
    <3>2. CASE MarkAndShift
      <4>1. /\ stack' = Append(stack_mark(stack), t)
            /\ stack_top_term(stack).spec \in BinaryOps \cup {"#", "(", "$"}
            /\ t.spec \in BinaryOps \cup {"#", "i", "("}
        BY <3>2, TableCells DEF MarkAndShift, Cell, Advance, stack_n, input
      <4>2. stack[Len(stack)].spec = "E" => t.spec \notin {"#", "i", "("}
        BY <2>1 DEF input
      <4> QED BY <2>1, <4>1, <4>2, MarkAndShiftShape
    <3> QED BY <1>2, <3>1, <3>2
  <2> QED BY <2>1, <2>2, <2>3 DEF Stringless
<1>3. CASE ReduceOperand
  <2>1. Cell(">") /\ IsOperand(r) /\ r[2].spec = "i" /\ Push(NontOperand(r), <<r[2]>>)
    BY <1>3 DEF ReduceOperand, IsOperand
  <2>2. r[2] \in TokenSet /\ r[2] \in Retagged
    BY <2>1, RuleSymbols DEF StackSymbol
  <2>3. NontOperand(r) \in TokenSet /\ NontOperand(r).spec = "E"
    BY <2>1, <2>2, NontOperandFacts
  <2>4. NontOperand(r).type # "STRING"
    BY <2>1, <2>2, RetaggedPlain DEF NontOperand
  <2> QED BY <2>1, <2>3, <2>4, PushStringless
<1>4. CASE ReduceLength
  <2>1. Cell(">") /\ r[2].spec = "E" /\ Push(NontLength(r), <<r[1]>>)
    BY <1>4 DEF ReduceLength, IsLength
  <2>2. r[2] \in TokenSet
    BY <2>1, RuleSymbols
  <2>3. NontLength(r) \in TokenSet /\ NontLength(r).spec = "E"
    BY <2>1, <2>2, NontLengthFacts
  <2>4. NontLength(r).type # "STRING"
    BY <2>2 DEF NontLength, TokenSet
  <2> QED BY <2>1, <2>3, <2>4, PushStringless
<1>5. CASE ReduceBinary
  <2>1. Cell(">") /\ IsBinary(r) /\ NontBinary(r).type # "NONE" /\ Push(NontBinary(r), <<r[1]>>)
    BY <1>5 DEF ReduceBinary
  <2>2. NontBinary(r) \in TokenSet /\ NontBinary(r).spec = "E"
    BY <2>1, NontBinaryFacts
  <2>3. r[0].type # "STRING"
    <3>1. r[0].spec = "E" /\ \E j \in DOMAIN stack : r[0] = stack[j]
      BY <2>1, RuleSymbols DEF IsBinary
    <3> QED BY <2>1, <3>1 DEF Stringless, Cell, Parsing
  <2>4. NontBinary(r).type # "STRING"
    <3>1. r[1].spec \in BinaryOps
      BY <2>1 DEF IsBinary
    <3>2. BinaryType(r[1].spec, r[0].type, r[2].type) # "STRING"
      BY <2>3, <3>1 DEF BinaryType, ArithmeticType, BinaryOps, AddOps, MulOps, RelOps
    <3> QED BY <3>2 DEF NontBinary
  <2> QED BY <2>1, <2>2, <2>4, PushStringless
<1>6. CASE ReduceParens
  <2>1. Cell(">") /\ r[1].spec = "E" /\ Push(r[1], <<>>)
    BY <1>6 DEF ReduceParens, IsParens
  <2>2. r[1] \in TokenSet /\ \E j \in DOMAIN stack : r[1] = stack[j]
    BY <2>1, RuleSymbols
  <2>3. r[1].type # "STRING"
    BY <2>1, <2>2 DEF Stringless, Cell, Parsing
  <2> QED BY <2>1, <2>2, <2>3, PushStringless
<1>7. CASE Collect \/ GiveBack \/ GiveBackCall \/ EndOfFile \/ ReturnEmpty \/ Accept
  BY <1>7 DEF Collect, GiveBack, GiveBackCall, EndOfFile, ReturnEmpty, Accept, Stringless
<1>8. CASE Ends
  BY <1>8, EndsFacts DEF Stringless
<1>9. CASE UNCHANGED vars
  BY <1>9 DEF vars, Stringless
<1> QED BY <1>1, <1>2, <1>3, <1>4, <1>5, <1>6, <1>7, <1>8, <1>9, Steps DEF GoesOn

LEMMA NothingMisread == ASSUME NoComparison \/ NoString PROVE Spec => []ComparesAsDocumented
<1>1. CASE NoComparison
  <2>1. Inv => ComparesAsDocumented
    BY <1>1, ComparesOnlyOthers
  <2> QED BY <2>1, SpecCharted, PTL
<1>2. CASE NoString
  <2>1. Init => Stringless
    BY DEF Init, Stringless
  <2>2. Inv /\ Stringless /\ [Next]_vars => Stringless'
    BY <1>2, NextStringless
  <2>3. Inv /\ Stringless => ComparesAsDocumented
    BY <1>2, ComparesOnlyOthers
  <2> QED BY <2>1, <2>2, <2>3, SpecCharted, PTL DEF Spec
<1> QED BY <1>1, <1>2

(* In a program without comparisons, or without strings, the types and the   *)
(* whole call of DLL_parse are as documented, for every input.               *)
THEOREM CallWithoutStringComparisons ==
    ASSUME NoComparison \/ NoString
    PROVE  Spec => []TypedAsDocumented /\ ImplementsCall
BY NothingMisread, TypesAsDocumented, CallIsOneStep, PTL
=============================================================================

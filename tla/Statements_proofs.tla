--------------------------- MODULE Statements_proofs ---------------------------
(***************************************************************************)
(* The tree has the children the generator addresses, for every input.     *)
(* The inductive invariant Good says how the C stack, the tree and the     *)
(* flag from_func_def fit together: which function may be under way above  *)
(* which, and which children a node has while functions still work on it.  *)
(* And every step lessens a measure: the parser does not go round in a     *)
(* circle.                                                                 *)
(***************************************************************************)
EXTENDS Statements, NaturalFacts, FiniteSetTheorems, SequenceTheorems, TLAPS

(* The greatest element of a set is found. *)
LEMMA MaxIs ==
    ASSUME NEW S \in SUBSET Int, NEW k \in S, \A j \in S : j <= k
    PROVE  Max(S) = k
<1> DEFINE m == CHOOSE i \in S : \A j \in S : i >= j
<1>1. m \in S /\ \A j \in S : m >= j
  OBVIOUS
<1> HIDE DEF m
<1>2. m = k
  BY <1>1
<1> QED BY <1>2 DEF Max, m

(* The functions, and the node each is given. *)
Labels == {"program", "program_body", "func_decl_end", "types", "constants", "arg", "args", "params",
           "func_def_signature", "func_def_body", "func_def_end", "func_body", "if_element", "while_element",
           "return_element", "func_element", "decl_element", "assignment", "else", "element_end", "ids", "item", "items"}

OneStatement == {"if_element", "while_element", "return_element", "func_element", "decl_element", "assignment"}

Given(f) ==
    CASE f \in {"program", "program_body", "func_decl_end"} -> {"program"}
      [] f = "types" -> {"program", "func_def"}
      [] f \in {"constants", "arg", "args"} -> {"func_call"}
      [] f = "params" -> {"variable"}
      [] f \in {"func_def_signature", "func_def_body", "func_def_end"} -> {"func_def"}
      [] f = "func_body" -> {"branch", "while", "func_def"}
      [] f \in OneStatement -> {"body"}
      [] f = "else" -> {"branch"}
      [] f = "element_end" -> {"branch", "while"}
      [] f = "ids" -> {"assign"}
      [] f = "item" -> {"assign", "return", "var_declare"}
      [] f = "items" -> {"assign", "return"}
      [] OTHER -> {}

(* What may be left to do with the node the function f is given, after f. *)
Later(f) ==
    CASE f = "types" -> {"func_decl_end", "program_body", "func_def_body"}
      [] f = "func_decl_end" -> {"program_body"}
      [] f = "func_body" -> {"else", "element_end", "func_def_end"}
      [] f = "item" -> {"items"}
      [] f = "arg" -> {"args"}
      [] OTHER -> {}

IsTree(ns) ==
    /\ ns \in Seq(Range(ns))
    /\ \A n \in 1..Len(ns) : ns[n].parent \in 0..(n - 1)

(* A function works on a node of its kind; those under it work on older ones. *)
IsStack(ns, ct) ==
    /\ ct \in Seq([at : Labels, node : 1..Len(ns)])
    /\ \A i \in 1..Len(ct) : ns[ct[i].node].id \in Given(ct[i].at)
    /\ \A i, j \in 1..Len(ct) : i < j =>
          \/ ct[j].node < ct[i].node
          \/ ct[j].node = ct[i].node /\ ct[j].at \in Later(ct[i].at)

(* A new body is announced to the func_body that is called next. *)
Announces(ct, fd) ==
    /\ fd \in BOOLEAN
    /\ fd => ct # <<>> /\ ct[1].at = "func_body"

(* func_body adds its statements to the last child, which is a body. *)
HasBody(ns, n) == \E b \in KidsOf(ns, n) : ns[b].id = "body" /\ \A m \in KidsOf(ns, n) : m <= b

BodiesOpen(ns, ct, fd) ==
    \A i \in 1..Len(ct) : ct[i].at = "func_body" /\ ~(i = 1 /\ fd) => HasBody(ns, ct[i].node)

Open(ct, n, f) == \E i \in 1..Len(ct) : ct[i].node = n /\ ct[i].at = f
Pending(ct, fd, n) == fd /\ ct[1].node = n

(* The children of n, complete when no function works on it. *)
Shape(ns, ct, fd, n) ==
    CASE ns[n].id = "branch" ->
            HasKids(ns, n, IF Open(ct, n, "else")
                           THEN IF Pending(ct, fd, n) THEN <<"expr">> ELSE <<"expr", "body">>
                           ELSE IF Pending(ct, fd, n) THEN <<"expr", "body">> ELSE <<"expr", "body", "body">>)
      [] ns[n].id = "while" -> HasKids(ns, n, IF Pending(ct, fd, n) THEN <<"expr">> ELSE <<"expr", "body">>)
      [] ns[n].id = "assign" ->
            /\ VariablesFirst(ns, n) /\ ~KidsIn(ns, n, ItemIds)
            /\ Open(ct, n, "ids") => KidsIn(ns, n, {"variable"})
            /\ KidsIn(ns, n, {"variable"}) => Open(ct, n, "ids") \/ Open(ct, n, "item")
      [] ns[n].id = "var_declare" ->
            /\ KidsIn(ns, n, ItemIds) /\ \A l, m \in KidsOf(ns, n) : l = m
            /\ Open(ct, n, "item") => KidsOf(ns, n) = {}
      [] ns[n].id = "return" -> KidsIn(ns, n, ItemIds)
      [] ns[n].id = "body" -> KidsIn(ns, n, StatementIds)
      [] ns[n].id = "func_call" ->
            \/ KidsIn(ns, n, {"constant", "variable"})
            \/ HasKids(ns, n, <<"body">>) /\ \A f \in Labels : ~Open(ct, n, f)
      [] ns[n].id \in {"expr", "constant"} -> KidsOf(ns, n) = {}
      [] OTHER -> TRUE

Good(ns, ct, fd) ==
    /\ IsTree(ns) /\ IsStack(ns, ct) /\ Announces(ct, fd) /\ BodiesOpen(ns, ct, fd)
    /\ \A n \in 1..Len(ns) : Shape(ns, ct, fd, n)

-----------------------------------------------------------------------------
(* Trees that grow.                                                         *)

(* ns2 is ns with new nodes, under n or under one another. *)
Grows(ns, ns2, n) ==
    /\ IsTree(ns) /\ IsTree(ns2) /\ Len(ns) <= Len(ns2)
    /\ \A m \in 1..Len(ns) : ns2[m] = ns[m]
    /\ \A m \in (Len(ns) + 1)..Len(ns2) : ns2[m].parent = n \/ ns2[m].parent > Len(ns)

LEMMA TreeFacts ==
    ASSUME NEW ns, IsTree(ns)
    PROVE  /\ Len(ns) \in Nat /\ DOMAIN ns = 1..Len(ns)
           /\ \A n : KidsOf(ns, n) \subseteq (n + 1)..Len(ns)
<1>1. Len(ns) \in Nat /\ DOMAIN ns = 1..Len(ns)
  BY DEF IsTree
<1>2. ASSUME NEW n, NEW m \in KidsOf(ns, n) PROVE m \in (n + 1)..Len(ns)
  BY <1>1, <1>2 DEF KidsOf, IsTree
<1> QED BY <1>1, <1>2

LEMMA Stays == ASSUME NEW ns, IsTree(ns), NEW n PROVE Grows(ns, ns, n)
BY TreeFacts DEF Grows

LEMMA AddedFacts ==
    ASSUME NEW ns, IsTree(ns), NEW p \in 0..Len(ns), NEW id, NEW attr
    PROVE  LET new == Added(ns, p, id, attr)
           IN /\ IsTree(new) /\ Len(new) = Len(ns) + 1
              /\ \A m \in 1..Len(ns) : new[m] = ns[m]
              /\ new[Len(ns) + 1].id = id /\ new[Len(ns) + 1].parent = p
<1> DEFINE r == [id |-> id, attr |-> attr, parent |-> p]
           new == Append(ns, r)
<1>1. Len(ns) \in Nat
  BY TreeFacts
<1>2. ns \in Seq(Range(ns) \cup {r})
  BY DEF IsTree
<1>3. /\ new \in Seq(Range(ns) \cup {r}) /\ Len(new) = Len(ns) + 1
      /\ \A m \in 1..Len(ns) : new[m] = ns[m]
      /\ new[Len(ns) + 1] = r
  BY <1>2
<1>4. r.id = id /\ r.parent = p
  OBVIOUS
<1> HIDE DEF r, new
<1>5. new \in Seq(Range(new))
  <2>1. DOMAIN new = 1..Len(new) /\ Len(new) \in Nat
    BY <1>3
  <2>2. \A m \in 1..Len(new) : new[m] \in Range(new)
    BY <2>1 DEF Range
  <2>3. \A S, T : \A s \in Seq(S) : (\A m \in 1..Len(s) : s[m] \in T) => s \in Seq(T)
    OBVIOUS
  <2> QED BY <1>3, <2>2, <2>3
<1>6. ASSUME NEW n \in 1..Len(new) PROVE new[n].parent \in 0..(n - 1)
  <2>1. CASE n \in 1..Len(ns)
    BY <1>3, <2>1 DEF IsTree
  <2>2. CASE n = Len(ns) + 1
    BY <1>1, <1>3, <1>4, <2>2
  <2> QED BY <1>1, <1>3, <2>1, <2>2
<1> QED BY <1>3, <1>4, <1>5, <1>6 DEF Added, r, new, IsTree

LEMMA GrowsMore ==
    ASSUME NEW ns, NEW ns2, NEW n \in 1..Len(ns), Grows(ns, ns2, n), NEW id, NEW attr,
           NEW p \in {n} \cup (Len(ns) + 1)..Len(ns2)
    PROVE  Grows(ns, Added(ns2, p, id, attr), n)
<1> DEFINE new == Added(ns2, p, id, attr)
<1>1. Len(ns) \in Nat /\ Len(ns2) \in Nat /\ IsTree(ns2) /\ IsTree(ns) /\ Len(ns) <= Len(ns2)
  BY TreeFacts DEF Grows
<1>2. p \in 0..Len(ns2)
  BY <1>1
<1>3. /\ IsTree(new) /\ Len(new) = Len(ns2) + 1
      /\ \A m \in 1..Len(ns2) : new[m] = ns2[m]
      /\ new[Len(ns2) + 1].parent = p
  BY <1>1, <1>2, AddedFacts
<1> HIDE DEF new
<1>4. \A m \in 1..Len(ns) : new[m] = ns[m]
  BY <1>1, <1>3 DEF Grows
<1>5. ASSUME NEW m \in (Len(ns) + 1)..Len(new) PROVE new[m].parent = n \/ new[m].parent > Len(ns)
  <2>1. CASE m <= Len(ns2)
    BY <1>1, <1>3, <2>1 DEF Grows
  <2>2. CASE m = Len(ns2) + 1
    BY <1>1, <1>3, <2>2
  <2> QED BY <1>1, <1>3, <2>1, <2>2
<1> QED BY <1>1, <1>3, <1>4, <1>5 DEF Grows, new

(* The children of the new node, of its parent and of all others. *)
LEMMA NewKid ==
    ASSUME NEW ns, IsTree(ns), NEW p \in 1..Len(ns), NEW id, NEW attr, NEW new,
           new = Added(ns, p, id, attr)
    PROVE  /\ KidsOf(new, Len(ns) + 1) = {}
           /\ KidsOf(new, p) = KidsOf(ns, p) \cup {Len(ns) + 1}
           /\ \A n \in 1..Len(ns) : n # p => KidsOf(new, n) = KidsOf(ns, n)
<1>1. /\ IsTree(new) /\ Len(new) = Len(ns) + 1 /\ Len(ns) \in Nat /\ \A m \in 1..Len(ns) : new[m] = ns[m]
      /\ new[Len(ns) + 1].parent = p
  <2>1. p \in 0..Len(ns)
    BY TreeFacts
  <2> QED BY <2>1, AddedFacts, TreeFacts
<1>2. DOMAIN ns = 1..Len(ns) /\ DOMAIN new = 1..(Len(ns) + 1)
  BY <1>1, TreeFacts
<1>3. KidsOf(new, Len(ns) + 1) = {}
  BY <1>1, TreeFacts
<1>4. ASSUME NEW n \in 1..Len(ns), NEW m
      PROVE  m \in KidsOf(new, n) <=> m \in KidsOf(ns, n) \/ (n = p /\ m = Len(ns) + 1)
  <2>1. CASE m \in 1..Len(ns)
    BY <1>1, <1>2, <2>1 DEF KidsOf
  <2>2. CASE m = Len(ns) + 1
    BY <1>1, <1>2, <2>2 DEF KidsOf
  <2>3. CASE m \notin 1..(Len(ns) + 1)
    BY <1>1, <1>2, <2>3 DEF KidsOf
  <2> QED BY <1>1, <2>1, <2>2, <2>3
<1> QED BY <1>3, <1>4

(* The nodes that were there keep their children, but n. *)
LEMMA OldKids ==
    ASSUME NEW ns, NEW ns2, NEW n \in 1..Len(ns), Grows(ns, ns2, n), NEW m \in 1..Len(ns), m # n
    PROVE  KidsOf(ns2, m) = KidsOf(ns, m)
<1>1. /\ IsTree(ns) /\ IsTree(ns2) /\ Len(ns) \in Nat /\ Len(ns2) \in Nat /\ Len(ns) <= Len(ns2)
      /\ DOMAIN ns = 1..Len(ns) /\ DOMAIN ns2 = 1..Len(ns2)
  BY TreeFacts DEF Grows
<1>2. ASSUME NEW k PROVE k \in KidsOf(ns2, m) <=> k \in KidsOf(ns, m)
  <2>1. CASE k \in 1..Len(ns)
    BY <1>1, <2>1 DEF KidsOf, Grows
  <2>2. CASE k \in (Len(ns) + 1)..Len(ns2)
    <3>1. ns2[k].parent # m
      BY <1>1, <2>2 DEF Grows
    <3> QED BY <1>1, <2>2, <3>1 DEF KidsOf
  <2> QED BY <1>1, <2>1, <2>2 DEF KidsOf
<1> QED BY <1>2

(* What is said of children depends on nothing else. *)
LEMMA SameKids ==
    ASSUME NEW ns, NEW ns2, NEW n, KidsOf(ns2, n) = KidsOf(ns, n), \A m \in KidsOf(ns, n) : ns2[m] = ns[m]
    PROVE  /\ \A k : HasKids(ns, n, k) => HasKids(ns2, n, k)
           /\ \A S : KidsIn(ns2, n, S) <=> KidsIn(ns, n, S)
           /\ VariablesFirst(ns2, n) <=> VariablesFirst(ns, n)
<1>1. \A S : KidsIn(ns2, n, S) <=> KidsIn(ns, n, S)
  BY DEF KidsIn
<1>2. VariablesFirst(ns2, n) <=> VariablesFirst(ns, n)
  BY <1>1 DEF VariablesFirst
<1>3. ASSUME NEW k, HasKids(ns, n, k) PROVE HasKids(ns2, n, k)
  <2>1. PICK c \in [DOMAIN k -> KidsOf(ns, n)] :
            /\ KidsOf(ns, n) = {c[i] : i \in DOMAIN k}
            /\ \A i \in DOMAIN k : ns[c[i]].id = k[i]
            /\ \A i, j \in DOMAIN k : i < j => c[i] < c[j]
    BY <1>3 DEF HasKids
  <2>2. \A i \in DOMAIN k : ns2[c[i]].id = k[i]
    BY <2>1
  <2> QED BY <2>1, <2>2 DEF HasKids
<1> QED BY <1>1, <1>2, <1>3

(* One child more. *)
LEMMA OneMore ==
    ASSUME NEW ns, IsTree(ns), NEW p \in 1..Len(ns), NEW id, NEW attr, NEW new,
           new = Added(ns, p, id, attr)
    PROVE  /\ \A k \in Seq({"expr", "body"}) : HasKids(ns, p, k) => HasKids(new, p, Append(k, id))
           /\ \A S : KidsIn(ns, p, S) /\ id \in S => KidsIn(new, p, S)
           /\ \A S : id \notin S \/ ~KidsIn(ns, p, S) => ~KidsIn(new, p, S)
           /\ VariablesFirst(ns, p) /\ id \in ItemIds => VariablesFirst(new, p)
           /\ KidsIn(ns, p, {"variable"}) /\ id = "variable" => VariablesFirst(new, p)
           /\ id = "body" => HasBody(new, p) /\ LastKid(new, p) = Len(ns) + 1
<1> DEFINE f == Len(ns) + 1
<1>1. /\ Len(ns) \in Nat /\ Len(new) = f /\ new[f].id = id /\ \A m \in 1..Len(ns) : new[m] = ns[m]
      /\ KidsOf(ns, p) \subseteq 1..Len(ns)
  <2>1. p \in 0..Len(ns)
    BY TreeFacts
  <2> QED BY <2>1, AddedFacts, TreeFacts
<1>2. KidsOf(new, p) = KidsOf(ns, p) \cup {f}
  BY NewKid
<1>3. \A m \in KidsOf(ns, p) : new[m] = ns[m] /\ m < f
  BY <1>1
<1>0. f \in Nat
  BY <1>1
<1> HIDE DEF f
<1>4. ASSUME NEW k \in Seq({"expr", "body"}), HasKids(ns, p, k) PROVE HasKids(new, p, Append(k, id))
  <2>1. PICK c \in [DOMAIN k -> KidsOf(ns, p)] :
            /\ KidsOf(ns, p) = {c[i] : i \in DOMAIN k}
            /\ \A i \in DOMAIN k : ns[c[i]].id = k[i]
            /\ \A i, j \in DOMAIN k : i < j => c[i] < c[j]
    BY <1>4 DEF HasKids
  <2> DEFINE n == Len(k)
             k2 == Append(k, id)
             c2 == [i \in 1..(n + 1) |-> IF i <= n THEN c[i] ELSE f]
  <2>2. n \in Nat /\ DOMAIN k = 1..n
    OBVIOUS
  <2>3. k \in Seq({"expr", "body", id})
    BY <1>4
  <2>4. DOMAIN k2 = 1..(n + 1) /\ k2[n + 1] = id /\ \A i \in 1..n : k2[i] = k[i]
    BY <2>2, <2>3
  <2>5. /\ \A i \in 1..n : c2[i] = c[i] /\ c[i] \in KidsOf(ns, p)
        /\ c2[n + 1] = f /\ c2 \in [1..(n + 1) -> KidsOf(new, p)]
    BY <1>2, <2>1, <2>2
  <2> HIDE DEF n, k2, c2
  <2>6. KidsOf(new, p) = {c2[i] : i \in DOMAIN k2}
    <3>1. ASSUME NEW m \in KidsOf(new, p) PROVE \E i \in 1..(n + 1) : m = c2[i]
      <4>1. CASE m = f
        BY <2>2, <2>5, <4>1
      <4>2. CASE m \in KidsOf(ns, p)
        <5>1. PICK i \in 1..n : m = c[i]
          BY <2>1, <2>2, <4>2
        <5>2. i \in 1..(n + 1) /\ m = c2[i]
          BY <2>2, <2>5, <5>1
        <5> QED BY <5>2
      <4> QED BY <1>2, <3>1, <4>1, <4>2
    <3>2. \A i \in 1..(n + 1) : c2[i] \in KidsOf(new, p)
      BY <2>5
    <3> QED BY <2>4, <3>1, <3>2
  <2>7. ASSUME NEW i \in 1..(n + 1) PROVE new[c2[i]].id = k2[i]
    <3>1. CASE i \in 1..n
      BY <1>3, <2>1, <2>2, <2>4, <2>5, <3>1
    <3>2. CASE i = n + 1
      BY <1>1, <2>4, <2>5, <3>2
    <3> QED BY <2>2, <3>1, <3>2
  <2>8. ASSUME NEW i \in 1..(n + 1), NEW j \in 1..(n + 1), i < j PROVE c2[i] < c2[j]
    <3>1. i \in 1..n
      BY <2>2, <2>8
    <3>2. CASE j \in 1..n
      BY <2>1, <2>2, <2>5, <2>8, <3>1, <3>2
    <3>3. CASE j = n + 1
      BY <1>3, <2>5, <3>1, <3>3
    <3> QED BY <2>2, <3>2, <3>3
  <2> QED BY <2>4, <2>5, <2>6, <2>7, <2>8 DEF HasKids, k2
<1>5. ASSUME NEW S, KidsIn(ns, p, S), id \in S PROVE KidsIn(new, p, S)
  BY <1>1, <1>2, <1>3, <1>5 DEF KidsIn
<1>6. ASSUME NEW S, id \notin S \/ ~KidsIn(ns, p, S) PROVE ~KidsIn(new, p, S)
  BY <1>1, <1>2, <1>3, <1>6 DEF KidsIn
<1>7. ASSUME VariablesFirst(ns, p), id \in ItemIds PROVE VariablesFirst(new, p)
  <2>1. KidsIn(new, p, {"variable"} \cup ItemIds)
    BY <1>5, <1>7 DEF VariablesFirst
  <2>2. id # "variable"
    BY <1>7 DEF ItemIds
  <2>3. ASSUME NEW l \in KidsOf(new, p), NEW m \in KidsOf(new, p), l < m, new[m].id = "variable"
        PROVE  new[l].id = "variable"
    <3>1. m \in KidsOf(ns, p) /\ m < f
      BY <1>1, <1>2, <1>3, <2>2, <2>3
    <3>2. l \in KidsOf(ns, p)
      BY <1>0, <1>1, <1>2, <2>3, <3>1
    <3> QED BY <1>3, <1>7, <2>3, <3>1, <3>2 DEF VariablesFirst
  <2> QED BY <2>1, <2>3 DEF VariablesFirst
<1>8. ASSUME KidsIn(ns, p, {"variable"}), id = "variable" PROVE VariablesFirst(new, p)
  <2>1. KidsIn(new, p, {"variable"})
    BY <1>5, <1>8
  <2> QED BY <2>1 DEF VariablesFirst, KidsIn
<1>9. ASSUME id = "body" PROVE HasBody(new, p) /\ LastKid(new, p) = f
  <2>1. f \in KidsOf(new, p) /\ \A m \in KidsOf(new, p) : m <= f /\ m \in Int
    BY <1>0, <1>1, <1>2, <1>3
  <2>2. HasBody(new, p)
    BY <1>1, <1>9, <2>1 DEF HasBody
  <2>3. LastKid(new, p) = f
    BY <1>0, <2>1, MaxIs DEF LastKid
  <2> QED BY <2>2, <2>3
<1> QED BY <1>4, <1>5, <1>6, <1>7, <1>8, <1>9 DEF f

LEMMA NoKids ==
    ASSUME NEW ns, NEW n, KidsOf(ns, n) = {}
    PROVE  /\ HasKids(ns, n, <<>>) /\ VariablesFirst(ns, n)
           /\ \A S : KidsIn(ns, n, S)
           /\ \A l, m \in KidsOf(ns, n) : l = m
<1>1. <<>> \in [DOMAIN <<>> -> {}]
  OBVIOUS
<1>2. DOMAIN <<>> = {}
  OBVIOUS
<1> QED BY <1>1, <1>2 DEF HasKids, VariablesFirst, KidsIn

-----------------------------------------------------------------------------
(* The C stack.                                                             *)

(* The calls that take the place of the top of the stack ct fit on the rest. *)
Fits(ns, ns2, ct, calls) ==
    /\ calls \in Seq([at : Labels, node : 1..Len(ns2)])
    /\ \A i \in 1..Len(calls) :
          /\ ns2[calls[i].node].id \in Given(calls[i].at)
          /\ \/ calls[i].node > ct[1].node
             \/ calls[i].node = ct[1].node /\ Later(ct[1].at) \subseteq Later(calls[i].at)
          /\ calls[i].node \in 1..Len(ns) /\ calls[i].node # ct[1].node => ns[calls[i].node].id = "body"
    /\ \A i, j \in 1..Len(calls) : i < j =>
          \/ calls[j].node < calls[i].node
          \/ calls[j].node = calls[i].node /\ calls[j].at \in Later(calls[i].at)

LEMMA FrameFacts ==
    ASSUME NEW ns, NEW ct, IsStack(ns, ct)
    PROVE  \A i \in 1..Len(ct) : ct[i] \in [at : Labels, node : 1..Len(ns)] /\ ct[i].node \in 1..Len(ns)
<1> DEFINE F == [at : Labels, node : 1..Len(ns)]
<1>1. ct \in Seq(F)
  BY DEF IsStack
<1>2. \A r \in F : r.node \in 1..Len(ns)
  OBVIOUS
<1> HIDE DEF F
<1>3. \A i \in 1..Len(ct) : ct[i] \in F
  BY <1>1
<1> QED BY <1>2, <1>3 DEF F

LEMMA StackFacts ==
    ASSUME NEW ns, NEW ct, IsTree(ns), IsStack(ns, ct), ct # <<>>
    PROVE  /\ Len(ct) \in Nat \ {0} /\ DOMAIN ct = 1..Len(ct) /\ 1 \in 1..Len(ct)
           /\ ct[1].node \in 1..Len(ns) /\ ns[ct[1].node].id \in Given(ct[1].at)
           /\ \A i \in 2..Len(ct) : /\ i \in 1..Len(ct) /\ ct[i].node \in 1..Len(ns)
                                    /\ \/ ct[i].node < ct[1].node
                                       \/ ct[i].node = ct[1].node /\ ct[i].at \in Later(ct[1].at)
<1>1. Len(ct) \in Nat \ {0} /\ DOMAIN ct = 1..Len(ct) /\ 1 \in 1..Len(ct)
  BY DEF IsStack
<1>2. \A i \in 1..Len(ct) : ct[i].node \in 1..Len(ns)
  BY FrameFacts
<1>3. ns[ct[1].node].id \in Given(ct[1].at)
  BY <1>1 DEF IsStack
<1>4. \A i \in 2..Len(ct) : i \in 1..Len(ct) /\ 1 < i
  BY <1>1
<1> QED BY <1>1, <1>2, <1>3, <1>4 DEF IsStack

(* Where the elements of the new stack come from. *)
LEMMA Stacked ==
    ASSUME NEW F, NEW ct \in Seq(F), ct # <<>>, NEW calls \in Seq(F)
    PROVE  LET ct2 == calls \o Tail(ct)
               n == Len(calls)
           IN /\ ct2 \in Seq(F) /\ n \in Nat /\ Len(ct) \in Nat /\ Len(ct2) = n + Len(ct) - 1
              /\ \A i \in 1..n : ct2[i] = calls[i]
              /\ \A i \in (n + 1)..(n + Len(ct) - 1) :
                    /\ i - n + 1 \in 2..Len(ct) /\ ct2[i] = ct[i - n + 1]
              /\ \A i \in 2..Len(ct) : i + n - 1 \in (n + 1)..(n + Len(ct) - 1) /\ ct2[i + n - 1] = ct[i]
<1> DEFINE t == Tail(ct)
           n == Len(calls)
           ct2 == calls \o t
<1>1. /\ t \in Seq(F) /\ Len(ct) \in Nat \ {0} /\ Len(t) = Len(ct) - 1 /\ n \in Nat
      /\ \A i \in 1..Len(t) : t[i] = ct[i + 1]
  OBVIOUS
<1> HIDE DEF t
<1>2. /\ ct2 \in Seq(F) /\ Len(ct2) = n + Len(t)
      /\ \A i \in 1..n : ct2[i] = calls[i]
      /\ \A i \in (n + 1)..(n + Len(t)) : ct2[i] = t[i - n]
  BY <1>1
<1> HIDE DEF n, ct2
<1>3. ASSUME NEW i \in (n + 1)..(n + Len(ct) - 1)
      PROVE  i - n + 1 \in 2..Len(ct) /\ ct2[i] = ct[i - n + 1]
  <2>1. i \in (n + 1)..(n + Len(t)) /\ i - n \in 1..Len(t) /\ i - n + 1 \in 2..Len(ct)
    BY <1>1
  <2> QED BY <1>1, <1>2, <2>1
<1>4. ASSUME NEW i \in 2..Len(ct)
      PROVE  i + n - 1 \in (n + 1)..(n + Len(ct) - 1) /\ ct2[i + n - 1] = ct[i]
  <2> DEFINE j == i + n - 1
  <2>1. j \in (n + 1)..(n + Len(ct) - 1) /\ j - n + 1 = i
    BY <1>1
  <2> HIDE DEF j
  <2>2. ct2[j] = ct[i]
    BY <1>3, <2>1
  <2> QED BY <2>1, <2>2 DEF j
<1>5. Len(ct2) = n + Len(ct) - 1
  BY <1>1, <1>2
<1> QED BY <1>1, <1>2, <1>3, <1>4, <1>5 DEF ct2, n, t

LEMMA StackStep ==
    ASSUME NEW ns, NEW ns2, NEW ct, ct # <<>>, IsTree(ns), IsStack(ns, ct),
           Grows(ns, ns2, ct[1].node), NEW calls, Fits(ns, ns2, ct, calls)
    PROVE  IsStack(ns2, calls \o Tail(ct))
<1> DEFINE F == [at : Labels, node : 1..Len(ns2)]
           n == Len(calls)
           ct2 == calls \o Tail(ct)
<1>0. Len(ns) \in Nat /\ Len(ns2) \in Nat /\ Len(ns) <= Len(ns2) /\ \A m \in 1..Len(ns) : m \in 1..Len(ns2) /\ ns2[m] = ns[m]
  BY TreeFacts DEF Grows
<1>1. ct \in Seq(F) /\ calls \in Seq(F)
  <2> DEFINE G == [at : Labels, node : 1..Len(ns)]
  <2>1. ct \in Seq(G) /\ calls \in Seq(F)
    BY DEF IsStack, Fits
  <2>2. 1..Len(ns) \subseteq 1..Len(ns2)
    BY <1>0
  <2>3. G \subseteq F
    BY <2>2
  <2> HIDE DEF F, G
  <2> QED BY <2>1, <2>3
<1>2. /\ ct2 \in Seq(F) /\ n \in Nat /\ Len(ct) \in Nat /\ Len(ct2) = n + Len(ct) - 1
      /\ \A i \in 1..n : ct2[i] = calls[i]
      /\ \A i \in (n + 1)..(n + Len(ct) - 1) : i - n + 1 \in 2..Len(ct) /\ ct2[i] = ct[i - n + 1]
  <2> HIDE DEF F
  <2> QED BY <1>1, Stacked
<1> HIDE DEF n, ct2
<1>3. /\ Len(ct) # 0 /\ ct[1].node \in 1..Len(ns)
      /\ \A i \in 2..Len(ct) : /\ i \in 1..Len(ct) /\ ct[i].node \in 1..Len(ns)
                               /\ \/ ct[i].node < ct[1].node
                                  \/ ct[i].node = ct[1].node /\ ct[i].at \in Later(ct[1].at)
  BY StackFacts
<1>4. ASSUME NEW i \in 1..Len(ct2) PROVE ns2[ct2[i].node].id \in Given(ct2[i].at)
  <2>1. CASE i \in 1..n
    BY <1>2, <2>1 DEF Fits, n
  <2>2. CASE i \in (n + 1)..(n + Len(ct) - 1)
    <3> DEFINE k == i - n + 1
    <3>1. k \in 2..Len(ct) /\ ct2[i] = ct[k]
      BY <1>2, <2>2
    <3> HIDE DEF k
    <3>2. k \in 1..Len(ct) /\ ct[k].node \in 1..Len(ns) /\ ns[ct[k].node].id \in Given(ct[k].at)
      BY <1>3, <3>1 DEF IsStack
    <3> QED BY <1>0, <3>1, <3>2
  <2> QED BY <1>2, <2>1, <2>2
<1>5. ASSUME NEW i \in 1..Len(ct2), NEW j \in 1..Len(ct2), i < j
      PROVE  ct2[j].node < ct2[i].node \/ (ct2[j].node = ct2[i].node /\ ct2[j].at \in Later(ct2[i].at))
  <2>1. CASE j \in 1..n
    <3>1. i \in 1..n
      BY <1>2, <1>5, <2>1
    <3> QED BY <1>2, <1>5, <2>1, <3>1 DEF Fits, n
  <2>2. CASE j \in (n + 1)..(n + Len(ct) - 1)
    <3> DEFINE k == j - n + 1
    <3>1. k \in 2..Len(ct) /\ ct2[j] = ct[k]
      BY <1>2, <2>2
    <3>2. CASE i \in 1..n
      <4>1. /\ ct2[i].node \in Int
            /\ ct2[i].node > ct[1].node \/ (ct2[i].node = ct[1].node /\ Later(ct[1].at) \subseteq Later(ct2[i].at))
        <5>1. ct2[i] = calls[i] /\ i \in 1..Len(calls)
          BY <1>2, <3>2 DEF n
        <5>2. calls[i].node \in 1..Len(ns2)
          <6>1. calls \in Seq(F)
            BY <1>1
          <6>2. \A r \in F : r.node \in 1..Len(ns2)
            OBVIOUS
          <6> HIDE DEF F
          <6>3. calls[i] \in F
            BY <5>1, <6>1
          <6> QED BY <6>2, <6>3
        <5> QED BY <1>0, <5>1, <5>2 DEF Fits
      <4> HIDE DEF k
      <4>2. ct[1].node \in Int /\ ct[k].node \in Int
        BY <1>0, <1>3, <3>1
      <4>3. ct[k].node < ct[1].node \/ (ct[k].node = ct[1].node /\ ct[k].at \in Later(ct[1].at))
        BY <1>3, <3>1
      <4> QED BY <3>1, <4>1, <4>2, <4>3
    <3>3. CASE i \in (n + 1)..(n + Len(ct) - 1)
      <4> DEFINE h == i - n + 1
      <4>1. h \in 2..Len(ct) /\ ct2[i] = ct[h]
        BY <1>2, <3>3
      <4>3. i \in Int /\ j \in Int /\ n \in Int
        BY <1>2, <2>2, <3>3
      <4>4. h < k
        BY <1>5, <4>3
      <4> HIDE DEF h, k
      <4>2. h \in 1..Len(ct) /\ k \in 1..Len(ct) /\ h < k
        BY <1>2, <3>1, <4>1, <4>4
      <4> QED BY <3>1, <4>1, <4>2 DEF IsStack
    <3> QED BY <1>2, <3>2, <3>3
  <2> QED BY <1>2, <2>1, <2>2
<1> QED BY <1>2, <1>4, <1>5 DEF IsStack, ct2

(* Who works on a node in the new stack: the new calls, or what was below. *)
LEMMA OpenStep ==
    ASSUME NEW ns, NEW ct, ct # <<>>, IsTree(ns), IsStack(ns, ct),
           NEW F, ct \in Seq(F), NEW calls \in Seq(F), NEW m, NEW f
    PROVE  /\ Open(calls \o Tail(ct), m, f) <=> Open(calls, m, f) \/ Open(Tail(ct), m, f)
           /\ Open(ct, m, f) <=> (ct[1].node = m /\ ct[1].at = f) \/ Open(Tail(ct), m, f)
           /\ Open(Tail(ct), m, f) => m \in 1..Len(ns) /\ m <= ct[1].node
           /\ Open(Tail(ct), ct[1].node, f) => f \in Later(ct[1].at)
<1> DEFINE n == Len(calls)
           ct2 == calls \o Tail(ct)
           t == Tail(ct)
<1>1. /\ n \in Nat /\ Len(ct) \in Nat /\ Len(ct2) = n + Len(ct) - 1
      /\ \A i \in 1..n : ct2[i] = calls[i]
      /\ \A i \in (n + 1)..(n + Len(ct) - 1) : i - n + 1 \in 2..Len(ct) /\ ct2[i] = ct[i - n + 1]
      /\ \A i \in 2..Len(ct) : i + n - 1 \in (n + 1)..(n + Len(ct) - 1) /\ ct2[i + n - 1] = ct[i]
  BY Stacked
<1>2. /\ Len(ct) # 0 /\ ct[1].node \in 1..Len(ns) /\ Len(ns) \in Nat
      /\ \A i \in 2..Len(ct) : /\ ct[i].node \in 1..Len(ns)
                               /\ \/ ct[i].node < ct[1].node
                                  \/ ct[i].node = ct[1].node /\ ct[i].at \in Later(ct[1].at)
  BY StackFacts, TreeFacts
<1>3. Len(t) = Len(ct) - 1 /\ \A i \in 1..Len(t) : t[i] = ct[i + 1]
  BY <1>1
<1> HIDE DEF ct2, t, n
<1>4. ASSUME NEW q PROVE Open(t, q, f) <=> \E i \in 2..Len(ct) : ct[i].node = q /\ ct[i].at = f
  <2>1. ASSUME NEW i \in 1..Len(t), t[i].node = q, t[i].at = f
        PROVE  \E j \in 2..Len(ct) : ct[j].node = q /\ ct[j].at = f
    <3>1. i + 1 \in 2..Len(ct) /\ t[i] = ct[i + 1]
      BY <1>1, <1>3
    <3> QED BY <2>1, <3>1
  <2>2. ASSUME NEW i \in 2..Len(ct), ct[i].node = q, ct[i].at = f
        PROVE  \E j \in 1..Len(t) : t[j].node = q /\ t[j].at = f
    <3>1. i - 1 \in 1..Len(t) /\ (i - 1) + 1 = i
      BY <1>1, <1>3
    <3>2. t[i - 1] = ct[i]
      BY <1>3, <3>1
    <3> QED BY <2>2, <3>1, <3>2
  <2> QED BY <2>1, <2>2 DEF Open
<1>5. Open(ct2, m, f) <=> Open(calls, m, f) \/ Open(t, m, f)
  <2>1. ASSUME NEW i \in 1..Len(ct2), ct2[i].node = m, ct2[i].at = f
        PROVE  Open(calls, m, f) \/ Open(t, m, f)
    <3>1. CASE i \in 1..n
      BY <1>1, <2>1, <3>1 DEF Open, n
    <3>2. CASE i \in (n + 1)..(n + Len(ct) - 1)
      BY <1>1, <1>4, <2>1, <3>2
    <3> QED BY <1>1, <3>1, <3>2
  <2>2. ASSUME NEW i \in 1..n, calls[i].node = m, calls[i].at = f PROVE Open(ct2, m, f)
    <3>1. i \in 1..Len(ct2)
      BY <1>1, <1>2
    <3> QED BY <1>1, <2>2, <3>1 DEF Open
  <2>3. ASSUME NEW i \in 2..Len(ct), ct[i].node = m, ct[i].at = f PROVE Open(ct2, m, f)
    <3> DEFINE j == i + n - 1
    <3>1. j \in 1..Len(ct2) /\ ct2[j] = ct[i]
      BY <1>1
    <3> HIDE DEF j
    <3> QED BY <2>3, <3>1 DEF Open
  <2> QED BY <1>4, <2>1, <2>2, <2>3 DEF Open, n
<1>6. Open(ct, m, f) <=> (ct[1].node = m /\ ct[1].at = f) \/ Open(t, m, f)
  <2>1. \A i \in 1..Len(ct) : i = 1 \/ i \in 2..Len(ct)
    BY <1>1
  <2>2. 1 \in 1..Len(ct) /\ \A i \in 2..Len(ct) : i \in 1..Len(ct)
    BY <1>1, <1>2
  <2> QED BY <1>4, <2>1, <2>2 DEF Open
<1>7. Open(t, m, f) => m \in 1..Len(ns) /\ m <= ct[1].node
  BY <1>2, <1>4
<1>8. Open(t, ct[1].node, f) => f \in Later(ct[1].at)
  BY <1>2, <1>4
<1> QED BY <1>5, <1>6, <1>7, <1>8 DEF ct2, t

LEMMA NeverLater == \A f : "func_body" \notin Later(f)
BY DEF Later

LEMMA BodiesStep ==
    ASSUME NEW ns, NEW ns2, NEW ct, NEW fd, NEW fd2, ct # <<>>, IsTree(ns), IsStack(ns, ct),
           Grows(ns, ns2, ct[1].node), NEW F, ct \in Seq(F), NEW calls \in Seq(F),
           BodiesOpen(ns, ct, fd),
           \A i \in 1..Len(calls) : calls[i].at = "func_body" /\ ~(i = 1 /\ fd2) => HasBody(ns2, calls[i].node)
    PROVE  BodiesOpen(ns2, calls \o Tail(ct), fd2)
<1> DEFINE n == Len(calls)
           ct2 == calls \o Tail(ct)
<1>1. /\ n \in Nat /\ Len(ct) \in Nat /\ Len(ct2) = n + Len(ct) - 1
      /\ \A i \in 1..n : ct2[i] = calls[i]
      /\ \A i \in (n + 1)..(n + Len(ct) - 1) : i - n + 1 \in 2..Len(ct) /\ ct2[i] = ct[i - n + 1]
  BY Stacked
<1> HIDE DEF ct2
<1>2. ASSUME NEW i \in 1..Len(ct2), ct2[i].at = "func_body", ~(i = 1 /\ fd2)
      PROVE  HasBody(ns2, ct2[i].node)
  <2>1. CASE i \in 1..n
    BY <1>1, <1>2, <2>1
  <2>2. CASE i \in (n + 1)..(n + Len(ct) - 1)
    <3> DEFINE k == i - n + 1
    <3>1. k \in 2..Len(ct) /\ ct2[i] = ct[k]
      BY <1>1, <2>2
    <3> HIDE DEF k, n
    <3>2. k # 1 /\ k \in 1..Len(ct) /\ ct[k].node \in 1..Len(ns) /\ ct[1].node \in 1..Len(ns)
      BY <1>1, <3>1, StackFacts
    <3>3. ct[k].node < ct[1].node
      BY <1>2, <3>1, StackFacts, NeverLater
    <3>4. ct[k].node # ct[1].node
      BY <3>2, <3>3, TreeFacts
    <3>5. HasBody(ns, ct[k].node)
      BY <1>2, <3>1, <3>2 DEF BodiesOpen
    <3>6. KidsOf(ns2, ct[k].node) = KidsOf(ns, ct[k].node)
      BY <3>2, <3>4, OldKids
    <3>7. \A b \in KidsOf(ns, ct[k].node) : ns2[b] = ns[b]
      BY TreeFacts DEF Grows, KidsOf
    <3> QED BY <3>1, <3>5, <3>6, <3>7 DEF HasBody
  <2> QED BY <1>1, <2>1, <2>2
<1> QED BY <1>2 DEF BodiesOpen, ct2

(* A node the top of the stack does not work on keeps its shape. *)
LEMMA ShapeStep ==
    ASSUME NEW ns, NEW ns2, NEW ct, NEW fd, NEW fd2, ct # <<>>, IsTree(ns), IsStack(ns, ct),
           Grows(ns, ns2, ct[1].node), NEW calls, Fits(ns, ns2, ct, calls),
           NEW F, ct \in Seq(F), calls \in Seq(F), fd2 => calls # <<>>,
           NEW m \in 1..Len(ns), m # ct[1].node, Shape(ns, ct, fd, m)
    PROVE  Shape(ns2, calls \o Tail(ct), fd2, m)
<1> DEFINE ct2 == calls \o Tail(ct)
<1>1. ns2[m].id = ns[m].id /\ KidsOf(ns2, m) = KidsOf(ns, m) /\ ct[1].node \in 1..Len(ns)
  <2>1. ct[1].node \in 1..Len(ns)
    BY StackFacts
  <2> QED BY <2>1, OldKids DEF Grows
<1>2. \A b \in KidsOf(ns, m) : ns2[b] = ns[b]
  BY TreeFacts DEF Grows, KidsOf
<1>3. /\ \A k : HasKids(ns, m, k) => HasKids(ns2, m, k)
      /\ \A S : KidsIn(ns2, m, S) <=> KidsIn(ns, m, S)
      /\ VariablesFirst(ns2, m) <=> VariablesFirst(ns, m)
  BY <1>1, <1>2, SameKids
<1>4. CASE ns[m].id = "body"
  BY <1>1, <1>3, <1>4 DEF Shape
<1>5. CASE ns[m].id # "body"
  <2>1. \A i \in 1..Len(calls) : calls[i].node # m
    BY <1>5 DEF Fits
  <2>2. \A f : Open(ct2, m, f) <=> Open(ct, m, f)
    <3>1. \A f : ~Open(calls, m, f)
      BY <2>1 DEF Open
    <3>2. ASSUME NEW f PROVE Open(ct2, m, f) <=> Open(ct, m, f)
      BY <3>1, OpenStep
    <3> QED BY <3>2
  <2>3. ~Pending(ct, fd, m) /\ ~Pending(ct2, fd2, m)
    <3>1. ASSUME fd2 PROVE ct2[1].node # m
      <4>1. Len(calls) \in Nat /\ Len(calls) # 0
        BY <3>1
      <4>2. 1 \in 1..Len(calls)
        BY <4>1
      <4>3. ct2[1] = calls[1]
        BY <4>2, Stacked
      <4> QED BY <2>1, <4>2, <4>3
    <3> QED BY <3>1 DEF Pending
  <2> HIDE DEF ct2
  <2>5. Shape(ns2, ct2, fd2, m)
    BY <1>1, <1>3, <1>5, <2>2, <2>3 DEF Shape
  <2> QED BY <2>5 DEF ct2
<1> QED BY <1>4, <1>5

(* What a step has to show: that its calls fit, and the shape of the node it *)
(* works on and of the new ones.                                             *)
LEMMA GoodStep ==
    ASSUME NEW ns, NEW ns2, NEW ct, NEW fd, NEW fd2, Good(ns, ct, fd), ct # <<>>,
           Grows(ns, ns2, ct[1].node), NEW calls, Fits(ns, ns2, ct, calls),
           fd2 \in BOOLEAN, fd2 => calls # <<>> /\ calls[1].at = "func_body",
           \A i \in 1..Len(calls) : calls[i].at = "func_body" /\ ~(i = 1 /\ fd2) => HasBody(ns2, calls[i].node),
           \A m \in 1..Len(ns2) : m = ct[1].node \/ m > Len(ns) => Shape(ns2, calls \o Tail(ct), fd2, m)
    PROVE  Good(ns2, calls \o Tail(ct), fd2)
<1> DEFINE F == [at : Labels, node : 1..Len(ns2)]
           ct2 == calls \o Tail(ct)
<1>1. /\ IsTree(ns) /\ IsTree(ns2) /\ Len(ns) \in Nat /\ Len(ns2) \in Nat /\ Len(ns) <= Len(ns2)
      /\ IsStack(ns, ct) /\ BodiesOpen(ns, ct, fd) /\ \A m \in 1..Len(ns) : Shape(ns, ct, fd, m)
  BY TreeFacts DEF Good, Grows
<1>2. ct \in Seq(F) /\ calls \in Seq(F)
  <2> DEFINE G == [at : Labels, node : 1..Len(ns)]
  <2>1. ct \in Seq(G) /\ calls \in Seq(F)
    BY <1>1 DEF IsStack, Fits
  <2>2. 1..Len(ns) \subseteq 1..Len(ns2)
    BY <1>1
  <2>3. G \subseteq F
    BY <2>2
  <2> HIDE DEF F, G
  <2> QED BY <2>1, <2>3
<1> HIDE DEF F
<1>3. IsStack(ns2, ct2)
  BY <1>1, StackStep
<1>4. BodiesOpen(ns2, ct2, fd2)
  BY <1>1, <1>2, BodiesStep
<1>5. ASSUME NEW m \in 1..Len(ns2) PROVE Shape(ns2, ct2, fd2, m)
  <2>1. CASE m = ct[1].node \/ m > Len(ns)
    BY <2>1
  <2>2. CASE m \in 1..Len(ns) /\ m # ct[1].node
    BY <1>1, <1>2, <2>2, ShapeStep
  <2> QED BY <1>1, <2>1, <2>2
<1>6. Announces(ct2, fd2)
  <2>1. ASSUME fd2 PROVE ct2 # <<>> /\ ct2[1].at = "func_body"
    <3>1. Len(calls) \in Nat /\ Len(calls) # 0
      BY <1>2, <2>1
    <3>2. 1 \in 1..Len(calls)
      BY <3>1
    <3>3. ct2[1] = calls[1] /\ Len(ct2) = Len(calls) + Len(ct) - 1 /\ Len(ct) \in Nat
      BY <1>2, <3>2, Stacked
    <3>4. Len(ct) # 0
      BY <1>2
    <3> QED BY <2>1, <3>1, <3>3, <3>4
  <2> QED BY <2>1 DEF Announces
<1> QED BY <1>1, <1>3, <1>4, <1>5, <1>6 DEF Good

-----------------------------------------------------------------------------
(* One, two or three calls.                                                 *)

Call(ns, ns2, ct, f, n) ==
    /\ f \in Labels /\ n \in 1..Len(ns2) /\ ns2[n].id \in Given(f)
    /\ n > ct[1].node \/ (n = ct[1].node /\ Later(ct[1].at) \subseteq Later(f))
    /\ n \in 1..Len(ns) /\ n # ct[1].node => ns[n].id = "body"

Under(f, n, g, k) == k < n \/ (k = n /\ g \in Later(f))

Concat(s, t) == s \o t

LEMMA NoCalls ==
    ASSUME NEW ns, NEW ns2, NEW ct
    PROVE  Fits(ns, ns2, ct, <<>>) /\ \A m, h : ~Open(<<>>, m, h)
BY DEF Fits, Open

LEMMA OneCall ==
    ASSUME NEW ns, NEW ns2, NEW ct, NEW f, NEW n, Call(ns, ns2, ct, f, n), NEW c, c = To(f, n)
    PROVE  /\ Fits(ns, ns2, ct, c) /\ c # <<>> /\ Len(c) = 1 /\ c[1].at = f /\ c[1].node = n
           /\ \A m, h : Open(c, m, h) <=> m = n /\ h = f
<1> DEFINE F == [at : Labels, node : 1..Len(ns2)]
           r == [at |-> f, node |-> n]
<1>1. r \in F /\ r.at = f /\ r.node = n
  BY DEF Call
<1>2. c = <<r>>
  BY DEF To
<1> HIDE DEF r, F
<1>3. c \in Seq(F) /\ Len(c) = 1 /\ c[1] = r
  BY <1>1, <1>2
<1>4. \A i \in 1..1 : i = 1
  OBVIOUS
<1>5. Fits(ns, ns2, ct, c)
  BY <1>1, <1>3, <1>4 DEF Fits, Call, F
<1>6. \A m, h : Open(c, m, h) <=> m = n /\ h = f
  BY <1>1, <1>3, <1>4 DEF Open
<1>7. c # <<>>
  BY <1>3
<1> QED BY <1>1, <1>3, <1>5, <1>6, <1>7

LEMMA Joining ==
    ASSUME NEW F, NEW r \in F, NEW s \in Seq(F)
    PROVE  /\ <<r>> \o s \in Seq(F) /\ Len(<<r>> \o s) = Len(s) + 1 /\ (<<r>> \o s)[1] = r
           /\ \A i \in 1..Len(s) : (<<r>> \o s)[i + 1] = s[i]
<1>1. <<r>> \in Seq(F) /\ Len(<<r>>) = 1 /\ <<r>>[1] = r
  OBVIOUS
<1> DEFINE t == <<r>>
<1> HIDE DEF t
<1>2. /\ t \o s \in Seq(F) /\ Len(t \o s) = 1 + Len(s) /\ (t \o s)[1] = t[1]
      /\ \A i \in 1..Len(s) : (t \o s)[i + 1] = s[i]
  BY <1>1 DEF t
<1> QED BY <1>1, <1>2 DEF t

LEMMA TwoCalls ==
    ASSUME NEW ns, NEW ns2, NEW ct, NEW f, NEW n, Call(ns, ns2, ct, f, n),
           NEW g, NEW k, Call(ns, ns2, ct, g, k), Under(f, n, g, k), NEW c, c = Concat(To(f, n), To(g, k))
    PROVE  /\ Fits(ns, ns2, ct, c) /\ c # <<>> /\ Len(c) = 2
           /\ c[1].at = f /\ c[1].node = n /\ c[2].at = g /\ c[2].node = k
           /\ \A m, h : Open(c, m, h) <=> (m = n /\ h = f) \/ (m = k /\ h = g)
<1> DEFINE F == [at : Labels, node : 1..Len(ns2)]
           r == [at |-> f, node |-> n]
           q == [at |-> g, node |-> k]
<1>1. r \in F /\ r.at = f /\ r.node = n /\ q \in F /\ q.at = g /\ q.node = k
  BY DEF Call
<1>2. c = <<r>> \o <<q>>
  BY DEF To, Concat
<1> HIDE DEF r, q, F
<1>3. c \in Seq(F) /\ Len(c) = 2 /\ c[1] = r /\ c[2] = q
  <2>1. <<r>> \in Seq(F) /\ <<q>> \in Seq(F)
    BY <1>1
  <2>2. Len(<<q>>) = 1 /\ <<q>>[1] = q
    OBVIOUS
  <2>3. c \in Seq(F) /\ Len(c) = Len(<<q>>) + 1 /\ c[1] = r /\ \A i \in 1..Len(<<q>>) : c[i + 1] = <<q>>[i]
    BY <1>1, <1>2, <2>1, Joining
  <2> QED BY <2>2, <2>3
<1>4. \A i \in 1..2 : i = 1 \/ i = 2
  OBVIOUS
<1>5. \A i, j \in 1..2 : i < j => i = 1 /\ j = 2
  OBVIOUS
<1>6. Fits(ns, ns2, ct, c)
  <2>1. \A i \in 1..Len(c) : (c[i].at = f /\ c[i].node = n) \/ (c[i].at = g /\ c[i].node = k)
    BY <1>1, <1>3, <1>4
  <2>2. \A i, j \in 1..Len(c) : i < j => c[i].at = f /\ c[i].node = n /\ c[j].at = g /\ c[j].node = k
    BY <1>1, <1>3, <1>5
  <2> QED BY <1>3, <2>1, <2>2 DEF Fits, Call, Under, F
<1>7. \A m, h : Open(c, m, h) <=> (m = n /\ h = f) \/ (m = k /\ h = g)
  BY <1>1, <1>3, <1>4 DEF Open
<1>8. c # <<>>
  BY <1>3
<1> QED BY <1>1, <1>3, <1>6, <1>7, <1>8

LEMMA ThreeCalls ==
    ASSUME NEW ns, NEW ns2, NEW ct, NEW f, NEW n, Call(ns, ns2, ct, f, n),
           NEW g, NEW k, Call(ns, ns2, ct, g, k), Under(f, n, g, k),
           NEW e, NEW l, Call(ns, ns2, ct, e, l), Under(g, k, e, l), Under(f, n, e, l),
           NEW c, c = Concat(To(f, n), Concat(To(g, k), To(e, l)))
    PROVE  Fits(ns, ns2, ct, c) /\ Len(c) = 3 /\ c[1].at = f /\ c[2].at = g /\ c[3].at = e
<1> DEFINE F == [at : Labels, node : 1..Len(ns2)]
           r == [at |-> f, node |-> n]
           q == [at |-> g, node |-> k]
           p == [at |-> e, node |-> l]
<1>1. /\ r \in F /\ r.at = f /\ r.node = n /\ q \in F /\ q.at = g /\ q.node = k
      /\ p \in F /\ p.at = e /\ p.node = l
  BY DEF Call
<1>2. c = <<r>> \o (<<q>> \o <<p>>)
  BY DEF To, Concat
<1> HIDE DEF r, q, p, F
<1>3. c \in Seq(F) /\ Len(c) = 3 /\ c[1] = r /\ c[2] = q /\ c[3] = p
  <2>1. <<r>> \in Seq(F) /\ <<q>> \in Seq(F) /\ <<p>> \in Seq(F)
    BY <1>1
  <2>2. Len(<<p>>) = 1 /\ <<p>>[1] = p
    OBVIOUS
  <2> DEFINE d == <<q>> \o <<p>>
  <2>3. d \in Seq(F) /\ Len(d) = Len(<<p>>) + 1 /\ d[1] = q /\ \A i \in 1..Len(<<p>>) : d[i + 1] = <<p>>[i]
    BY <1>1, <2>1, Joining
  <2>4. d \in Seq(F) /\ Len(d) = 2 /\ d[1] = q /\ d[2] = p
    BY <2>2, <2>3
  <2> HIDE DEF d
  <2>5. c \in Seq(F) /\ Len(c) = Len(d) + 1 /\ c[1] = r /\ \A i \in 1..Len(d) : c[i + 1] = d[i]
    BY <1>1, <1>2, <2>4, Joining DEF d
  <2> QED BY <2>4, <2>5
<1>4. \A i \in 1..3 : i = 1 \/ i = 2 \/ i = 3
  OBVIOUS
<1>5. \A i, j \in 1..3 : i < j => (i = 1 /\ j = 2) \/ (i = 1 /\ j = 3) \/ (i = 2 /\ j = 3)
  OBVIOUS
<1>6. Fits(ns, ns2, ct, c)
  <2>1. ASSUME NEW i \in 1..Len(c)
        PROVE  \/ c[i].at = f /\ c[i].node = n
               \/ c[i].at = g /\ c[i].node = k
               \/ c[i].at = e /\ c[i].node = l
    BY <1>1, <1>3, <1>4
  <2>2. ASSUME NEW i \in 1..Len(c), NEW j \in 1..Len(c), i < j
        PROVE  \/ c[i].at = f /\ c[i].node = n /\ c[j].at = g /\ c[j].node = k
               \/ c[i].at = f /\ c[i].node = n /\ c[j].at = e /\ c[j].node = l
               \/ c[i].at = g /\ c[i].node = k /\ c[j].at = e /\ c[j].node = l
    BY <1>1, <1>3, <1>5, <2>2
  <2>3. ASSUME NEW i \in 1..Len(c)
        PROVE  /\ ns2[c[i].node].id \in Given(c[i].at)
               /\ \/ c[i].node > ct[1].node
                  \/ c[i].node = ct[1].node /\ Later(ct[1].at) \subseteq Later(c[i].at)
               /\ c[i].node \in 1..Len(ns) /\ c[i].node # ct[1].node => ns[c[i].node].id = "body"
    BY <2>1 DEF Call
  <2>4. ASSUME NEW i \in 1..Len(c), NEW j \in 1..Len(c), i < j
        PROVE  \/ c[j].node < c[i].node
               \/ c[j].node = c[i].node /\ c[j].at \in Later(c[i].at)
    BY <2>2, <2>4 DEF Under
  <2> QED BY <1>3, <2>3, <2>4 DEF Fits, F
<1> QED BY <1>1, <1>3, <1>6

-----------------------------------------------------------------------------
(* The steps.                                                               *)

Inv == Good(nodes, cont, from_func_def)

LEMMA Nodes ==
    /\ Given("program") = {"program"} /\ Given("program_body") = {"program"}
    /\ Given("func_decl_end") = {"program"} /\ Given("types") = {"program", "func_def"}
    /\ Given("constants") = {"func_call"} /\ Given("arg") = {"func_call"} /\ Given("args") = {"func_call"}
    /\ Given("params") = {"variable"} /\ Given("func_def_signature") = {"func_def"}
    /\ Given("func_def_body") = {"func_def"} /\ Given("func_def_end") = {"func_def"}
    /\ Given("func_body") = {"branch", "while", "func_def"}
    /\ Given("else") = {"branch"} /\ Given("element_end") = {"branch", "while"}
    /\ Given("ids") = {"assign"} /\ Given("item") = {"assign", "return", "var_declare"}
    /\ Given("items") = {"assign", "return"}
    /\ \A f \in OneStatement : Given(f) = {"body"}
BY DEF Given, OneStatement

LEMMA Afterwards ==
    /\ Later("types") = {"func_decl_end", "program_body", "func_def_body"}
    /\ Later("func_decl_end") = {"program_body"}
    /\ Later("func_body") = {"else", "element_end", "func_def_end"}
    /\ Later("item") = {"items"} /\ Later("arg") = {"args"}
    /\ \A f \in Labels \ {"types", "func_decl_end", "func_body", "item", "arg"} : Later(f) = {}
BY DEF Later, Labels

LEMMA TopFacts ==
    ASSUME Inv, NEW f, At(f)
    PROVE  /\ cont # <<>> /\ cont[1].at = f /\ cont[1].node = node /\ cont = To(f, node) \o Tail(cont)
           /\ IsTree(nodes) /\ Len(nodes) \in Nat /\ node \in 1..Len(nodes)
           /\ f \in Labels /\ nodes[node].id \in Given(f)
           /\ Shape(nodes, cont, from_func_def, node)
           /\ from_func_def \in BOOLEAN /\ (f # "func_body" => ~from_func_def)
           /\ \A g : Open(Tail(cont), node, g) => g \in Later(f)
           /\ \A g : Open(cont, node, g) <=> g = f \/ Open(Tail(cont), node, g)
<1>1. /\ IsTree(nodes) /\ IsStack(nodes, cont) /\ Announces(cont, from_func_def)
      /\ \A m \in 1..Len(nodes) : Shape(nodes, cont, from_func_def, m)
  BY DEF Inv, Good
<1>2. cont # <<>> /\ cont[1].at = f /\ cont[1].node = node
  BY DEF At, node
<1>3. /\ Len(nodes) \in Nat /\ Len(cont) \in Nat \ {0} /\ 1 \in 1..Len(cont)
      /\ node \in 1..Len(nodes) /\ nodes[node].id \in Given(f)
  BY <1>1, <1>2, StackFacts, TreeFacts
<1> DEFINE F == [at : Labels, node : 1..Len(nodes)]
<1>4. cont[1] \in F /\ cont \in Seq(F)
  BY <1>1, <1>3, FrameFacts DEF IsStack
<1>5. f \in Labels /\ cont[1] = [at |-> f, node |-> node]
  BY <1>2, <1>4
<1> HIDE DEF F
<1>6. cont = <<cont[1]>> \o Tail(cont)
  <2>1. cont # <<>> /\ cont \in Seq(F)
    BY <1>2, <1>4
  <2>2. <<cont[1]>> \in Seq(F) /\ Tail(cont) \in Seq(F) /\ Len(Tail(cont)) = Len(cont) - 1
    BY <1>4, <2>1
  <2> DEFINE d == <<cont[1]>> \o Tail(cont)
  <2>3. /\ d \in Seq(F) /\ Len(d) = Len(Tail(cont)) + 1 /\ d[1] = cont[1]
        /\ \A i \in 1..Len(Tail(cont)) : d[i + 1] = Tail(cont)[i]
    BY <1>4, <2>2, Joining
  <2>4. \A i \in 1..Len(Tail(cont)) : Tail(cont)[i] = cont[i + 1]
    BY <2>1
  <2>5. Len(d) = Len(cont)
    BY <1>3, <2>2, <2>3
  <2> HIDE DEF d
  <2>6. ASSUME NEW i \in 1..Len(cont) PROVE d[i] = cont[i]
    <3>1. CASE i = 1
      BY <2>3, <3>1
    <3>2. CASE i \in 2..Len(cont)
      <4>1. i - 1 \in 1..Len(Tail(cont)) /\ (i - 1) + 1 = i
        BY <1>3, <2>2, <3>2
      <4> QED BY <2>3, <2>4, <4>1
    <3> QED BY <1>3, <3>1, <3>2
  <2>7. d = cont
    BY <2>1, <2>3, <2>5, <2>6, SeqEqual
  <2> QED BY <2>7 DEF d
<1>7. cont = To(f, node) \o Tail(cont)
  BY <1>5, <1>6 DEF To
<1>8. ASSUME NEW g
      PROVE  /\ Open(Tail(cont), node, g) => g \in Later(f)
             /\ Open(cont, node, g) <=> g = f \/ Open(Tail(cont), node, g)
  <2>1. /\ Open(cont, node, g) <=> (cont[1].node = node /\ cont[1].at = g) \/ Open(Tail(cont), node, g)
        /\ Open(Tail(cont), cont[1].node, g) => g \in Later(cont[1].at)
    BY <1>1, <1>2, <1>4, OpenStep
  <2> QED BY <1>2, <2>1
<1>9. from_func_def \in BOOLEAN /\ (f # "func_body" => ~from_func_def)
  BY <1>1, <1>2 DEF Announces
<1> QED BY <1>1, <1>2, <1>3, <1>5, <1>7, <1>8, <1>9

(* What is open after a step. *)
LEMMA OpenAfter ==
    ASSUME Inv, cont # <<>>, NEW ns2, Grows(nodes, ns2, node), NEW calls, Fits(nodes, ns2, cont, calls)
    PROVE  /\ \A m, g : Open(calls \o Tail(cont), m, g) <=> Open(calls, m, g) \/ Open(Tail(cont), m, g)
           /\ \A m, g : m > Len(nodes) => ~Open(Tail(cont), m, g)
<1> DEFINE F == [at : Labels, node : 1..Len(ns2)]
           G == [at : Labels, node : 1..Len(nodes)]
<1>1. IsTree(nodes) /\ IsStack(nodes, cont) /\ Len(nodes) \in Nat /\ Len(ns2) \in Nat /\ Len(nodes) <= Len(ns2)
  BY TreeFacts DEF Inv, Good, Grows
<1>2. cont \in Seq(F) /\ calls \in Seq(F)
  <2>1. cont \in Seq(G) /\ calls \in Seq(F)
    BY <1>1 DEF IsStack, Fits
  <2>2. 1..Len(nodes) \subseteq 1..Len(ns2)
    BY <1>1
  <2>3. G \subseteq F
    BY <2>2
  <2> HIDE DEF F, G
  <2> QED BY <2>1, <2>3
<1> HIDE DEF F
<1>3. ASSUME NEW m, NEW g
      PROVE  /\ Open(calls \o Tail(cont), m, g) <=> Open(calls, m, g) \/ Open(Tail(cont), m, g)
             /\ Open(Tail(cont), m, g) => m \in 1..Len(nodes)
  BY <1>1, <1>2, OpenStep
<1>4. \A m \in 1..Len(nodes) : ~(m > Len(nodes))
  BY <1>1
<1> QED BY <1>3, <1>4

LEMMA Plain ==
    ASSUME NEW ns, NEW n, ns[n].id = "program" \/ ns[n].id = "func_def" \/ ns[n].id = "variable"
    PROVE  \A ct, fd : Shape(ns, ct, fd, n)
BY DEF Shape

LEMMA ErrorStep == ASSUME Inv, NEW c, error(c) PROVE Inv'
BY DEF Inv, error, flags

LEMMA StepInv ==
    ASSUME Inv, NEW f, At(f), Grows(nodes, nodes', node), NEW calls, cont' = calls \o Tail(cont),
           Fits(nodes, nodes', cont, calls), from_func_def' \in BOOLEAN,
           from_func_def' => calls # <<>> /\ calls[1].at = "func_body",
           \A i \in 1..Len(calls) : calls[i].at = "func_body" /\ ~(i = 1 /\ from_func_def') => HasBody(nodes', calls[i].node),
           \A m \in 1..Len(nodes') : m = node \/ m > Len(nodes) => Shape(nodes', cont', from_func_def', m)
    PROVE  Inv'
<1>1. cont # <<>> /\ cont[1].node = node
  BY TopFacts
<1> QED BY <1>1, GoodStep DEF Inv

(* A step that announces no body and leaves none open. *)
LEMMA QuietStep ==
    ASSUME Inv, NEW f, At(f), f # "func_body", Grows(nodes, nodes', node), NEW calls,
           cont' = calls \o Tail(cont), Fits(nodes, nodes', cont, calls), from_func_def' = from_func_def,
           \A i \in 1..Len(calls) : calls[i].at # "func_body",
           \A m \in 1..Len(nodes') : m = node \/ m > Len(nodes) => Shape(nodes', cont', FALSE, m)
    PROVE  Inv'
<1>1. from_func_def = FALSE
  BY TopFacts
<1> QED BY <1>1, StepInv

(* The same when the tree stays. *)
LEMMA TreeStays ==
    ASSUME Inv, NEW f, At(f), f # "func_body", nodes' = nodes, NEW calls,
           cont' = calls \o Tail(cont), Fits(nodes, nodes, cont, calls), from_func_def' = from_func_def,
           \A i \in 1..Len(calls) : calls[i].at # "func_body",
           Shape(nodes, cont', FALSE, node)
    PROVE  Inv'
<1>1. IsTree(nodes) /\ node \in 1..Len(nodes) /\ Len(nodes) \in Nat
  BY TopFacts
<1>2. Grows(nodes, nodes', node)
  BY <1>1, Stays
<1>3. \A m \in 1..Len(nodes) : ~(m > Len(nodes))
  BY <1>1
<1> QED BY <1>2, <1>3, QuietStep

LEMMA OneIndex == \A i \in 1..1 : i = 1
OBVIOUS

LEMMA TwoIndexes == \A i \in 1..2 : i = 1 \/ i = 2
OBVIOUS

LEMMA ThreeIndexes == \A i \in 1..3 : i = 1 \/ i = 2 \/ i = 3
OBVIOUS

LEMMA NoIndex == \A i \in 1..Len(<<>>) : FALSE
OBVIOUS

(* A node without children; and one whose children are all of the right kind. *)
LEMMA Leaf ==
    ASSUME NEW ns, NEW n, KidsOf(ns, n) = {},
           \/ ns[n].id = "expr" \/ ns[n].id = "constant" \/ ns[n].id = "return"
           \/ ns[n].id = "body" \/ ns[n].id = "func_call" \/ ns[n].id = "var_declare"
    PROVE  \A ct, fd : Shape(ns, ct, fd, n)
BY NoKids DEF Shape

LEMMA CallShape ==
    ASSUME NEW ns, NEW n, ns[n].id = "func_call", KidsIn(ns, n, {"constant", "variable"})
    PROVE  \A ct, fd : Shape(ns, ct, fd, n)
BY DEF Shape

LEMMA BodyShape ==
    ASSUME NEW ns, NEW n, ns[n].id = "body", KidsIn(ns, n, StatementIds)
    PROVE  \A ct, fd : Shape(ns, ct, fd, n)
BY DEF Shape

LEMMA Appended ==
    ASSUME NEW T, NEW s \in Seq(T), NEW e \in T
    PROVE  /\ Append(s, e) \in Seq(T)
           /\ Len(s) = 1 => Len(Append(s, e)) = 2 /\ Append(s, e)[1] = s[1] /\ Append(s, e)[2] = e
           /\ Len(s) = 2 => /\ Len(Append(s, e)) = 3 /\ Append(s, e)[1] = s[1] /\ Append(s, e)[2] = s[2]
                            /\ Append(s, e)[3] = e
<1> DEFINE u == Append(s, e)
           n == Len(s)
<1>1. /\ u \in Seq(T) /\ Len(u) = n + 1 /\ u[n + 1] = e
      /\ \A i \in 1..n : u[i] = s[i]
  BY AppendProperties
<1>2. n \in Nat
  OBVIOUS
<1> HIDE DEF u, n
<1>3. ASSUME n = 1 PROVE Len(u) = 2 /\ u[1] = s[1] /\ u[2] = e
  BY <1>1, <1>3
<1>4. ASSUME n = 2 PROVE Len(u) = 3 /\ u[1] = s[1] /\ u[2] = s[2] /\ u[3] = e
  BY <1>1, <1>4
<1> QED BY <1>1, <1>3, <1>4 DEF u, n

(* The lists of children that occur. *)
LEMMA Lists ==
    /\ <<>> \in Seq({"expr", "body"}) /\ <<"expr">> \in Seq({"expr", "body"})
    /\ <<"expr", "body">> \in Seq({"expr", "body"})
    /\ Append(<<>>, "expr") = <<"expr">> /\ Append(<<>>, "body") = <<"body">>
    /\ Append(<<"expr">>, "body") = <<"expr", "body">>
    /\ Append(<<"expr", "body">>, "body") = <<"expr", "body", "body">>
<1> DEFINE T == {"expr", "body"}
<1>1. <<>> \in Seq(T) /\ <<"expr">> \in Seq(T) /\ <<"expr", "body">> \in Seq(T)
  OBVIOUS
<1>2. Append(<<>>, "expr") = <<"expr">>
  OBVIOUS
<1>3. Append(<<>>, "body") = <<"body">>
  OBVIOUS
<1> DEFINE s1 == <<"expr">>
           s2 == <<"expr", "body">>
           s3 == <<"expr", "body", "body">>
           e == "expr"
           b == "body"
<1>6. /\ s1 \in Seq(T) /\ Len(s1) = 1 /\ s1[1] = e
      /\ s2 \in Seq(T) /\ Len(s2) = 2 /\ s2[1] = e /\ s2[2] = b
      /\ s3 \in Seq(T) /\ Len(s3) = 3 /\ s3[1] = e /\ s3[2] = b /\ s3[3] = b
      /\ b \in T
  OBVIOUS
<1> HIDE DEF s1, s2, s3, T, e, b
<1> DEFINE u == Append(s1, b)
           v == Append(s2, b)
<1>7. /\ u \in Seq(T) /\ Len(u) = 2 /\ u[2] = b /\ u[1] = s1[1]
      /\ v \in Seq(T) /\ Len(v) = 3 /\ v[3] = b /\ v[1] = s2[1] /\ v[2] = s2[2]
  BY <1>6, Appended
<1> HIDE DEF u, v
<1>4. u = s2
  <2>1. \A i \in 1..Len(u) : u[i] = s2[i]
    BY <1>6, <1>7, TwoIndexes
  <2> QED BY <1>6, <1>7, <2>1, SeqEqual
<1>5. v = s3
  <2>1. \A i \in 1..Len(v) : v[i] = s3[i]
    BY <1>6, <1>7, ThreeIndexes
  <2> QED BY <1>6, <1>7, <2>1, SeqEqual
<1> QED BY <1>1, <1>2, <1>3, <1>4, <1>5 DEF u, v, s1, s2, s3, T, b

(* A new child of the node the step works on. *)
LEMMA OneNew ==
    ASSUME Inv, NEW f, At(f), NEW id, NEW attr, NEW new, new = Added(nodes, node, id, attr)
    PROVE  /\ Grows(nodes, new, node) /\ IsTree(new) /\ Len(new) = Fresh /\ Fresh \in 1..Len(new) /\ Fresh > node
           /\ node \in 1..Len(new) /\ Fresh \notin 1..Len(nodes)
           /\ new[Fresh].id = id /\ new[node].id = nodes[node].id /\ KidsOf(new, Fresh) = {}
           /\ \A m \in 1..Len(new) : m = node \/ m > Len(nodes) => m = node \/ m = Fresh
<1>1. IsTree(nodes) /\ node \in 1..Len(nodes) /\ Len(nodes) \in Nat
  BY TopFacts
<1>2. node \in 0..Len(nodes)
  BY <1>1
<1>3. /\ IsTree(new) /\ Len(new) = Len(nodes) + 1 /\ new[Len(nodes) + 1].id = id
      /\ \A m \in 1..Len(nodes) : new[m] = nodes[m]
  BY <1>1, <1>2, AddedFacts
<1>4. Grows(nodes, new, node)
  BY <1>1, Stays, GrowsMore
<1>5. KidsOf(new, Len(nodes) + 1) = {}
  BY <1>1, NewKid
<1>6. Fresh = Len(nodes) + 1
  BY DEF Fresh
<1> QED BY <1>1, <1>3, <1>4, <1>5, <1>6

(* A new child, and a child of that child. *)
LEMMA TwoNew ==
    ASSUME Inv, NEW f, At(f), NEW id, NEW attr, NEW new, new = Added(nodes, node, id, attr),
           NEW id2, NEW attr2, NEW new2, new2 = Added(new, Fresh, id2, attr2)
    PROVE  /\ Grows(nodes, new2, node) /\ IsTree(new2) /\ Len(new2) = Fresh + 1
           /\ Fresh \in 1..Len(new2) /\ Fresh + 1 \in 1..Len(new2) /\ node \in 1..Len(new2)
           /\ Fresh > node /\ Fresh + 1 > Fresh /\ Fresh \notin 1..Len(nodes) /\ Fresh + 1 \notin 1..Len(nodes)
           /\ Fresh \in Nat /\ node \in Nat
           /\ new2[Fresh + 1].id = id2 /\ new2[Fresh].id = id /\ new2[node].id = nodes[node].id
           /\ KidsOf(new2, Fresh + 1) = {}
           /\ \A S : KidsIn(new2, Fresh, S) <=> id2 \in S
           /\ id2 = "expr" => HasKids(new2, Fresh, <<"expr">>)
           /\ id2 = "body" => HasKids(new2, Fresh, <<"body">>)
           /\ id2 = "variable" => VariablesFirst(new2, Fresh)
           /\ \A S : KidsIn(new2, node, S) <=> KidsIn(new, node, S)
           /\ \A m \in 1..Len(new2) : m = node \/ m > Len(nodes) => m = node \/ m = Fresh \/ m = Fresh + 1
<1>1. /\ IsTree(nodes) /\ node \in 1..Len(nodes) /\ Len(nodes) \in Nat /\ Fresh = Len(nodes) + 1
      /\ Len(new) = Fresh /\ IsTree(new) /\ Grows(nodes, new, node) /\ new[Fresh].id = id
      /\ new[node].id = nodes[node].id /\ KidsOf(new, Fresh) = {}
  BY TopFacts, OneNew DEF Fresh
<1>2. Fresh \in 0..Len(new) /\ Fresh \in 1..Len(new) /\ Fresh \in {node} \cup (Len(nodes) + 1)..Len(new)
      /\ node \in 1..Len(new) /\ node # Fresh
  BY <1>1
<1>3. /\ IsTree(new2) /\ Len(new2) = Fresh + 1 /\ new2[Fresh + 1].id = id2
      /\ \A m \in 1..Len(new) : new2[m] = new[m]
  BY <1>1, <1>2, AddedFacts
<1>4. Grows(nodes, new2, node)
  BY <1>1, <1>2, GrowsMore
<1>5. KidsOf(new2, Fresh + 1) = {} /\ KidsOf(new2, node) = KidsOf(new, node)
  BY <1>1, <1>2, NewKid
<1>9. HasKids(new, Fresh, <<>>) /\ \A S : KidsIn(new, Fresh, S)
  BY <1>1, NoKids
<1>6. /\ \A S : KidsIn(new2, Fresh, S) <=> id2 \in S
      /\ id2 = "variable" => VariablesFirst(new2, Fresh)
  <2>1. \A S : id2 \in S => KidsIn(new2, Fresh, S)
    BY <1>1, <1>2, <1>9, OneMore
  <2>2. \A S : id2 \notin S => ~KidsIn(new2, Fresh, S)
    BY <1>1, <1>2, <1>9, OneMore
  <2>3. id2 = "variable" => VariablesFirst(new2, Fresh)
    BY <1>1, <1>2, <1>9, OneMore
  <2> QED BY <2>1, <2>2, <2>3
<1>10. HasKids(new2, Fresh, Append(<<>>, id2))
  BY <1>1, <1>2, <1>9, OneMore, Lists
<1>11. /\ id2 = "expr" => HasKids(new2, Fresh, <<"expr">>)
       /\ id2 = "body" => HasKids(new2, Fresh, <<"body">>)
  <2>1. CASE id2 = "expr"
    BY <1>10, <2>1, Lists
  <2>2. CASE id2 = "body"
    BY <1>10, <2>2, Lists
  <2> QED BY <2>1, <2>2
<1>7. \A S : KidsIn(new2, node, S) <=> KidsIn(new, node, S)
  <2>1. \A m \in KidsOf(new, node) : new2[m] = new[m]
    BY <1>1, <1>3, TreeFacts DEF KidsOf
  <2> QED BY <1>5, <2>1, SameKids
<1>8. new2[Fresh].id = id /\ new2[node].id = nodes[node].id
  BY <1>1, <1>2, <1>3
<1> QED BY <1>1, <1>3, <1>4, <1>5, <1>6, <1>7, <1>8, <1>11

(* A quiet step that adds one node, or two. *)
LEMMA OneNodeStep ==
    ASSUME Inv, NEW f, At(f), f # "func_body", NEW id, NEW attr, nodes' = Added(nodes, node, id, attr),
           NEW calls, cont' = calls \o Tail(cont), Fits(nodes, nodes', cont, calls), from_func_def' = from_func_def,
           \A i \in 1..Len(calls) : calls[i].at # "func_body",
           Shape(nodes', cont', FALSE, node), Shape(nodes', cont', FALSE, Fresh)
    PROVE  Inv'
<1>1. /\ Grows(nodes, nodes', node)
      /\ \A m \in 1..Len(nodes') : m = node \/ m > Len(nodes) => m = node \/ m = Fresh
  BY OneNew
<1> QED BY <1>1, QuietStep

LEMMA TwoNodesStep ==
    ASSUME Inv, NEW f, At(f), f # "func_body", NEW id, NEW attr, NEW id2, NEW attr2,
           nodes' = Added(Added(nodes, node, id, attr), Fresh, id2, attr2),
           NEW calls, cont' = calls \o Tail(cont), Fits(nodes, nodes', cont, calls), from_func_def' = from_func_def,
           \A i \in 1..Len(calls) : calls[i].at # "func_body",
           Shape(nodes', cont', FALSE, node), Shape(nodes', cont', FALSE, Fresh), Shape(nodes', cont', FALSE, Fresh + 1)
    PROVE  Inv'
<1>1. /\ Grows(nodes, nodes', node)
      /\ \A m \in 1..Len(nodes') : m = node \/ m > Len(nodes) => m = node \/ m = Fresh \/ m = Fresh + 1
  BY TwoNew
<1> QED BY <1>1, QuietStep

LEMMA PrologueInv == ASSUME Inv, Prologue PROVE Inv'
<1>1. CASE \E c : error(c)
  BY <1>1, ErrorStep
<1>2. CASE At("program") /\ nodes' = nodes /\ from_func_def' = from_func_def
           /\ cont' = To("program_body", node) \o Tail(cont)
  <2>1. /\ cont[1].node = node /\ node \in 1..Len(nodes) /\ nodes[node].id = "program"
        /\ cont[1].at = "program"
    BY <1>2, TopFacts, Nodes
  <2>2. Call(nodes, nodes, cont, "program_body", node)
    BY <2>1, Nodes, Afterwards DEF Call, Labels
  <2>3. Shape(nodes, cont', FALSE, node)
    BY <2>1, Plain
  <2> DEFINE c == To("program_body", node)
  <2>4. Fits(nodes, nodes, cont, c) /\ Len(c) = 1 /\ c[1].at = "program_body"
    BY <2>2, OneCall
  <2> HIDE DEF c
  <2>5. \A i \in 1..Len(c) : c[i].at # "func_body"
    BY <2>4, OneIndex
  <2> QED BY <1>2, <2>3, <2>4, <2>5, TreeStays DEF c
<1> QED BY <1>1, <1>2 DEF Prologue, Expect, Then, flags

LEMMA EndOfProgramInv == ASSUME Inv, EndOfProgram PROVE Inv'
<1>1. At("program_body") /\ nodes' = nodes /\ from_func_def' = from_func_def /\ cont' = <<>> \o Tail(cont)
  BY DEF EndOfProgram, Then, flags
<1>2. nodes[node].id = "program"
  BY <1>1, TopFacts, Nodes
<1>3. Shape(nodes, cont', FALSE, node)
  BY <1>2, Plain
<1> QED BY <1>1, <1>3, NoCalls, NoIndex, TreeStays

(* Calls of functions other than func_body. *)
LEMMA QuietCall ==
    ASSUME NEW ns, NEW ns2, NEW ct, NEW f, NEW n, Call(ns, ns2, ct, f, n), f # "func_body", NEW c, c = To(f, n)
    PROVE  /\ Fits(ns, ns2, ct, c) /\ \A i \in 1..Len(c) : c[i].at # "func_body"
           /\ \A m, h : Open(c, m, h) <=> m = n /\ h = f
<1>1. /\ Fits(ns, ns2, ct, c) /\ Len(c) = 1 /\ c[1].at = f
      /\ \A m, h : Open(c, m, h) <=> m = n /\ h = f
  BY OneCall
<1> QED BY <1>1, OneIndex

LEMMA QuietCalls ==
    ASSUME NEW ns, NEW ns2, NEW ct, NEW f, NEW n, Call(ns, ns2, ct, f, n), f # "func_body",
           NEW g, NEW k, Call(ns, ns2, ct, g, k), g # "func_body", Under(f, n, g, k), NEW c, c = Concat(To(f, n), To(g, k))
    PROVE  /\ Fits(ns, ns2, ct, c) /\ \A i \in 1..Len(c) : c[i].at # "func_body"
           /\ \A m, h : Open(c, m, h) <=> (m = n /\ h = f) \/ (m = k /\ h = g)
<1>1. /\ Fits(ns, ns2, ct, c) /\ Len(c) = 2 /\ c[1].at = f /\ c[2].at = g
      /\ \A m, h : Open(c, m, h) <=> (m = n /\ h = f) \/ (m = k /\ h = g)
  BY TwoCalls
<1> QED BY <1>1, TwoIndexes

(* A call on the node of the function itself, and one on a new node. *)
LEMMA SameNode ==
    ASSUME Inv, NEW f, At(f), NEW ns2, Grows(nodes, ns2, node),
           NEW g, g \in Labels, nodes[node].id \in Given(g), Later(f) \subseteq Later(g)
    PROVE  Call(nodes, ns2, cont, g, node)
<1>1. cont[1].at = f /\ cont[1].node = node /\ node \in 1..Len(nodes) /\ Len(nodes) \in Nat
  BY TopFacts
<1>2. node \in 1..Len(ns2) /\ ns2[node] = nodes[node]
  BY <1>1, TreeFacts DEF Grows
<1> QED BY <1>1, <1>2 DEF Call

LEMMA NewNode ==
    ASSUME Inv, NEW f, At(f), NEW ns2, NEW k \in 1..Len(ns2), k > node, k \notin 1..Len(nodes),
           NEW g, g \in Labels, ns2[k].id \in Given(g)
    PROVE  Call(nodes, ns2, cont, g, k)
<1>1. cont[1].node = node
  BY TopFacts
<1> QED BY <1>1 DEF Call

LEMMA func_declInv == ASSUME Inv, func_decl PROVE Inv'
<1>1. CASE \E c : error(c)
  BY <1>1, ErrorStep
<1>2. ASSUME At("program_body"), nodes' = nodes, from_func_def' = from_func_def
      PROVE  /\ nodes[node].id = "program" /\ Shape(nodes, cont', FALSE, node)
             /\ Call(nodes, nodes, cont, "types", node) /\ Call(nodes, nodes, cont, "func_decl_end", node)
             /\ Call(nodes, nodes, cont, "program_body", node)
             /\ Under("types", node, "func_decl_end", node) /\ Under("func_decl_end", node, "program_body", node)
             /\ Under("types", node, "program_body", node)
  <2>1. nodes[node].id = "program" /\ IsTree(nodes)
    BY <1>2, TopFacts, Nodes
  <2>2. Grows(nodes, nodes, node)
    BY <2>1, Stays
  <2>3. Later("program_body") = {}
    BY Afterwards DEF Labels
  <2>4. /\ Call(nodes, nodes, cont, "types", node) /\ Call(nodes, nodes, cont, "func_decl_end", node)
        /\ Call(nodes, nodes, cont, "program_body", node)
    BY <1>2, <2>1, <2>2, <2>3, SameNode, Nodes DEF Labels
  <2> QED BY <2>1, <2>4, Plain, Afterwards DEF Under
<1>3. CASE /\ At("program_body") /\ nodes' = nodes /\ from_func_def' = from_func_def
           /\ cont' = (To("types", node) \o (To("func_decl_end", node) \o To("program_body", node))) \o Tail(cont)
  <2> DEFINE c == Concat(To("types", node), Concat(To("func_decl_end", node), To("program_body", node)))
  <2>1. /\ Fits(nodes, nodes, cont, c) /\ Len(c) = 3 /\ c[1].at = "types" /\ c[2].at = "func_decl_end"
        /\ c[3].at = "program_body"
    BY <1>2, <1>3, ThreeCalls
  <2> HIDE DEF c
  <2>2. \A i \in 1..Len(c) : c[i].at # "func_body"
    BY <2>1, ThreeIndexes
  <2>3. cont' = c \o Tail(cont)
    BY <1>3 DEF c, Concat
  <2> QED BY <1>2, <1>3, <2>1, <2>2, <2>3, TreeStays
<1>4. CASE /\ At("program_body") /\ nodes' = nodes /\ from_func_def' = from_func_def
           /\ cont' = (To("func_decl_end", node) \o To("program_body", node)) \o Tail(cont)
  <2> DEFINE c == Concat(To("func_decl_end", node), To("program_body", node))
  <2>1. Fits(nodes, nodes, cont, c) /\ \A i \in 1..Len(c) : c[i].at # "func_body"
    BY <1>2, <1>4, QuietCalls
  <2> HIDE DEF c
  <2>2. cont' = c \o Tail(cont)
    BY <1>4 DEF c, Concat
  <2> QED BY <1>2, <1>4, <2>1, <2>2, TreeStays
<1> QED BY <1>1, <1>3, <1>4 DEF func_decl, Expect, Then, flags

LEMMA typesInv == ASSUME Inv, types PROVE Inv'
<1>1. CASE \E c : error(c)
  BY <1>1, ErrorStep
<1>2. ASSUME At("types")
      PROVE  /\ \A ct, fd : Shape(nodes, ct, fd, node) /\ Call(nodes, nodes, cont, "types", node)
             /\ cont = To("types", node) \o Tail(cont)
  <2>1. /\ nodes[node].id = "program" \/ nodes[node].id = "func_def"
        /\ IsTree(nodes) /\ cont = To("types", node) \o Tail(cont)
    BY <1>2, TopFacts, Nodes
  <2>2. Grows(nodes, nodes, node)
    BY <2>1, Stays
  <2>3. Call(nodes, nodes, cont, "types", node)
    BY <1>2, <2>1, <2>2, SameNode, Nodes DEF Labels
  <2> QED BY <2>1, <2>3, Plain
<1>3. CASE At("types") /\ nodes' = nodes /\ from_func_def' = from_func_def /\ cont' = <<>> \o Tail(cont)
  BY <1>2, <1>3, NoCalls, NoIndex, TreeStays
<1>4. CASE At("types") /\ nodes' = nodes /\ from_func_def' = from_func_def /\ cont' = cont
  <2> DEFINE c == To("types", node)
  <2>1. Fits(nodes, nodes, cont, c) /\ \A i \in 1..Len(c) : c[i].at # "func_body"
    BY <1>2, <1>4, QuietCall
  <2>2. cont' = c \o Tail(cont)
    BY <1>2, <1>4
  <2> HIDE DEF c
  <2> QED BY <1>2, <1>4, <2>1, <2>2, TreeStays
<1> QED BY <1>1, <1>3, <1>4 DEF types, Expect, Then, flags

(* Steps that leave the tree alone. *)
LEMMA StayAndReturn ==
    ASSUME Inv, NEW f, At(f), f # "func_body", nodes' = nodes, from_func_def' = from_func_def,
           cont' = <<>> \o Tail(cont), Shape(nodes, cont', FALSE, node)
    PROVE  Inv'
BY NoCalls, NoIndex, TreeStays

LEMMA StayAndCall ==
    ASSUME Inv, NEW f, At(f), f # "func_body", nodes' = nodes, from_func_def' = from_func_def,
           NEW g, g \in Labels, g # "func_body", nodes[node].id \in Given(g), Later(f) \subseteq Later(g),
           cont' = To(g, node) \o Tail(cont), Shape(nodes, cont', FALSE, node)
    PROVE  Inv'
<1>1. Grows(nodes, nodes, node)
  BY TopFacts, Stays
<1>2. Call(nodes, nodes, cont, g, node)
  BY <1>1, SameNode
<1> DEFINE c == To(g, node)
<1>3. Fits(nodes, nodes, cont, c) /\ \A i \in 1..Len(c) : c[i].at # "func_body"
  BY <1>2, QuietCall
<1> HIDE DEF c
<1>4. cont' = c \o Tail(cont)
  BY DEF c
<1> QED BY <1>3, <1>4, TreeStays

LEMMA StayAndCalls ==
    ASSUME Inv, NEW f, At(f), f # "func_body", nodes' = nodes, from_func_def' = from_func_def,
           NEW g, g \in Labels, g # "func_body", nodes[node].id \in Given(g), Later(f) \subseteq Later(g),
           NEW h, h \in Labels, h # "func_body", nodes[node].id \in Given(h), Later(f) \subseteq Later(h),
           h \in Later(g), cont' = Concat(To(g, node), To(h, node)) \o Tail(cont), Shape(nodes, cont', FALSE, node)
    PROVE  Inv'
<1>1. Grows(nodes, nodes, node)
  BY TopFacts, Stays
<1>2. Call(nodes, nodes, cont, g, node) /\ Call(nodes, nodes, cont, h, node)
  BY <1>1, SameNode
<1>3. Under(g, node, h, node)
  BY DEF Under
<1> DEFINE c == Concat(To(g, node), To(h, node))
<1>4. Fits(nodes, nodes, cont, c) /\ \A i \in 1..Len(c) : c[i].at # "func_body"
  BY <1>2, <1>3, QuietCalls
<1> HIDE DEF c
<1>5. cont' = c \o Tail(cont)
  BY DEF c
<1> QED BY <1>4, <1>5, TreeStays

LEMMA ToAlone == \A f, n : To(f, n) \o <<>> = To(f, n)
BY DEF To

LEMMA NoMore ==
    /\ Later("program_body") = {} /\ Later("constants") = {} /\ Later("args") = {} /\ Later("params") = {}
    /\ Later("func_def_signature") = {} /\ Later("func_def_body") = {} /\ Later("func_def_end") = {}
    /\ Later("else") = {} /\ Later("element_end") = {} /\ Later("ids") = {} /\ Later("items") = {}
    /\ \A f \in OneStatement : Later(f) = {}
BY DEF Later, OneStatement

LEMMA FuncDeclEndInv == ASSUME Inv, FuncDeclEnd PROVE Inv'
<1>1. CASE \E c : error(c)
  BY <1>1, ErrorStep
<1>2. ASSUME At("func_decl_end") PROVE nodes[node].id = "program" /\ \A ct, fd : Shape(nodes, ct, fd, node)
  <2>1. nodes[node].id = "program"
    BY <1>2, TopFacts, Nodes
  <2> QED BY <2>1, Plain
<1>3. CASE At("func_decl_end") /\ nodes' = nodes /\ from_func_def' = from_func_def /\ cont' = <<>> \o Tail(cont)
  BY <1>2, <1>3, StayAndReturn
<1>4. CASE /\ At("func_decl_end") /\ nodes' = nodes /\ from_func_def' = from_func_def
           /\ cont' = (To("types", node) \o <<>>) \o Tail(cont)
  <2>1. cont' = To("types", node) \o Tail(cont)
    BY <1>4, ToAlone
  <2>2. "types" \in Labels /\ Later("func_decl_end") \subseteq Later("types") /\ nodes[node].id \in Given("types")
    BY <1>2, <1>4, Afterwards, Nodes DEF Labels
  <2> QED BY <1>2, <1>4, <2>1, <2>2, StayAndCall
<1> QED BY <1>1, <1>3, <1>4 DEF FuncDeclEnd, Signature, Expect, Then, flags

LEMMA func_callInv == ASSUME Inv, func_call PROVE Inv'
<1>1. CASE \E c : error(c)
  BY <1>1, ErrorStep
<1> DEFINE called == Added(nodes, node, "func_call", <<Ahead(1).attr>>)
           c == Concat(To("constants", Fresh), To("program_body", node))
<1>2. ASSUME At("program_body")
      PROVE  nodes[node].id = "program" /\ "program_body" \in Labels /\ "constants" \in Labels
             /\ Later("program_body") = {} /\ "program" \in Given("program_body") /\ "func_call" \in Given("constants")
  BY <1>2, TopFacts, Nodes, NoMore DEF Labels
<1>3. CASE /\ At("program_body") /\ nodes' = called /\ from_func_def' = from_func_def
           /\ cont' = To("program_body", node) \o Tail(cont)
  <2>1. /\ Grows(nodes, nodes', node) /\ nodes'[node].id = "program" /\ nodes'[Fresh].id = "func_call"
        /\ KidsOf(nodes', Fresh) = {}
    BY <1>2, <1>3, OneNew
  <2>2. Call(nodes, nodes', cont, "program_body", node)
    BY <1>2, <1>3, <2>1, SameNode
  <2> DEFINE d == To("program_body", node)
  <2>3. Fits(nodes, nodes', cont, d) /\ \A i \in 1..Len(d) : d[i].at # "func_body"
    BY <2>2, QuietCall
  <2> HIDE DEF d
  <2>4. cont' = d \o Tail(cont)
    BY <1>3 DEF d
  <2>5. Shape(nodes', cont', FALSE, node) /\ Shape(nodes', cont', FALSE, Fresh)
    BY <2>1, Plain, Leaf
  <2> QED BY <1>3, <2>3, <2>4, <2>5, OneNodeStep
<1>4. CASE /\ At("program_body") /\ nodes' = called /\ from_func_def' = from_func_def
           /\ cont' = (To("constants", Fresh) \o To("program_body", node)) \o Tail(cont)
  <2>1. /\ Grows(nodes, nodes', node) /\ nodes'[node].id = "program" /\ nodes'[Fresh].id = "func_call"
        /\ KidsOf(nodes', Fresh) = {} /\ Fresh \in 1..Len(nodes') /\ Fresh > node /\ Fresh \notin 1..Len(nodes)
    BY <1>2, <1>4, OneNew
  <2>2. /\ Call(nodes, nodes', cont, "program_body", node) /\ Call(nodes, nodes', cont, "constants", Fresh)
        /\ Under("constants", Fresh, "program_body", node)
    <3>1. node < Fresh
      BY <1>4, <2>1, TopFacts DEF Fresh
    <3> QED BY <1>2, <1>4, <2>1, <3>1, SameNode, NewNode DEF Under
  <2>3. Fits(nodes, nodes', cont, c) /\ \A i \in 1..Len(c) : c[i].at # "func_body"
    BY <2>2, QuietCalls
  <2> HIDE DEF c
  <2>4. cont' = c \o Tail(cont)
    BY <1>4 DEF c, Concat
  <2>5. Shape(nodes', cont', FALSE, node) /\ Shape(nodes', cont', FALSE, Fresh)
    BY <2>1, Plain, Leaf
  <2> QED BY <1>4, <2>3, <2>4, <2>5, OneNodeStep
<1>5. CASE /\ At("program_body") /\ nodes' = Added(called, Fresh, "constant", <<Ahead(3).attr>>)
           /\ from_func_def' = from_func_def
           /\ cont' = (To("constants", Fresh) \o To("program_body", node)) \o Tail(cont)
  <2>1. /\ Grows(nodes, nodes', node) /\ nodes'[node].id = "program" /\ nodes'[Fresh].id = "func_call"
        /\ nodes'[Fresh + 1].id = "constant" /\ KidsOf(nodes', Fresh + 1) = {}
        /\ KidsIn(nodes', Fresh, {"constant", "variable"})
        /\ Fresh \in 1..Len(nodes') /\ Fresh > node /\ Fresh \notin 1..Len(nodes) /\ Fresh \in Nat /\ node \in Nat
    BY <1>2, <1>5, TwoNew
  <2>2. /\ Call(nodes, nodes', cont, "program_body", node) /\ Call(nodes, nodes', cont, "constants", Fresh)
        /\ Under("constants", Fresh, "program_body", node)
    BY <1>2, <1>5, <2>1, SameNode, NewNode DEF Under
  <2>3. Fits(nodes, nodes', cont, c) /\ \A i \in 1..Len(c) : c[i].at # "func_body"
    BY <2>2, QuietCalls
  <2> HIDE DEF c
  <2>4. cont' = c \o Tail(cont)
    BY <1>5 DEF c, Concat
  <2>5. /\ Shape(nodes', cont', FALSE, node) /\ Shape(nodes', cont', FALSE, Fresh)
        /\ Shape(nodes', cont', FALSE, Fresh + 1)
    BY <2>1, Plain, Leaf, CallShape
  <2> QED BY <1>5, <2>3, <2>4, <2>5, TwoNodesStep
<1> QED BY <1>1, <1>3, <1>4, <1>5 DEF func_call, WithConstant, Then, flags

(* While its arguments are read, a call has no body node. *)
LEMMA CallKids ==
    ASSUME Inv, NEW f, At(f), f = "constants" \/ f = "arg" \/ f = "args"
    PROVE  nodes[node].id = "func_call" /\ KidsIn(nodes, node, {"constant", "variable"})
<1>1. nodes[node].id = "func_call" /\ Shape(nodes, cont, from_func_def, node) /\ f \in Labels /\ Open(cont, node, f)
  BY TopFacts, Nodes
<1> QED BY <1>1 DEF Shape

LEMMA constantsInv == ASSUME Inv, constants PROVE Inv'
<1>1. CASE \E c : error(c)
  BY <1>1, ErrorStep
<1>2. ASSUME At("constants")
      PROVE  /\ nodes[node].id = "func_call" /\ KidsIn(nodes, node, {"constant", "variable"})
             /\ \A ct, fd : Shape(nodes, ct, fd, node) /\ cont = To("constants", node) \o Tail(cont)
             /\ "constants" \in Labels /\ "func_call" \in Given("constants") /\ IsTree(nodes) /\ node \in 1..Len(nodes)
  <2>1. nodes[node].id = "func_call" /\ KidsIn(nodes, node, {"constant", "variable"})
    BY <1>2, CallKids
  <2> QED BY <1>2, <2>1, CallShape, TopFacts, Nodes
<1>3. CASE At("constants") /\ nodes' = nodes /\ from_func_def' = from_func_def /\ cont' = <<>> \o Tail(cont)
  BY <1>2, <1>3, StayAndReturn
<1>4. CASE At("constants") /\ nodes' = nodes /\ from_func_def' = from_func_def /\ cont' = cont
  BY <1>2, <1>4, StayAndCall
<1>5. CASE /\ At("constants") /\ nodes' = Added(nodes, node, "constant", <<Ahead(2).attr>>)
           /\ from_func_def' = from_func_def /\ cont' = cont
  <2> DEFINE c == To("constants", node)
  <2>1. /\ Grows(nodes, nodes', node) /\ nodes'[node].id = "func_call" /\ nodes'[Fresh].id = "constant"
        /\ KidsOf(nodes', Fresh) = {}
    BY <1>2, <1>5, OneNew
  <2>2. KidsIn(nodes', node, {"constant", "variable"})
    BY <1>2, <1>5, OneMore
  <2>3. Call(nodes, nodes', cont, "constants", node)
    BY <1>2, <1>5, <2>1, SameNode
  <2>4. Fits(nodes, nodes', cont, c) /\ \A i \in 1..Len(c) : c[i].at # "func_body"
    BY <2>3, QuietCall
  <2>5. cont' = c \o Tail(cont)
    BY <1>2, <1>5
  <2> HIDE DEF c
  <2>6. Shape(nodes', cont', FALSE, node) /\ Shape(nodes', cont', FALSE, Fresh)
    BY <2>1, <2>2, Leaf, CallShape
  <2> QED BY <1>5, <2>4, <2>5, <2>6, OneNodeStep
<1> QED BY <1>1, <1>3, <1>4, <1>5 DEF constants, WithConstant, Expect, Then, flags

(* Steps that add one node. *)
LEMMA AddAndReturn ==
    ASSUME Inv, NEW f, At(f), f # "func_body", NEW id, NEW attr, nodes' = Added(nodes, node, id, attr),
           from_func_def' = from_func_def, cont' = <<>> \o Tail(cont),
           Shape(nodes', cont', FALSE, node), Shape(nodes', cont', FALSE, Fresh)
    PROVE  Inv'
BY NoCalls, NoIndex, OneNodeStep

LEMMA AddAndCall ==
    ASSUME Inv, NEW f, At(f), f # "func_body", NEW id, NEW attr, nodes' = Added(nodes, node, id, attr),
           from_func_def' = from_func_def, NEW g, g # "func_body", NEW n, Call(nodes, nodes', cont, g, n),
           cont' = To(g, n) \o Tail(cont),
           Shape(nodes', cont', FALSE, node), Shape(nodes', cont', FALSE, Fresh)
    PROVE  Inv'
<1> DEFINE c == To(g, n)
<1>1. Fits(nodes, nodes', cont, c) /\ \A i \in 1..Len(c) : c[i].at # "func_body"
  BY QuietCall
<1> HIDE DEF c
<1>2. cont' = c \o Tail(cont)
  BY DEF c
<1> QED BY <1>1, <1>2, OneNodeStep

LEMMA AddAndCalls ==
    ASSUME Inv, NEW f, At(f), f # "func_body", NEW id, NEW attr, nodes' = Added(nodes, node, id, attr),
           from_func_def' = from_func_def, NEW g, g # "func_body", NEW n, Call(nodes, nodes', cont, g, n),
           NEW h, h # "func_body", NEW k, Call(nodes, nodes', cont, h, k), Under(g, n, h, k),
           cont' = Concat(To(g, n), To(h, k)) \o Tail(cont),
           Shape(nodes', cont', FALSE, node), Shape(nodes', cont', FALSE, Fresh)
    PROVE  Inv'
<1> DEFINE c == Concat(To(g, n), To(h, k))
<1>1. Fits(nodes, nodes', cont, c) /\ \A i \in 1..Len(c) : c[i].at # "func_body"
  BY QuietCalls
<1> HIDE DEF c
<1>2. cont' = c \o Tail(cont)
  BY DEF c
<1> QED BY <1>1, <1>2, OneNodeStep

LEMMA func_defInv == ASSUME Inv, func_def PROVE Inv'
<1>1. CASE \E c : error(c)
  BY <1>1, ErrorStep
<1> DEFINE def == Added(nodes, node, "func_def", <<Ahead(2).attr>>)
<1>2. ASSUME At("program_body")
      PROVE  /\ nodes[node].id = "program" /\ {"program_body", "func_def_signature", "params"} \subseteq Labels
             /\ Later("program_body") = {} /\ "program" \in Given("program_body")
             /\ "func_def" \in Given("func_def_signature") /\ "variable" \in Given("params") /\ node < Fresh
  <2>1. Fresh = Len(nodes) + 1 /\ Len(nodes) \in Nat /\ node \in 1..Len(nodes)
    BY <1>2, TopFacts DEF Fresh
  <2> QED BY <1>2, <2>1, TopFacts, Nodes, NoMore DEF Labels
<1>3. CASE /\ At("program_body") /\ nodes' = def /\ from_func_def' = from_func_def
           /\ cont' = (To("func_def_signature", Fresh) \o To("program_body", node)) \o Tail(cont)
  <2>1. /\ Grows(nodes, nodes', node) /\ nodes'[node].id = "program" /\ nodes'[Fresh].id = "func_def"
        /\ Fresh \in 1..Len(nodes') /\ Fresh > node /\ Fresh \notin 1..Len(nodes)
    BY <1>2, <1>3, OneNew
  <2>2. /\ Call(nodes, nodes', cont, "program_body", node) /\ Call(nodes, nodes', cont, "func_def_signature", Fresh)
        /\ Under("func_def_signature", Fresh, "program_body", node)
    BY <1>2, <1>3, <2>1, SameNode, NewNode DEF Under
  <2>3. Shape(nodes', cont', FALSE, node) /\ Shape(nodes', cont', FALSE, Fresh)
    BY <2>1, Plain
  <2>4. cont' = Concat(To("func_def_signature", Fresh), To("program_body", node)) \o Tail(cont)
    BY <1>3 DEF Concat
  <2> QED BY <1>3, <2>2, <2>3, <2>4, AddAndCalls
<1>4. CASE /\ At("program_body") /\ nodes' = Added(def, Fresh, "variable", <<Ahead(4).attr>>)
           /\ from_func_def' = from_func_def
           /\ cont' = (To("params", Fresh + 1) \o (To("func_def_signature", Fresh) \o To("program_body", node))) \o Tail(cont)
  <2>1. /\ Grows(nodes, nodes', node) /\ nodes'[node].id = "program" /\ nodes'[Fresh].id = "func_def"
        /\ nodes'[Fresh + 1].id = "variable" /\ Fresh \in Nat /\ node \in Nat
        /\ Fresh \in 1..Len(nodes') /\ Fresh > node /\ Fresh \notin 1..Len(nodes)
        /\ Fresh + 1 \in 1..Len(nodes') /\ Fresh + 1 > Fresh /\ Fresh + 1 \notin 1..Len(nodes)
    BY <1>2, <1>4, TwoNew
  <2>2. Fresh < Fresh + 1 /\ node < Fresh /\ node < Fresh + 1 /\ Fresh + 1 > node
    BY <2>1
  <2>3. /\ Call(nodes, nodes', cont, "program_body", node) /\ Call(nodes, nodes', cont, "func_def_signature", Fresh)
        /\ Call(nodes, nodes', cont, "params", Fresh + 1)
        /\ Under("params", Fresh + 1, "func_def_signature", Fresh) /\ Under("params", Fresh + 1, "program_body", node)
        /\ Under("func_def_signature", Fresh, "program_body", node)
    BY <1>2, <1>4, <2>1, <2>2, SameNode, NewNode DEF Under
  <2> DEFINE c == Concat(To("params", Fresh + 1), Concat(To("func_def_signature", Fresh), To("program_body", node)))
  <2>4. /\ Fits(nodes, nodes', cont, c) /\ Len(c) = 3 /\ c[1].at = "params" /\ c[2].at = "func_def_signature"
        /\ c[3].at = "program_body"
    BY <2>3, ThreeCalls
  <2> HIDE DEF c
  <2>5. \A i \in 1..Len(c) : c[i].at # "func_body"
    BY <2>4, ThreeIndexes
  <2>6. cont' = c \o Tail(cont)
    BY <1>4 DEF c, Concat
  <2>7. /\ Shape(nodes', cont', FALSE, node) /\ Shape(nodes', cont', FALSE, Fresh)
        /\ Shape(nodes', cont', FALSE, Fresh + 1)
    BY <2>1, Plain
  <2> QED BY <1>4, <2>4, <2>5, <2>6, <2>7, TwoNodesStep
<1> QED BY <1>1, <1>3, <1>4 DEF func_def, Expect, Then, flags

LEMMA paramsInv == ASSUME Inv, params PROVE Inv'
<1>1. CASE \E c : error(c)
  BY <1>1, ErrorStep
<1>2. ASSUME At("params")
      PROVE  /\ nodes[node].id = "variable" /\ cont = To("params", node) \o Tail(cont)
             /\ "params" \in Labels /\ "variable" \in Given("params") /\ Later("params") = {}
  BY <1>2, TopFacts, Nodes, NoMore DEF Labels
<1>3. CASE At("params") /\ nodes' = nodes /\ from_func_def' = from_func_def /\ cont' = <<>> \o Tail(cont)
  BY <1>2, <1>3, Plain, StayAndReturn
<1>4. CASE /\ At("params") /\ nodes' = Added(nodes, node, "variable", <<Ahead(2).attr>>)
           /\ from_func_def' = from_func_def /\ cont' = cont
  <2>1. Grows(nodes, nodes', node) /\ nodes'[node].id = "variable" /\ nodes'[Fresh].id = "variable"
    BY <1>2, <1>4, OneNew
  <2>2. Call(nodes, nodes', cont, "params", node)
    BY <1>2, <1>4, <2>1, SameNode
  <2>3. Shape(nodes', cont', FALSE, node) /\ Shape(nodes', cont', FALSE, Fresh)
    BY <2>1, Plain
  <2> QED BY <1>2, <1>4, <2>2, <2>3, AddAndCall
<1> QED BY <1>1, <1>3, <1>4 DEF params, Expect, Then, flags

LEMMA FuncDefSignatureInv == ASSUME Inv, FuncDefSignature PROVE Inv'
<1>1. CASE \E c : error(c)
  BY <1>1, ErrorStep
<1>2. ASSUME At("func_def_signature")
      PROVE  /\ nodes[node].id = "func_def" /\ {"types", "func_def_body"} \subseteq Labels
             /\ "func_def" \in Given("types") /\ "func_def" \in Given("func_def_body")
             /\ Later("func_def_signature") = {} /\ "func_def_body" \in Later("types")
  BY <1>2, TopFacts, Nodes, NoMore, Afterwards DEF Labels
<1>3. CASE /\ At("func_def_signature") /\ nodes' = nodes /\ from_func_def' = from_func_def
           /\ cont' = To("func_def_body", node) \o Tail(cont)
  BY <1>2, <1>3, Plain, StayAndCall
<1>4. CASE /\ At("func_def_signature") /\ nodes' = nodes /\ from_func_def' = from_func_def
           /\ cont' = (To("types", node) \o To("func_def_body", node)) \o Tail(cont)
  <2>1. cont' = Concat(To("types", node), To("func_def_body", node)) \o Tail(cont)
    BY <1>4 DEF Concat
  <2> QED BY <1>2, <1>4, <2>1, Plain, StayAndCalls
<1> QED BY <1>1, <1>3, <1>4 DEF FuncDefSignature, Signature, Expect, Then, flags

(* What is open when a function returns, or calls others. *)
LEMMA ReturnOpen ==
    ASSUME Inv, NEW f, At(f), cont' = <<>> \o Tail(cont)
    PROVE  \A m, g : Open(cont', m, g) <=> Open(Tail(cont), m, g)
<1>1. cont # <<>> /\ IsTree(nodes)
  BY TopFacts
<1>2. Grows(nodes, nodes, node) /\ Fits(nodes, nodes, cont, <<>>) /\ \A m, g : ~Open(<<>>, m, g)
  BY <1>1, Stays, NoCalls
<1> QED BY <1>1, <1>2, OpenAfter

LEMMA FirstCall ==
    ASSUME Inv, cont # <<>>, NEW ns2, Grows(nodes, ns2, node), NEW calls, Fits(nodes, ns2, cont, calls), calls # <<>>
    PROVE  (calls \o Tail(cont))[1] = calls[1]
<1> DEFINE F == [at : Labels, node : 1..Len(ns2)]
           G == [at : Labels, node : 1..Len(nodes)]
<1>1. IsTree(nodes) /\ IsStack(nodes, cont) /\ Len(nodes) \in Nat /\ Len(ns2) \in Nat /\ Len(nodes) <= Len(ns2)
  BY TreeFacts DEF Inv, Good, Grows
<1>2. cont \in Seq(F) /\ calls \in Seq(F)
  <2>1. cont \in Seq(G) /\ calls \in Seq(F)
    BY <1>1 DEF IsStack, Fits
  <2>2. 1..Len(nodes) \subseteq 1..Len(ns2)
    BY <1>1
  <2>3. G \subseteq F
    BY <2>2
  <2> HIDE DEF F, G
  <2> QED BY <2>1, <2>3
<1> HIDE DEF F
<1>3. Len(calls) \in Nat /\ Len(calls) # 0
  BY <1>2
<1>4. 1 \in 1..Len(calls)
  BY <1>3
<1> QED BY <1>2, <1>4, Stacked

(* The node of a construct whose body begins. *)
LEMMA BodyOpened ==
    ASSUME Inv, At("func_body"), NEW ns2, ns2 = BodyNode(node)
    PROVE  /\ Grows(nodes, ns2, node) /\ IsTree(ns2) /\ HasBody(ns2, node)
           /\ ns2[node].id = nodes[node].id
           /\ LastKid(ns2, node) \in 1..Len(ns2) /\ LastKid(ns2, node) > node
           /\ ns2[LastKid(ns2, node)].id = "body"
           /\ LastKid(ns2, node) \in 1..Len(nodes) => nodes[LastKid(ns2, node)].id = "body"
           /\ \A ct : (Open(ct, node, "else") <=> Open(cont, node, "else")) => Shape(ns2, ct, FALSE, node)
           /\ \A m \in 1..Len(ns2) : m > Len(nodes) => \A ct, fd : Shape(ns2, ct, fd, m)
<1>1. /\ IsTree(nodes) /\ node \in 1..Len(nodes) /\ Len(nodes) \in Nat /\ cont # <<>> /\ cont[1].node = node
      /\ nodes[node].id = "branch" \/ nodes[node].id = "while" \/ nodes[node].id = "func_def"
      /\ Shape(nodes, cont, from_func_def, node) /\ cont[1].at = "func_body" /\ from_func_def \in BOOLEAN
  BY TopFacts, Nodes
<1>2. CASE from_func_def
  <2>1. ns2 = Added(nodes, node, "body", <<>>)
    BY <1>2 DEF BodyNode
  <2>2. /\ Grows(nodes, ns2, node) /\ IsTree(ns2) /\ Len(ns2) = Fresh /\ Fresh \in 1..Len(ns2) /\ Fresh > node
        /\ ns2[Fresh].id = "body" /\ ns2[node].id = nodes[node].id /\ KidsOf(ns2, Fresh) = {}
        /\ \A m \in 1..Len(ns2) : m = node \/ m > Len(nodes) => m = node \/ m = Fresh
        /\ Fresh \notin 1..Len(nodes) /\ Fresh = Len(nodes) + 1
    BY <2>1, OneNew DEF Fresh
  <2>3. /\ HasBody(ns2, node) /\ LastKid(ns2, node) = Fresh
        /\ \A k \in Seq({"expr", "body"}) : HasKids(nodes, node, k) => HasKids(ns2, node, Append(k, "body"))
    BY <1>1, <2>1, <2>2, OneMore
  <2>4. /\ HasKids(nodes, node, <<"expr">>) => HasKids(ns2, node, <<"expr", "body">>)
        /\ HasKids(nodes, node, <<"expr", "body">>) => HasKids(ns2, node, <<"expr", "body", "body">>)
    BY <2>3, Lists
  <2>5. ASSUME NEW ct, Open(ct, node, "else") <=> Open(cont, node, "else") PROVE Shape(ns2, ct, FALSE, node)
    <3>1. Pending(cont, from_func_def, node) /\ ~Pending(ct, FALSE, node)
      BY <1>1, <1>2 DEF Pending
    <3>2. CASE nodes[node].id = "branch"
      <4>1. HasKids(nodes, node, IF Open(cont, node, "else") THEN <<"expr">> ELSE <<"expr", "body">>)
        BY <1>1, <3>1, <3>2 DEF Shape
      <4>2. HasKids(ns2, node, IF Open(ct, node, "else") THEN <<"expr", "body">> ELSE <<"expr", "body", "body">>)
        BY <2>4, <2>5, <4>1
      <4> QED BY <2>2, <3>1, <3>2, <4>2 DEF Shape
    <3>3. CASE nodes[node].id = "while"
      BY <1>1, <2>2, <2>4, <3>1, <3>3 DEF Shape
    <3>4. CASE nodes[node].id = "func_def"
      BY <2>2, <3>4, Plain
    <3> QED BY <1>1, <3>2, <3>3, <3>4
  <2>6. \A ct, fd : Shape(ns2, ct, fd, Fresh)
    BY <2>2, Leaf
  <2>7. \A m \in 1..Len(ns2) : m > Len(nodes) => m = Fresh
    BY <1>1, <2>2
  <2> QED BY <2>2, <2>3, <2>5, <2>6, <2>7
<1>3. CASE ~from_func_def
  <2>1. ns2 = nodes /\ Grows(nodes, nodes, node)
    BY <1>1, <1>3, Stays DEF BodyNode
  <2>2. HasBody(nodes, node)
    <3>1. BodiesOpen(nodes, cont, from_func_def) /\ 1 \in 1..Len(cont)
      BY <1>1, StackFacts DEF Inv, Good
    <3> QED BY <1>1, <1>3, <3>1 DEF BodiesOpen
  <2>3. PICK b \in KidsOf(nodes, node) : nodes[b].id = "body" /\ \A m \in KidsOf(nodes, node) : m <= b
    BY <2>2 DEF HasBody
  <2>4. KidsOf(nodes, node) \subseteq (node + 1)..Len(nodes)
    BY <1>1, TreeFacts
  <2>5. LastKid(nodes, node) = b
    <3>1. KidsOf(nodes, node) \in SUBSET Int
      BY <1>1, <2>4
    <3> QED BY <2>3, <3>1, MaxIs DEF LastKid
  <2>6. b \in 1..Len(nodes) /\ b > node
    BY <1>1, <2>4
  <2>7. ASSUME NEW ct, Open(ct, node, "else") <=> Open(cont, node, "else") PROVE Shape(nodes, ct, FALSE, node)
    <3>1. ~Pending(cont, from_func_def, node) /\ ~Pending(ct, FALSE, node)
      BY <1>3 DEF Pending
    <3>2. CASE nodes[node].id = "branch" \/ nodes[node].id = "while"
      BY <1>1, <2>7, <3>1, <3>2 DEF Shape
    <3>3. CASE nodes[node].id = "func_def"
      BY <3>3, Plain
    <3> QED BY <1>1, <3>2, <3>3
  <2>8. \A m \in 1..Len(nodes) : ~(m > Len(nodes))
    BY <1>1
  <2> QED BY <1>1, <2>1, <2>2, <2>3, <2>5, <2>6, <2>7, <2>8
<1> QED BY <1>1, <1>2, <1>3

LEMMA FuncBodyInv == ASSUME Inv, FuncBody PROVE Inv'
<1>1. CASE \E c : error(c)
  BY <1>1, ErrorStep
<1> DEFINE b == LastKid(nodes', node)
           e == Element(First)
           c == Concat(To(e, b), To("func_body", node))
<1>2. CASE /\ At("func_body") /\ e # "none" /\ nodes' = BodyNode(node) /\ from_func_def' = FALSE
           /\ cont' = (To(e, b) \o To("func_body", node)) \o Tail(cont)
  <2>1. e \in OneStatement
    BY <1>2 DEF Element, OneStatement
  <2>2. e \in Labels /\ e # "func_body" /\ Given(e) = {"body"} /\ "func_body" \in Labels
    BY <2>1, Nodes DEF OneStatement, Labels
  <2>3. /\ Grows(nodes, nodes', node) /\ HasBody(nodes', node) /\ nodes'[node].id = nodes[node].id
        /\ b \in 1..Len(nodes') /\ b > node /\ nodes'[b].id = "body"
        /\ b \in 1..Len(nodes) => nodes[b].id = "body"
        /\ \A ct : (Open(ct, node, "else") <=> Open(cont, node, "else")) => Shape(nodes', ct, FALSE, node)
        /\ \A m \in 1..Len(nodes') : m > Len(nodes) => \A ct, fd : Shape(nodes', ct, fd, m)
    BY <1>2, BodyOpened
  <2>4. /\ cont[1].node = node /\ cont # <<>> /\ node \in 1..Len(nodes) /\ Len(nodes) \in Nat /\ nodes[node].id \in Given("func_body")
        /\ \A g : Open(cont, node, g) <=> g = "func_body" \/ Open(Tail(cont), node, g)
    BY <1>2, TopFacts
  <2> HIDE DEF b, e
  <2>5. node < b /\ node # b
    <3>1. b \in Int /\ node \in Int
      <4>1. Len(nodes') \in Nat
        BY <2>3, TreeFacts DEF Grows
      <4> QED BY <2>3, <2>4, <4>1
    <3> QED BY <2>3, <3>1
  <2>6. Call(nodes, nodes', cont, e, b)
    BY <2>2, <2>3, <2>4 DEF Call
  <2>7. Call(nodes, nodes', cont, "func_body", node)
    BY <1>2, <2>2, <2>3, <2>4, SameNode
  <2>8. Under(e, b, "func_body", node)
    BY <2>5 DEF Under
  <2>9. /\ Fits(nodes, nodes', cont, c) /\ Len(c) = 2 /\ c[1].at = e /\ c[2].at = "func_body" /\ c[2].node = node
        /\ \A m, h : Open(c, m, h) <=> (m = b /\ h = e) \/ (m = node /\ h = "func_body")
    BY <2>6, <2>7, <2>8, TwoCalls
  <2>10. cont' = c \o Tail(cont)
    BY <1>2 DEF c, Concat, b, e
  <2> HIDE DEF c
  <2>11. Open(cont', node, "else") <=> Open(cont, node, "else")
    <3>1. Open(cont', node, "else") <=> Open(c, node, "else") \/ Open(Tail(cont), node, "else")
      BY <2>3, <2>4, <2>9, <2>10, OpenAfter
    <3> QED BY <2>4, <2>5, <2>9, <3>1
  <2>12. \A i \in 1..Len(c) : c[i].at = "func_body" => HasBody(nodes', c[i].node)
    BY <2>2, <2>3, <2>9, TwoIndexes
  <2>13. \A m \in 1..Len(nodes') : m = node \/ m > Len(nodes) => Shape(nodes', cont', FALSE, m)
    BY <2>3, <2>11
  <2> QED BY <1>2, <2>3, <2>9, <2>10, <2>12, <2>13, StepInv
<1> QED BY <1>1, <1>2 DEF FuncBody, Expect, Then, flags

LEMMA FuncBodyEndInv == ASSUME Inv, FuncBodyEnd PROVE Inv'
<1>1. At("func_body") /\ nodes' = BodyNode(node) /\ from_func_def' = FALSE /\ cont' = <<>> \o Tail(cont)
  BY DEF FuncBodyEnd, Then
<1>2. /\ Grows(nodes, nodes', node)
      /\ \A ct : (Open(ct, node, "else") <=> Open(cont, node, "else")) => Shape(nodes', ct, FALSE, node)
      /\ \A m \in 1..Len(nodes') : m > Len(nodes) => \A ct, fd : Shape(nodes', ct, fd, m)
  BY <1>1, BodyOpened
<1>3. Open(cont', node, "else") <=> Open(cont, node, "else")
  <2>1. Open(cont, node, "else") <=> Open(Tail(cont), node, "else")
    BY <1>1, TopFacts
  <2>2. Open(cont', node, "else") <=> Open(Tail(cont), node, "else")
    BY <1>1, ReturnOpen
  <2> QED BY <2>1, <2>2
<1>4. \A m \in 1..Len(nodes') : m = node \/ m > Len(nodes) => Shape(nodes', cont', FALSE, m)
  BY <1>2, <1>3
<1> QED BY <1>1, <1>2, <1>4, NoCalls, NoIndex, StepInv

(* A function that calls func_body for a body to come. *)
LEMMA FuncDefBodyInv == ASSUME Inv, FuncDefBody PROVE Inv'
<1>1. ASSUME At("func_def_body") PROVE nodes[node].id = "func_def" /\ Later("func_def_body") = {}
  BY <1>1, TopFacts, Nodes, NoMore
<1>2. CASE At("func_def_body") /\ nodes' = nodes /\ from_func_def' = from_func_def /\ cont' = <<>> \o Tail(cont)
  BY <1>1, <1>2, Plain, StayAndReturn
<1>3. CASE /\ At("func_def_body") /\ nodes' = nodes /\ from_func_def' = TRUE
           /\ cont' = (To("func_body", node) \o To("func_def_end", node)) \o Tail(cont)
  <2> DEFINE c == Concat(To("func_body", node), To("func_def_end", node))
  <2>1. IsTree(nodes) /\ Grows(nodes, nodes, node) /\ Len(nodes) \in Nat
    BY <1>3, TopFacts, Stays
  <2>2. /\ {"func_body", "func_def_end"} \subseteq Labels /\ "func_def" \in Given("func_body")
        /\ "func_def" \in Given("func_def_end") /\ "func_def_end" \in Later("func_body")
    BY Nodes, Afterwards DEF Labels
  <2>3. /\ Call(nodes, nodes, cont, "func_body", node) /\ Call(nodes, nodes, cont, "func_def_end", node)
        /\ Under("func_body", node, "func_def_end", node)
    BY <1>1, <1>3, <2>1, <2>2, SameNode DEF Under
  <2>4. Fits(nodes, nodes, cont, c) /\ Len(c) = 2 /\ c # <<>> /\ c[1].at = "func_body" /\ c[2].at = "func_def_end"
    BY <2>3, TwoCalls
  <2>5. cont' = c \o Tail(cont)
    BY <1>3 DEF c, Concat
  <2> HIDE DEF c
  <2>6. \A i \in 1..Len(c) : c[i].at = "func_body" => i = 1
    BY <2>4, TwoIndexes
  <2>7. \A m \in 1..Len(nodes) : ~(m > Len(nodes))
    BY <2>1
  <2>8. Shape(nodes, cont', TRUE, node)
    BY <1>1, <1>3, Plain
  <2> QED BY <1>3, <2>1, <2>4, <2>5, <2>6, <2>7, <2>8, StepInv
<1> QED BY <1>2, <1>3 DEF FuncDefBody, Then

(* An item is the next child of the assignment, the declaration or the return. *)
LEMMA ItemStep ==
    ASSUME Inv, At("item"), NEW id, id \in ItemIds, NEW attr, nodes' = Added(nodes, node, id, attr),
           from_func_def' = from_func_def, cont' = <<>> \o Tail(cont)
    PROVE  Inv'
<1>1. /\ IsTree(nodes) /\ node \in 1..Len(nodes) /\ Shape(nodes, cont, from_func_def, node)
      /\ nodes[node].id = "assign" \/ nodes[node].id = "return" \/ nodes[node].id = "var_declare"
      /\ \A g : Open(cont, node, g) <=> g = "item" \/ Open(Tail(cont), node, g)
      /\ \A g : Open(Tail(cont), node, g) => g = "items"
  BY TopFacts, Nodes, Afterwards
<1>2. /\ nodes'[node].id = nodes[node].id /\ nodes'[Fresh].id = id /\ KidsOf(nodes', Fresh) = {}
  BY OneNew
<1>3. ~Open(cont', node, "ids") /\ ~Open(cont', node, "item")
  BY <1>1, ReturnOpen
<1>4. /\ \A S : KidsIn(nodes, node, S) /\ id \in S => KidsIn(nodes', node, S)
      /\ \A S : id \notin S \/ ~KidsIn(nodes, node, S) => ~KidsIn(nodes', node, S)
      /\ VariablesFirst(nodes, node) => VariablesFirst(nodes', node)
  BY <1>1, OneMore
<1>5. id = "expr" \/ id = "func_call"
  BY DEF ItemIds
<1>6. Shape(nodes', cont', FALSE, node)
  <2>1. CASE nodes[node].id = "assign"
    <3>1. VariablesFirst(nodes, node) /\ ~KidsIn(nodes, node, ItemIds)
      BY <1>1, <2>1 DEF Shape
    <3>2. id \notin {"variable"}
      BY <1>5
    <3>3. VariablesFirst(nodes', node) /\ ~KidsIn(nodes', node, ItemIds) /\ ~KidsIn(nodes', node, {"variable"})
      BY <1>4, <3>1, <3>2
    <3> QED BY <1>2, <1>3, <2>1, <3>3 DEF Shape
  <2>2. CASE nodes[node].id = "return"
    <3>1. KidsIn(nodes', node, ItemIds)
      BY <1>1, <1>4, <2>2 DEF Shape
    <3> QED BY <1>2, <2>2, <3>1 DEF Shape
  <2>3. CASE nodes[node].id = "var_declare"
    <3>1. KidsOf(nodes, node) = {}
      BY <1>1, <2>3 DEF Shape
    <3>2. KidsOf(nodes', node) = {Len(nodes) + 1}
      BY <1>1, <3>1, NewKid
    <3>3. KidsIn(nodes', node, ItemIds)
      BY <1>4, <3>1, NoKids
    <3> QED BY <1>2, <1>3, <2>3, <3>2, <3>3 DEF Shape
  <2> QED BY <1>1, <2>1, <2>2, <2>3
<1>7. Shape(nodes', cont', FALSE, Fresh)
  BY <1>2, <1>5, Leaf
<1> QED BY <1>6, <1>7, AddAndReturn

LEMMA ItemCallInv == ASSUME Inv, ItemCall PROVE Inv'
<1>1. /\ At("item") /\ from_func_def' = from_func_def /\ cont' = <<>> \o Tail(cont)
      /\ \E attr : nodes' = Added(nodes, node, "func_call", attr)
  BY DEF ItemCall, Then
<1>2. "func_call" \in ItemIds
  BY DEF ItemIds
<1> QED BY <1>1, <1>2, ItemStep

LEMMA ItemExpressionInv == ASSUME Inv, ItemExpression PROVE Inv'
<1>1. /\ At("item") /\ from_func_def' = from_func_def /\ cont' = <<>> \o Tail(cont)
      /\ \E attr : nodes' = Added(nodes, node, "expr", attr)
  BY DEF ItemExpression, Connected, Then
<1>2. "expr" \in ItemIds
  BY DEF ItemIds
<1> QED BY <1>1, <1>2, ItemStep

LEMMA itemsInv == ASSUME Inv, items PROVE Inv'
<1>1. CASE \E c : error(c)
  BY <1>1, ErrorStep
<1>2. ASSUME At("items")
      PROVE  /\ nodes[node].id = "assign" \/ nodes[node].id = "return"
             /\ Later("items") = {} /\ {"item", "items"} \subseteq Labels /\ "items" \in Later("item")
             /\ nodes[node].id \in Given("item") /\ nodes[node].id \in Given("items")
             /\ \A ct : ~Open(ct, node, "ids") => Shape(nodes, ct, FALSE, node)
  <2>1. /\ nodes[node].id = "assign" \/ nodes[node].id = "return"
        /\ Shape(nodes, cont, from_func_def, node) /\ Later("items") = {}
        /\ \A g : Open(cont, node, g) <=> g = "items" \/ Open(Tail(cont), node, g)
        /\ \A g : Open(Tail(cont), node, g) => g \in Later("items")
    BY <1>2, TopFacts, Nodes, NoMore
  <2>2. ~Open(cont, node, "ids") /\ ~Open(cont, node, "item")
    BY <2>1
  <2>3. ASSUME NEW ct, ~Open(ct, node, "ids") PROVE Shape(nodes, ct, FALSE, node)
    <3>1. CASE nodes[node].id = "assign"
      <4>1. VariablesFirst(nodes, node) /\ ~KidsIn(nodes, node, ItemIds) /\ ~KidsIn(nodes, node, {"variable"})
        BY <2>1, <2>2, <3>1 DEF Shape
      <4> QED BY <2>3, <3>1, <4>1 DEF Shape
    <3>2. CASE nodes[node].id = "return"
      BY <2>1, <3>2 DEF Shape
    <3> QED BY <2>1, <3>1, <3>2
  <2> QED BY <2>1, <2>3, Nodes, Afterwards DEF Labels
<1>3. CASE At("items") /\ nodes' = nodes /\ from_func_def' = from_func_def /\ cont' = <<>> \o Tail(cont)
  <2>1. ~Open(cont', node, "ids")
    BY <1>2, <1>3, ReturnOpen, TopFacts
  <2> QED BY <1>2, <1>3, <2>1, StayAndReturn
<1>4. CASE /\ At("items") /\ nodes' = nodes /\ from_func_def' = from_func_def
           /\ cont' = (To("item", node) \o To("items", node)) \o Tail(cont)
  <2> DEFINE c == Concat(To("item", node), To("items", node))
  <2>1. cont' = c \o Tail(cont)
    BY <1>4 DEF Concat
  <2>2. ~Open(cont', node, "ids")
    <3>1. cont # <<>> /\ Grows(nodes, nodes, node) /\ ~Open(Tail(cont), node, "ids")
      BY <1>2, <1>4, TopFacts, Stays
    <3>2. Call(nodes, nodes, cont, "item", node) /\ Call(nodes, nodes, cont, "items", node)
      BY <1>2, <1>4, <3>1, SameNode
    <3>3. Under("item", node, "items", node)
      BY <1>2, <1>4 DEF Under
    <3>4. Fits(nodes, nodes, cont, c) /\ ~Open(c, node, "ids")
      BY <3>2, <3>3, TwoCalls
    <3> HIDE DEF c
    <3> QED BY <2>1, <3>1, <3>4, OpenAfter
  <2>3. Shape(nodes, cont', FALSE, node)
    BY <1>2, <1>4, <2>2
  <2> QED BY <1>2, <1>4, <2>1, <2>3, StayAndCalls
<1> QED BY <1>1, <1>3, <1>4 DEF items, Expect, Then, flags

LEMMA ElementEndInv == ASSUME Inv, ElementEnd PROVE Inv'
<1>1. CASE \E c : error(c)
  BY <1>1, ErrorStep
<1>2. CASE At("func_def_end") /\ nodes' = nodes /\ from_func_def' = from_func_def /\ cont' = <<>> \o Tail(cont)
  <2>1. nodes[node].id = "func_def"
    BY <1>2, TopFacts, Nodes
  <2> QED BY <1>2, <2>1, Plain, StayAndReturn
<1>3. CASE At("element_end") /\ nodes' = nodes /\ from_func_def' = from_func_def /\ cont' = <<>> \o Tail(cont)
  <2>1. /\ nodes[node].id = "branch" \/ nodes[node].id = "while"
        /\ Shape(nodes, cont, from_func_def, node) /\ ~from_func_def
        /\ \A g : Open(cont, node, g) <=> g = "element_end" \/ Open(Tail(cont), node, g)
    BY <1>3, TopFacts, Nodes
  <2>2. Open(cont', node, "else") <=> Open(cont, node, "else")
    BY <1>3, <2>1, ReturnOpen
  <2>3. ~Pending(cont, from_func_def, node) /\ ~Pending(cont', FALSE, node)
    BY <2>1 DEF Pending
  <2> DEFINE ct2 == cont'
  <2> HIDE DEF ct2
  <2>4. Shape(nodes, ct2, FALSE, node)
    BY <2>1, <2>2, <2>3 DEF Shape, ct2
  <2> QED BY <1>3, <2>4, StayAndReturn DEF ct2
<1> QED BY <1>1, <1>2, <1>3 DEF ElementEnd, Expect, Then, flags

LEMMA argInv == ASSUME Inv, arg PROVE Inv'
<1>1. CASE \E c : error(c)
  BY <1>1, ErrorStep
<1>2. CASE /\ At("arg") /\ from_func_def' = from_func_def /\ cont' = <<>> \o Tail(cont)
           /\ \E id \in {"variable", "constant"} : nodes' = Added(nodes, node, id, <<Ahead(1).attr>>)
  <2>1. PICK id \in {"variable", "constant"} : nodes' = Added(nodes, node, id, <<Ahead(1).attr>>)
    BY <1>2
  <2>2. nodes[node].id = "func_call" /\ KidsIn(nodes, node, {"constant", "variable"})
    BY <1>2, CallKids
  <2>3. IsTree(nodes) /\ node \in 1..Len(nodes)
    BY <1>2, TopFacts
  <2>4. nodes'[node].id = nodes[node].id /\ nodes'[Fresh].id = id /\ KidsOf(nodes', Fresh) = {}
    BY <1>2, <2>1, OneNew
  <2>5. KidsIn(nodes', node, {"constant", "variable"})
    BY <2>1, <2>2, <2>3, OneMore
  <2>6. Shape(nodes', cont', FALSE, node) /\ Shape(nodes', cont', FALSE, Fresh)
    BY <2>2, <2>4, <2>5, CallShape, Leaf, Plain
  <2> QED BY <1>2, <2>1, <2>6, AddAndReturn
<1> QED BY <1>1, <1>2 DEF arg, Expect, Then, flags

LEMMA argsInv == ASSUME Inv, args PROVE Inv'
<1>1. CASE \E c : error(c)
  BY <1>1, ErrorStep
<1>2. ASSUME At("args")
      PROVE  /\ nodes[node].id = "func_call" /\ \A ct, fd : Shape(nodes, ct, fd, node)
             /\ {"arg", "args"} \subseteq Labels /\ Later("args") = {} /\ "args" \in Later("arg")
             /\ "func_call" \in Given("arg") /\ "func_call" \in Given("args")
  BY <1>2, CallKids, CallShape, Nodes, NoMore, Afterwards DEF Labels
<1>3. CASE At("args") /\ nodes' = nodes /\ from_func_def' = from_func_def /\ cont' = <<>> \o Tail(cont)
  BY <1>2, <1>3, StayAndReturn
<1>4. CASE /\ At("args") /\ nodes' = nodes /\ from_func_def' = from_func_def
           /\ cont' = (To("arg", node) \o To("args", node)) \o Tail(cont)
  <2>1. cont' = Concat(To("arg", node), To("args", node)) \o Tail(cont)
    BY <1>4 DEF Concat
  <2> QED BY <1>2, <1>4, <2>1, StayAndCalls
<1> QED BY <1>1, <1>3, <1>4 DEF args, Expect, Then, flags

(* A statement is a child of a body. *)
LEMMA Statement ==
    ASSUME Inv, NEW f, At(f), f \in OneStatement, NEW id \in StatementIds, NEW attr, NEW new,
           new = Added(nodes, node, id, attr)
    PROVE  /\ nodes[node].id = "body" /\ KidsIn(new, node, StatementIds) /\ f # "func_body" /\ Later(f) = {}
           /\ cont[1].node = node /\ cont # <<>> /\ from_func_def = FALSE
<1>1. /\ nodes[node].id = "body" /\ IsTree(nodes) /\ node \in 1..Len(nodes) /\ Later(f) = {} /\ cont # <<>>
      /\ cont[1].node = node /\ Shape(nodes, cont, from_func_def, node)
  BY TopFacts, Nodes, NoMore
<1>2. f # "func_body"
  BY DEF OneStatement
<1>3. KidsIn(nodes, node, StatementIds)
  BY <1>1 DEF Shape
<1>4. KidsIn(new, node, StatementIds)
  BY <1>1, <1>3, OneMore
<1>5. from_func_def = FALSE
  BY <1>2, TopFacts
<1> QED BY <1>1, <1>2, <1>4, <1>5

LEMMA func_elementInv == ASSUME Inv, func_element PROVE Inv'
<1> DEFINE call == Added(nodes, node, "func_call", <<token.attr>>)
<1>1. ASSUME At("func_element")
      PROVE  /\ nodes[node].id = "body" /\ KidsIn(call, node, StatementIds) /\ {"arg", "args"} \subseteq Labels
             /\ "func_call" \in Given("arg") /\ "func_call" \in Given("args") /\ "args" \in Later("arg")
             /\ cont # <<>> /\ IsTree(nodes)
  <2>1. "func_element" \in OneStatement /\ "func_call" \in StatementIds
    BY DEF OneStatement, StatementIds
  <2>2. nodes[node].id = "body" /\ KidsIn(call, node, StatementIds)
    BY <1>1, <2>1, Statement
  <2> QED BY <1>1, <2>2, TopFacts, Nodes, Afterwards DEF Labels
<1>2. CASE /\ At("func_element") /\ nodes' = Added(call, Fresh, "body", <<>>) /\ from_func_def' = from_func_def
           /\ cont' = <<>> \o Tail(cont)
  <2>1. /\ Grows(nodes, nodes', node) /\ nodes'[node].id = "body" /\ KidsIn(nodes', node, StatementIds)
        /\ nodes'[Fresh].id = "func_call" /\ HasKids(nodes', Fresh, <<"body">>)
        /\ nodes'[Fresh + 1].id = "body" /\ KidsOf(nodes', Fresh + 1) = {}
    BY <1>1, <1>2, TwoNew
  <2>2. \A g : ~Open(cont', Fresh, g)
    <3>1. Fresh > Len(nodes)
      BY <1>2, TopFacts DEF Fresh
    <3>2. \A g : ~Open(Tail(cont), Fresh, g)
      BY <1>1, <1>2, <3>1, Stays, NoCalls, OpenAfter
    <3> QED BY <1>2, <3>2, ReturnOpen
  <2> DEFINE ct2 == cont'
  <2>3. \A g : ~Open(ct2, Fresh, g)
    BY <2>2
  <2> HIDE DEF ct2
  <2>4. Shape(nodes', ct2, FALSE, Fresh)
    BY <2>1, <2>3 DEF Shape
  <2>5. Shape(nodes', cont', FALSE, node) /\ Shape(nodes', cont', FALSE, Fresh + 1)
    BY <2>1, Leaf, BodyShape
  <2> QED BY <1>2, <2>4, <2>5, NoCalls, NoIndex, TwoNodesStep DEF ct2
<1>3. CASE /\ At("func_element") /\ nodes' = call /\ from_func_def' = from_func_def
           /\ cont' = (To("arg", Fresh) \o To("args", Fresh)) \o Tail(cont)
  <2>1. /\ Grows(nodes, nodes', node) /\ nodes'[node].id = "body" /\ nodes'[Fresh].id = "func_call"
        /\ KidsOf(nodes', Fresh) = {} /\ Fresh \in 1..Len(nodes') /\ Fresh > node /\ Fresh \notin 1..Len(nodes)
    BY <1>1, <1>3, OneNew
  <2>2. /\ Call(nodes, nodes', cont, "arg", Fresh) /\ Call(nodes, nodes', cont, "args", Fresh)
        /\ Under("arg", Fresh, "args", Fresh)
    BY <1>1, <1>3, <2>1, NewNode DEF Under
  <2>3. Shape(nodes', cont', FALSE, node) /\ Shape(nodes', cont', FALSE, Fresh)
    BY <1>1, <1>3, <2>1, Leaf, BodyShape
  <2>4. cont' = Concat(To("arg", Fresh), To("args", Fresh)) \o Tail(cont)
    BY <1>3 DEF Concat
  <2> QED BY <1>3, <2>2, <2>3, <2>4, AddAndCalls
<1> QED BY <1>2, <1>3 DEF func_element, Then, flags

LEMMA return_elementInv == ASSUME Inv, return_element PROVE Inv'
<1>1. CASE \E c : error(c)
  BY <1>1, ErrorStep
<1>2. ASSUME At("return_element"), nodes' = Added(nodes, node, "return", <<>>)
      PROVE  /\ {"item", "items"} \subseteq Labels /\ "return" \in Given("item") /\ "return" \in Given("items")
             /\ "items" \in Later("item") /\ nodes'[Fresh].id = "return"
             /\ Fresh \in 1..Len(nodes') /\ Fresh > node /\ Fresh \notin 1..Len(nodes)
             /\ Shape(nodes', cont', FALSE, node) /\ Shape(nodes', cont', FALSE, Fresh)
  <2>1. "return_element" \in OneStatement /\ "return" \in StatementIds
    BY DEF OneStatement, StatementIds
  <2>2. nodes[node].id = "body" /\ KidsIn(nodes', node, StatementIds)
    BY <1>2, <2>1, Statement
  <2>3. /\ nodes'[node].id = "body" /\ nodes'[Fresh].id = "return" /\ KidsOf(nodes', Fresh) = {}
        /\ Fresh \in 1..Len(nodes') /\ Fresh > node /\ Fresh \notin 1..Len(nodes)
    BY <1>2, <2>2, OneNew
  <2> QED BY <2>2, <2>3, Leaf, BodyShape, Nodes, Afterwards DEF Labels
<1>3. CASE /\ At("return_element") /\ nodes' = Added(nodes, node, "return", <<>>) /\ from_func_def' = from_func_def
           /\ cont' = <<>> \o Tail(cont)
  BY <1>2, <1>3, AddAndReturn
<1>4. CASE /\ At("return_element") /\ nodes' = Added(nodes, node, "return", <<>>) /\ from_func_def' = from_func_def
           /\ cont' = (To("item", Fresh) \o To("items", Fresh)) \o Tail(cont)
  <2>1. /\ Call(nodes, nodes', cont, "item", Fresh) /\ Call(nodes, nodes', cont, "items", Fresh)
        /\ Under("item", Fresh, "items", Fresh)
    BY <1>2, <1>4, NewNode DEF Under
  <2>2. cont' = Concat(To("item", Fresh), To("items", Fresh)) \o Tail(cont)
    BY <1>4 DEF Concat
  <2> QED BY <1>2, <1>4, <2>1, <2>2, AddAndCalls
<1> QED BY <1>1, <1>3, <1>4 DEF return_element, Expect, Then, flags

LEMMA decl_elementInv == ASSUME Inv, decl_element PROVE Inv'
<1>1. CASE \E c : error(c)
  BY <1>1, ErrorStep
<1> DEFINE a == <<Ahead(1).attr>>
<1>2. ASSUME At("decl_element"), nodes' = Added(nodes, node, "var_declare", a)
      PROVE  /\ "item" \in Labels /\ "var_declare" \in Given("item") /\ nodes'[Fresh].id = "var_declare"
             /\ Fresh \in 1..Len(nodes') /\ Fresh > node /\ Fresh \notin 1..Len(nodes)
             /\ Shape(nodes', cont', FALSE, node) /\ Shape(nodes', cont', FALSE, Fresh)
  <2>1. "decl_element" \in OneStatement /\ "var_declare" \in StatementIds
    BY DEF OneStatement, StatementIds
  <2>2. nodes[node].id = "body" /\ KidsIn(nodes', node, StatementIds)
    BY <1>2, <2>1, Statement
  <2>3. /\ nodes'[node].id = "body" /\ nodes'[Fresh].id = "var_declare" /\ KidsOf(nodes', Fresh) = {}
        /\ Fresh \in 1..Len(nodes') /\ Fresh > node /\ Fresh \notin 1..Len(nodes)
    BY <1>2, <2>2, OneNew
  <2> QED BY <2>2, <2>3, Leaf, BodyShape, Nodes DEF Labels
<1>3. CASE /\ At("decl_element") /\ nodes' = Added(nodes, node, "var_declare", a) /\ from_func_def' = from_func_def
           /\ cont' = <<>> \o Tail(cont)
  BY <1>2, <1>3, AddAndReturn
<1>4. CASE /\ At("decl_element") /\ nodes' = Added(nodes, node, "var_declare", a) /\ from_func_def' = from_func_def
           /\ cont' = To("item", Fresh) \o Tail(cont)
  <2>1. Call(nodes, nodes', cont, "item", Fresh)
    BY <1>2, <1>4, NewNode
  <2> QED BY <1>2, <1>4, <2>1, AddAndCall
<1> QED BY <1>1, <1>3, <1>4 DEF decl_element, Expect, Then, flags

LEMMA assignmentInv == ASSUME Inv, assignment PROVE Inv'
<1>1. CASE \E c : error(c)
  BY <1>1, ErrorStep
<1> DEFINE assign == Added(nodes, node, "assign", <<>>)
           c == To("ids", Fresh)
<1>2. CASE /\ At("assignment") /\ nodes' = Added(assign, Fresh, "variable", <<token.attr>>)
           /\ from_func_def' = from_func_def /\ cont' = To("ids", Fresh) \o Tail(cont)
  <2>1. "assignment" \in OneStatement /\ "assign" \in StatementIds
    BY DEF OneStatement, StatementIds
  <2>2. nodes[node].id = "body" /\ KidsIn(assign, node, StatementIds) /\ cont # <<>>
    BY <1>2, <2>1, Statement
  <2>3. /\ Grows(nodes, nodes', node) /\ nodes'[node].id = "body" /\ KidsIn(nodes', node, StatementIds)
        /\ nodes'[Fresh].id = "assign" /\ VariablesFirst(nodes', Fresh)
        /\ KidsIn(nodes', Fresh, {"variable"}) /\ ~KidsIn(nodes', Fresh, ItemIds)
        /\ nodes'[Fresh + 1].id = "variable"
        /\ Fresh \in 1..Len(nodes') /\ Fresh > node /\ Fresh \notin 1..Len(nodes)
    <3>1. assign = Added(nodes, node, "assign", <<>>) /\ nodes' = Added(assign, Fresh, "variable", <<token.attr>>)
      BY <1>2
    <3> HIDE DEF assign
    <3>2. "variable" \notin ItemIds
      BY DEF ItemIds
    <3>3. /\ Grows(nodes, nodes', node) /\ nodes'[node].id = "body" /\ KidsIn(nodes', node, StatementIds)
          /\ nodes'[Fresh].id = "assign" /\ VariablesFirst(nodes', Fresh) /\ nodes'[Fresh + 1].id = "variable"
          /\ Fresh \in 1..Len(nodes') /\ Fresh > node /\ Fresh \notin 1..Len(nodes)
      BY <1>2, <2>2, <3>1, TwoNew
    <3>4. KidsIn(nodes', Fresh, {"variable"}) /\ ~KidsIn(nodes', Fresh, ItemIds)
      BY <1>2, <3>1, <3>2, TwoNew
    <3> QED BY <3>3, <3>4
  <2>4. "ids" \in Labels /\ "assign" \in Given("ids")
    BY Nodes DEF Labels
  <2>5. Call(nodes, nodes', cont, "ids", Fresh)
    BY <1>2, <2>3, <2>4, NewNode
  <2>6. /\ Fits(nodes, nodes', cont, c) /\ \A i \in 1..Len(c) : c[i].at # "func_body"
        /\ Open(c, Fresh, "ids")
    BY <2>5, QuietCall
  <2>7. cont' = c \o Tail(cont)
    BY <1>2
  <2> HIDE DEF c
  <2>8. Open(cont', Fresh, "ids")
    BY <2>2, <2>3, <2>6, <2>7, OpenAfter
  <2>9. Shape(nodes', cont', FALSE, Fresh)
    <3> DEFINE ct2 == cont'
    <3>1. Open(ct2, Fresh, "ids")
      BY <2>8
    <3> HIDE DEF ct2
    <3>2. Shape(nodes', ct2, FALSE, Fresh)
      BY <2>3, <3>1 DEF Shape
    <3> QED BY <3>2 DEF ct2
  <2>10. Shape(nodes', cont', FALSE, node) /\ Shape(nodes', cont', FALSE, Fresh + 1)
    BY <2>3, Plain, BodyShape
  <2> QED BY <1>2, <2>6, <2>7, <2>9, <2>10, TwoNodesStep
<1> QED BY <1>1, <1>2 DEF assignment, Expect, Then, flags

LEMMA idsInv == ASSUME Inv, ids PROVE Inv'
<1>1. CASE \E c : error(c)
  BY <1>1, ErrorStep
<1>2. ASSUME At("ids")
      PROVE  /\ nodes[node].id = "assign" /\ IsTree(nodes) /\ node \in 1..Len(nodes) /\ cont # <<>>
             /\ cont = To("ids", node) \o Tail(cont) /\ {"ids", "item", "items"} \subseteq Labels
             /\ Later("ids") = {} /\ "assign" \in Given("ids") /\ "assign" \in Given("item") /\ "assign" \in Given("items")
             /\ "items" \in Later("item") /\ \A g : ~Open(Tail(cont), node, g)
             /\ VariablesFirst(nodes, node) /\ ~KidsIn(nodes, node, ItemIds) /\ KidsIn(nodes, node, {"variable"})
             /\ Open(cont, node, "ids")
  <2>1. /\ nodes[node].id = "assign" /\ IsTree(nodes) /\ node \in 1..Len(nodes) /\ Later("ids") = {}
        /\ cont = To("ids", node) \o Tail(cont) /\ Shape(nodes, cont, from_func_def, node) /\ cont # <<>>
        /\ Open(cont, node, "ids") /\ \A g : Open(Tail(cont), node, g) => g \in Later("ids")
    BY <1>2, TopFacts, Nodes, NoMore
  <2>2. VariablesFirst(nodes, node) /\ ~KidsIn(nodes, node, ItemIds) /\ KidsIn(nodes, node, {"variable"})
    BY <2>1 DEF Shape
  <2> QED BY <2>1, <2>2, Nodes, Afterwards DEF Labels
<1>3. CASE /\ At("ids") /\ nodes' = Added(nodes, node, "variable", <<Ahead(2).attr>>)
           /\ from_func_def' = from_func_def /\ cont' = cont
  <2>1. Grows(nodes, nodes', node) /\ nodes'[node].id = "assign" /\ nodes'[Fresh].id = "variable"
    BY <1>2, <1>3, OneNew
  <2>2. VariablesFirst(nodes', node) /\ ~KidsIn(nodes', node, ItemIds) /\ KidsIn(nodes', node, {"variable"})
    BY <1>2, <1>3, OneMore
  <2>3. Call(nodes, nodes', cont, "ids", node)
    BY <1>2, <1>3, <2>1, SameNode
  <2>4. Shape(nodes', cont, FALSE, node)
    BY <1>2, <1>3, <2>1, <2>2 DEF Shape
  <2>5. Shape(nodes', cont', FALSE, node) /\ Shape(nodes', cont', FALSE, Fresh)
    BY <1>3, <2>1, <2>4, Plain
  <2> QED BY <1>2, <1>3, <2>3, <2>5, AddAndCall
<1>4. CASE /\ At("ids") /\ nodes' = nodes /\ from_func_def' = from_func_def
           /\ cont' = (To("item", node) \o To("items", node)) \o Tail(cont)
  <2> DEFINE c == Concat(To("item", node), To("items", node))
  <2>1. cont' = c \o Tail(cont)
    BY <1>4 DEF Concat
  <2>2. ~Open(cont', node, "ids") /\ Open(cont', node, "item")
    <3>1. Grows(nodes, nodes, node)
      BY <1>2, <1>4, Stays
    <3>2. Call(nodes, nodes, cont, "item", node) /\ Call(nodes, nodes, cont, "items", node)
      BY <1>2, <1>4, <3>1, SameNode
    <3>3. Under("item", node, "items", node)
      BY <1>2, <1>4 DEF Under
    <3>4. Fits(nodes, nodes, cont, c) /\ ~Open(c, node, "ids") /\ Open(c, node, "item")
      BY <3>2, <3>3, TwoCalls
    <3> HIDE DEF c
    <3>5. cont # <<>> /\ \A g : ~Open(Tail(cont), node, g)
      BY <1>2, <1>4
    <3>6. \A g : Open(c \o Tail(cont), node, g) <=> Open(c, node, g) \/ Open(Tail(cont), node, g)
      BY <3>1, <3>4, <3>5, OpenAfter
    <3> QED BY <2>1, <3>4, <3>5, <3>6
  <2>3. Shape(nodes, cont', FALSE, node)
    <3> DEFINE ct2 == cont'
    <3>1. ~Open(ct2, node, "ids") /\ Open(ct2, node, "item")
      BY <2>2
    <3> HIDE DEF ct2
    <3>2. Shape(nodes, ct2, FALSE, node)
      BY <1>2, <1>4, <3>1 DEF Shape
    <3> QED BY <3>2 DEF ct2
  <2> QED BY <1>2, <1>4, <2>1, <2>3, StayAndCalls
<1> QED BY <1>1, <1>3, <1>4 DEF ids, Expect, Then, flags

-----------------------------------------------------------------------------
(* Branches and loops.                                                      *)

(* The node of the construct and its condition. *)
LEMMA ConditionHead ==
    ASSUME Inv, NEW f, At(f), f \in OneStatement, NEW id, id = "branch" \/ id = "while", NEW attr, NEW head,
           head = Added(Added(nodes, node, id, <<>>), Fresh, "expr", attr)
    PROVE  /\ Grows(nodes, head, node) /\ IsTree(head) /\ Len(head) = Fresh + 1
           /\ head[node].id = "body" /\ KidsIn(head, node, StatementIds)
           /\ head[Fresh].id = id /\ HasKids(head, Fresh, <<"expr">>)
           /\ head[Fresh + 1].id = "expr" /\ KidsOf(head, Fresh + 1) = {}
           /\ Fresh \in 1..Len(head) /\ Fresh > node /\ Fresh \notin 1..Len(nodes)
           /\ Fresh \in Nat /\ node \in Nat /\ node \in 1..Len(nodes) /\ Fresh = Len(nodes) + 1 /\ Len(nodes) \in Nat
<1> DEFINE construct == Added(nodes, node, id, <<>>)
<1>1. id \in StatementIds
  BY DEF StatementIds
<1>2. nodes[node].id = "body" /\ KidsIn(construct, node, StatementIds)
  BY <1>1, Statement
<1>3. construct = Added(nodes, node, id, <<>>) /\ head = Added(construct, Fresh, "expr", attr)
  OBVIOUS
<1> HIDE DEF construct
<1>4. node \in 1..Len(nodes) /\ Fresh = Len(nodes) + 1 /\ Len(nodes) \in Nat
  BY TopFacts DEF Fresh
<1> QED BY <1>2, <1>3, <1>4, TwoNew

(* A body is announced: func_body is on top, what follows the body under it. *)
LEMMA Announced ==
    ASSUME Inv, NEW f, At(f), NEW n, Grows(nodes, nodes', node), NEW g, g = "else" \/ g = "element_end",
           Call(nodes, nodes', cont, "func_body", n), Call(nodes, nodes', cont, g, n),
           cont' = (To("func_body", n) \o To(g, n)) \o Tail(cont), from_func_def' = TRUE
    PROVE  /\ Pending(cont', TRUE, n)
           /\ \A h : Open(cont', n, h) <=> h = "func_body" \/ h = g \/ Open(Tail(cont), n, h)
           /\ (\A m \in 1..Len(nodes') : m = node \/ m > Len(nodes) => Shape(nodes', cont', TRUE, m)) => Inv'
<1> DEFINE c == Concat(To("func_body", n), To(g, n))
<1>1. Under("func_body", n, g, n)
  BY Afterwards DEF Under
<1>2. /\ Fits(nodes, nodes', cont, c) /\ Len(c) = 2 /\ c # <<>> /\ c[1].at = "func_body" /\ c[1].node = n /\ c[2].at = g
      /\ \A m, h : Open(c, m, h) <=> (m = n /\ h = "func_body") \/ (m = n /\ h = g)
  BY <1>1, TwoCalls
<1>3. cont' = c \o Tail(cont)
  BY DEF Concat
<1>4. cont # <<>>
  BY TopFacts
<1> HIDE DEF c
<1>5. (c \o Tail(cont))[1] = c[1]
  BY <1>2, <1>4, FirstCall
<1>6. \A h : Open(c \o Tail(cont), n, h) <=> Open(c, n, h) \/ Open(Tail(cont), n, h)
  BY <1>2, <1>4, OpenAfter
<1>7. \A i \in 1..Len(c) : c[i].at = "func_body" => i = 1
  BY <1>2, TwoIndexes
<1>8. ASSUME \A m \in 1..Len(nodes') : m = node \/ m > Len(nodes) => Shape(nodes', cont', TRUE, m)
      PROVE  Inv'
  BY <1>2, <1>3, <1>7, <1>8, StepInv
<1>9. Pending(cont', TRUE, n)
  BY <1>2, <1>3, <1>5 DEF Pending
<1>10. \A h : Open(cont', n, h) <=> h = "func_body" \/ h = g \/ Open(Tail(cont), n, h)
  BY <1>2, <1>3, <1>6
<1> QED BY <1>8, <1>9, <1>10

LEMMA while_elementInv == ASSUME Inv, while_element PROVE Inv'
<1>1. CASE \E c : error(c)
  BY <1>1, ErrorStep
<1>2. CASE /\ At("while_element") /\ from_func_def' = TRUE
           /\ \E attr : nodes' = Added(Added(nodes, node, "while", <<>>), Fresh, "expr", attr)
           /\ cont' = (To("func_body", Fresh) \o To("element_end", Fresh)) \o Tail(cont)
  <2>1. PICK attr : nodes' = Added(Added(nodes, node, "while", <<>>), Fresh, "expr", attr)
    BY <1>2
  <2>2. "while_element" \in OneStatement
    BY DEF OneStatement
  <2>3. /\ Grows(nodes, nodes', node) /\ nodes'[node].id = "body" /\ KidsIn(nodes', node, StatementIds)
        /\ nodes'[Fresh].id = "while" /\ HasKids(nodes', Fresh, <<"expr">>)
        /\ nodes'[Fresh + 1].id = "expr" /\ KidsOf(nodes', Fresh + 1) = {}
        /\ Fresh \in 1..Len(nodes') /\ Fresh > node /\ Fresh \notin 1..Len(nodes)
        /\ Len(nodes') = Fresh + 1 /\ Fresh = Len(nodes) + 1 /\ Len(nodes) \in Nat
    <3> DEFINE head == Added(Added(nodes, node, "while", <<>>), Fresh, "expr", attr)
    <3>1. /\ Grows(nodes, head, node) /\ head[node].id = "body" /\ KidsIn(head, node, StatementIds)
          /\ head[Fresh].id = "while" /\ HasKids(head, Fresh, <<"expr">>)
          /\ head[Fresh + 1].id = "expr" /\ KidsOf(head, Fresh + 1) = {}
          /\ Fresh \in 1..Len(head) /\ Fresh > node /\ Fresh \notin 1..Len(nodes)
          /\ Len(head) = Fresh + 1 /\ Fresh = Len(nodes) + 1 /\ Len(nodes) \in Nat
      BY <1>2, <2>2, ConditionHead
    <3>2. nodes' = head
      BY <2>1
    <3> HIDE DEF head
    <3> QED BY <3>1, <3>2
  <2>4. {"func_body", "element_end"} \subseteq Labels /\ "while" \in Given("func_body") /\ "while" \in Given("element_end")
    BY Nodes DEF Labels
  <2>5. Call(nodes, nodes', cont, "func_body", Fresh) /\ Call(nodes, nodes', cont, "element_end", Fresh)
    BY <1>2, <2>3, <2>4, NewNode
  <2>6. /\ Pending(cont', TRUE, Fresh)
        /\ (\A m \in 1..Len(nodes') : m = node \/ m > Len(nodes) => Shape(nodes', cont', TRUE, m)) => Inv'
    BY <1>2, <2>3, <2>5, Announced
  <2>7. Shape(nodes', cont', TRUE, Fresh)
    <3> DEFINE ct2 == cont'
    <3>1. Pending(ct2, TRUE, Fresh)
      BY <2>6
    <3> HIDE DEF ct2
    <3>2. Shape(nodes', ct2, TRUE, Fresh)
      BY <2>3, <3>1 DEF Shape
    <3> QED BY <3>2 DEF ct2
  <2>8. Shape(nodes', cont', TRUE, node) /\ Shape(nodes', cont', TRUE, Fresh + 1)
    BY <2>3, BodyShape, Leaf
  <2>9. \A m \in 1..Len(nodes') : m > Len(nodes) => m = Fresh \/ m = Fresh + 1
    BY <2>3
  <2> QED BY <2>6, <2>7, <2>8, <2>9
<1> QED BY <1>1, <1>2 DEF while_element, Condition, Connected, Expect, Then

LEMMA if_elementInv == ASSUME Inv, if_element PROVE Inv'
<1>1. CASE \E c : error(c)
  BY <1>1, ErrorStep
<1>2. "if_element" \in OneStatement
  BY DEF OneStatement
<1>3. CASE /\ At("if_element") /\ from_func_def' = TRUE
           /\ \E attr : nodes' = Added(Added(nodes, node, "branch", <<>>), Fresh, "expr", attr)
           /\ cont' = (To("func_body", Fresh) \o To("else", Fresh)) \o Tail(cont)
  <2>1. PICK attr : nodes' = Added(Added(nodes, node, "branch", <<>>), Fresh, "expr", attr)
    BY <1>3
  <2>3. /\ Grows(nodes, nodes', node) /\ nodes'[node].id = "body" /\ KidsIn(nodes', node, StatementIds)
        /\ nodes'[Fresh].id = "branch" /\ HasKids(nodes', Fresh, <<"expr">>)
        /\ nodes'[Fresh + 1].id = "expr" /\ KidsOf(nodes', Fresh + 1) = {}
        /\ Fresh \in 1..Len(nodes') /\ Fresh > node /\ Fresh \notin 1..Len(nodes)
        /\ Len(nodes') = Fresh + 1 /\ Fresh = Len(nodes) + 1 /\ Len(nodes) \in Nat
    <3> DEFINE head == Added(Added(nodes, node, "branch", <<>>), Fresh, "expr", attr)
    <3>1. /\ Grows(nodes, head, node) /\ head[node].id = "body" /\ KidsIn(head, node, StatementIds)
          /\ head[Fresh].id = "branch" /\ HasKids(head, Fresh, <<"expr">>)
          /\ head[Fresh + 1].id = "expr" /\ KidsOf(head, Fresh + 1) = {}
          /\ Fresh \in 1..Len(head) /\ Fresh > node /\ Fresh \notin 1..Len(nodes)
          /\ Len(head) = Fresh + 1 /\ Fresh = Len(nodes) + 1 /\ Len(nodes) \in Nat
      BY <1>2, <1>3, ConditionHead
    <3>2. nodes' = head
      BY <2>1
    <3> HIDE DEF head
    <3> QED BY <3>1, <3>2
  <2>4. {"func_body", "else"} \subseteq Labels /\ "branch" \in Given("func_body") /\ "branch" \in Given("else")
    BY Nodes DEF Labels
  <2>5. Call(nodes, nodes', cont, "func_body", Fresh) /\ Call(nodes, nodes', cont, "else", Fresh)
    BY <1>3, <2>3, <2>4, NewNode
  <2>6. /\ Pending(cont', TRUE, Fresh) /\ Open(cont', Fresh, "else")
        /\ (\A m \in 1..Len(nodes') : m = node \/ m > Len(nodes) => Shape(nodes', cont', TRUE, m)) => Inv'
    BY <1>3, <2>3, <2>5, Announced
  <2>7. Shape(nodes', cont', TRUE, Fresh)
    <3> DEFINE ct2 == cont'
    <3>1. Pending(ct2, TRUE, Fresh) /\ Open(ct2, Fresh, "else")
      BY <2>6
    <3> HIDE DEF ct2
    <3>2. Shape(nodes', ct2, TRUE, Fresh)
      BY <2>3, <3>1 DEF Shape
    <3> QED BY <3>2 DEF ct2
  <2>8. Shape(nodes', cont', TRUE, node) /\ Shape(nodes', cont', TRUE, Fresh + 1)
    BY <2>3, BodyShape, Leaf
  <2>9. \A m \in 1..Len(nodes') : m > Len(nodes) => m = Fresh \/ m = Fresh + 1
    BY <2>3
  <2> QED BY <2>6, <2>7, <2>8, <2>9
<1>4. CASE /\ At("if_element") /\ from_func_def' = from_func_def
           /\ \E attr : nodes' = Added(Added(Added(nodes, node, "branch", <<>>), Fresh, "expr", attr), Fresh, "body", <<>>)
           /\ cont' = To("else", Fresh) \o Tail(cont)
  <2>1. PICK attr : nodes' = Added(Added(Added(nodes, node, "branch", <<>>), Fresh, "expr", attr), Fresh, "body", <<>>)
    BY <1>4
  <2> DEFINE head == Added(Added(nodes, node, "branch", <<>>), Fresh, "expr", attr)
             c == To("else", Fresh)
  <2>2. nodes' = Added(head, Fresh, "body", <<>>)
    BY <2>1
  <2>3. /\ Grows(nodes, head, node) /\ IsTree(head) /\ Len(head) = Fresh + 1
        /\ head[node].id = "body" /\ KidsIn(head, node, StatementIds)
        /\ head[Fresh].id = "branch" /\ HasKids(head, Fresh, <<"expr">>)
        /\ head[Fresh + 1].id = "expr" /\ KidsOf(head, Fresh + 1) = {}
        /\ Fresh \in 1..Len(head) /\ Fresh > node /\ Fresh \notin 1..Len(nodes)
        /\ Fresh \in Nat /\ node \in Nat /\ node \in 1..Len(nodes) /\ Fresh = Len(nodes) + 1 /\ Len(nodes) \in Nat
    BY <1>2, <1>4, ConditionHead
  <2> HIDE DEF head
  <2>4. /\ Fresh \in 0..Len(head) /\ node \in 1..Len(head) /\ node # Fresh /\ Fresh + 1 # Fresh
        /\ Fresh + 1 \in 1..Len(head) /\ Fresh \in {node} \cup (Len(nodes) + 1)..Len(head)
    BY <2>3
  <2>5. /\ IsTree(nodes') /\ Len(nodes') = Len(head) + 1 /\ \A m \in 1..Len(head) : nodes'[m] = head[m]
        /\ nodes'[Len(head) + 1].id = "body"
    BY <2>2, <2>3, <2>4, AddedFacts
  <2>6. Grows(nodes, nodes', node)
    BY <2>2, <2>3, <2>4, GrowsMore
  <2>7. /\ KidsOf(nodes', Len(head) + 1) = {} /\ KidsOf(nodes', Fresh + 1) = {}
        /\ KidsOf(nodes', node) = KidsOf(head, node)
    <3>1. /\ KidsOf(nodes', Len(head) + 1) = {}
          /\ \A n \in 1..Len(head) : n # Fresh => KidsOf(nodes', n) = KidsOf(head, n)
      BY <2>2, <2>3, NewKid
    <3> QED BY <2>3, <2>4, <3>1
  <2>8. KidsIn(nodes', node, StatementIds)
    <3>1. \A m \in KidsOf(head, node) : nodes'[m] = head[m]
      BY <2>3, <2>5, TreeFacts DEF KidsOf
    <3> QED BY <2>3, <2>7, <3>1, SameKids
  <2>9. HasKids(nodes', Fresh, <<"expr", "body">>)
    <3>1. \A k \in Seq({"expr", "body"}) : HasKids(head, Fresh, k) => HasKids(nodes', Fresh, Append(k, "body"))
      BY <2>2, <2>3, OneMore
    <3> QED BY <2>3, <3>1, Lists
  <2>10. /\ nodes'[node].id = "body" /\ nodes'[Fresh].id = "branch" /\ nodes'[Fresh + 1].id = "expr"
         /\ Fresh \in 1..Len(nodes')
    BY <2>3, <2>4, <2>5
  <2>11. "else" \in Labels /\ "branch" \in Given("else")
    BY Nodes DEF Labels
  <2>12. Call(nodes, nodes', cont, "else", Fresh)
    BY <1>4, <2>3, <2>10, <2>11, NewNode
  <2>13. /\ Fits(nodes, nodes', cont, c) /\ \A i \in 1..Len(c) : c[i].at # "func_body"
         /\ Open(c, Fresh, "else")
    BY <2>12, QuietCall
  <2>14. cont' = c \o Tail(cont)
    BY <1>4
  <2> HIDE DEF c
  <2>15. Open(cont', Fresh, "else")
    <3>1. cont # <<>>
      BY <1>4, TopFacts
    <3>2. Open(c \o Tail(cont), Fresh, "else")
      BY <2>6, <2>13, <3>1, OpenAfter
    <3> QED BY <2>14, <3>2
  <2>16. Shape(nodes', cont', FALSE, Fresh)
    <3> DEFINE ct2 == cont'
    <3>1. Open(ct2, Fresh, "else") /\ ~Pending(ct2, FALSE, Fresh)
      BY <2>15 DEF Pending
    <3> HIDE DEF ct2
    <3>2. Shape(nodes', ct2, FALSE, Fresh)
      BY <2>9, <2>10, <3>1 DEF Shape
    <3> QED BY <3>2 DEF ct2
  <2>17. /\ Shape(nodes', cont', FALSE, node) /\ Shape(nodes', cont', FALSE, Fresh + 1)
         /\ Shape(nodes', cont', FALSE, Len(head) + 1)
    BY <2>5, <2>7, <2>8, <2>10, BodyShape, Leaf
  <2>18. \A m \in 1..Len(nodes') : m > Len(nodes) => m = Fresh \/ m = Fresh + 1 \/ m = Len(head) + 1
    BY <2>3, <2>5
  <2> QED BY <1>4, <2>6, <2>13, <2>14, <2>16, <2>17, <2>18, QuietStep
<1> QED BY <1>1, <1>3, <1>4 DEF if_element, Condition, Connected, Expect, Then

LEMMA IfElseInv == ASSUME Inv, IfElse PROVE Inv'
<1>1. CASE \E c : error(c)
  BY <1>1, ErrorStep
<1>2. ASSUME At("else")
      PROVE  /\ nodes[node].id = "branch" /\ IsTree(nodes) /\ node \in 1..Len(nodes) /\ Len(nodes) \in Nat
             /\ cont # <<>> /\ HasKids(nodes, node, <<"expr", "body">>)
             /\ {"func_body", "element_end"} \subseteq Labels /\ Later("else") = {}
             /\ "branch" \in Given("func_body") /\ "branch" \in Given("element_end")
             /\ ~Open(Tail(cont), node, "else")
  <2>1. /\ nodes[node].id = "branch" /\ IsTree(nodes) /\ node \in 1..Len(nodes) /\ Len(nodes) \in Nat /\ cont # <<>>
        /\ Shape(nodes, cont, from_func_def, node) /\ Open(cont, node, "else") /\ ~from_func_def
        /\ Later("else") = {} /\ ~Open(Tail(cont), node, "else")
    BY <1>2, TopFacts, Nodes, NoMore
  <2>2. HasKids(nodes, node, <<"expr", "body">>)
    BY <2>1 DEF Shape, Pending
  <2> QED BY <2>1, <2>2, Nodes DEF Labels
<1>3. CASE /\ At("else") /\ nodes' = nodes /\ from_func_def' = TRUE
           /\ cont' = (To("func_body", node) \o To("element_end", node)) \o Tail(cont)
  <2>1. Grows(nodes, nodes', node)
    BY <1>2, <1>3, Stays
  <2>2. Call(nodes, nodes', cont, "func_body", node) /\ Call(nodes, nodes', cont, "element_end", node)
    BY <1>2, <1>3, <2>1, SameNode
  <2>3. /\ Pending(cont', TRUE, node) /\ ~Open(cont', node, "else")
        /\ (\A m \in 1..Len(nodes') : m = node \/ m > Len(nodes) => Shape(nodes', cont', TRUE, m)) => Inv'
    <3>1. /\ Pending(cont', TRUE, node)
          /\ \A h : Open(cont', node, h) <=> h = "func_body" \/ h = "element_end" \/ Open(Tail(cont), node, h)
          /\ (\A m \in 1..Len(nodes') : m = node \/ m > Len(nodes) => Shape(nodes', cont', TRUE, m)) => Inv'
      BY <1>3, <2>1, <2>2, Announced
    <3> QED BY <1>2, <1>3, <3>1
  <2>4. Shape(nodes, cont', TRUE, node)
    <3> DEFINE ct2 == cont'
    <3>1. Pending(ct2, TRUE, node) /\ ~Open(ct2, node, "else")
      BY <2>3
    <3> HIDE DEF ct2
    <3>2. Shape(nodes, ct2, TRUE, node)
      BY <1>2, <1>3, <3>1 DEF Shape
    <3> QED BY <3>2 DEF ct2
  <2>5. \A m \in 1..Len(nodes) : ~(m > Len(nodes))
    BY <1>2, <1>3
  <2> QED BY <1>3, <2>3, <2>4, <2>5
<1>4. CASE /\ At("else") /\ nodes' = Added(nodes, node, "body", <<>>) /\ from_func_def' = from_func_def
           /\ cont' = To("element_end", node) \o Tail(cont)
  <2> DEFINE c == To("element_end", node)
  <2>1. /\ Grows(nodes, nodes', node) /\ nodes'[node].id = "branch" /\ nodes'[Fresh].id = "body"
        /\ KidsOf(nodes', Fresh) = {}
    BY <1>2, <1>4, OneNew
  <2>2. HasKids(nodes', node, <<"expr", "body", "body">>)
    <3>1. \A k \in Seq({"expr", "body"}) : HasKids(nodes, node, k) => HasKids(nodes', node, Append(k, "body"))
      BY <1>2, <1>4, OneMore
    <3> QED BY <1>2, <1>4, <3>1, Lists
  <2>3. Call(nodes, nodes', cont, "element_end", node)
    BY <1>2, <1>4, <2>1, SameNode
  <2>4. Fits(nodes, nodes', cont, c) /\ ~Open(c, node, "else")
    BY <2>3, QuietCall
  <2>5. cont' = c \o Tail(cont)
    BY <1>4
  <2> HIDE DEF c
  <2>6. ~Open(cont', node, "else")
    BY <1>2, <1>4, <2>1, <2>4, <2>5, OpenAfter
  <2>7. Shape(nodes', cont', FALSE, node)
    <3> DEFINE ct2 == cont'
    <3>1. ~Pending(ct2, FALSE, node) /\ ~Open(ct2, node, "else")
      BY <2>6 DEF Pending
    <3> HIDE DEF ct2
    <3>2. Shape(nodes', ct2, FALSE, node)
      BY <2>1, <2>2, <3>1 DEF Shape
    <3> QED BY <3>2 DEF ct2
  <2>8. Shape(nodes', cont', FALSE, Fresh)
    BY <2>1, Leaf
  <2> QED BY <1>4, <2>3, <2>7, <2>8, AddAndCall
<1> QED BY <1>1, <1>3, <1>4 DEF IfElse, Expect, Then, flags

-----------------------------------------------------------------------------
(* The theorem.                                                             *)

LEMMA InitInv == ASSUME Init PROVE Inv
<1> DEFINE F == [at : Labels, node : 1..Len(nodes)]
           r == [at |-> "program", node |-> 1]
<1>2. IsTree(nodes) /\ Len(nodes) = 1 /\ nodes[1].id = "program"
  <2> DEFINE t == [id |-> "program", attr |-> <<>>, parent |-> 0]
  <2>1. t.id = "program" /\ t.parent = 0
    OBVIOUS
  <2>2. nodes = Append(<<>>, t)
    BY DEF Init, Added
  <2> HIDE DEF t
  <2>3. Len(nodes) = 1 /\ nodes[1] = t /\ DOMAIN nodes = 1..1 /\ nodes \in Seq({t})
    BY <2>2
  <2>4. t \in Range(nodes)
    BY <2>3 DEF Range
  <2>5. nodes \in Seq(Range(nodes))
    <3>1. \A S, T : S \subseteq T => Seq(S) \subseteq Seq(T)
      OBVIOUS
    <3> QED BY <2>3, <2>4, <3>1
  <2> QED BY <2>1, <2>3, <2>5, OneIndex DEF IsTree
<1>3. r \in F /\ r.at = "program" /\ r.node = 1
  BY <1>2 DEF Labels
<1>4. cont = <<r>> /\ from_func_def = FALSE
  BY DEF Init, To
<1> HIDE DEF F, r
<1>5. cont \in Seq(F) /\ Len(cont) = 1 /\ cont[1] = r
  BY <1>3, <1>4
<1>6. IsStack(nodes, cont)
  <2>1. \A i \in 1..Len(cont) : nodes[cont[i].node].id \in Given(cont[i].at)
    BY <1>2, <1>3, <1>5, OneIndex, Nodes
  <2>2. \A i, j \in 1..Len(cont) : ~(i < j)
    BY <1>5
  <2> QED BY <1>5, <2>1, <2>2 DEF IsStack, F
<1>7. Announces(cont, from_func_def)
  BY <1>4 DEF Announces
<1>8. BodiesOpen(nodes, cont, from_func_def)
  BY <1>3, <1>5, OneIndex DEF BodiesOpen
<1>9. \A n \in 1..Len(nodes) : Shape(nodes, cont, from_func_def, n)
  BY <1>2, OneIndex, Plain
<1> QED BY <1>2, <1>6, <1>7, <1>8, <1>9 DEF Inv, Good

LEMMA NextInv == ASSUME Inv, [Next]_vars PROVE Inv'
<1>1. CASE Prologue BY <1>1, PrologueInv
<1>2. CASE EndOfProgram BY <1>2, EndOfProgramInv
<1>3. CASE OtherPart BY <1>3, ErrorStep DEF OtherPart
<1>4. CASE func_decl BY <1>4, func_declInv
<1>5. CASE FuncDeclEnd BY <1>5, FuncDeclEndInv
<1>6. CASE types BY <1>6, typesInv
<1>7. CASE func_call BY <1>7, func_callInv
<1>8. CASE constants BY <1>8, constantsInv
<1>9. CASE func_def BY <1>9, func_defInv
<1>10. CASE params BY <1>10, paramsInv
<1>11. CASE FuncDefSignature BY <1>11, FuncDefSignatureInv
<1>12. CASE FuncDefBody BY <1>12, FuncDefBodyInv
<1>13. CASE FuncBody BY <1>13, FuncBodyInv
<1>14. CASE FuncBodyEnd BY <1>14, FuncBodyEndInv
<1>15. CASE FuncBodyEof BY <1>15, ErrorStep DEF FuncBodyEof
<1>16. CASE ItemCall BY <1>16, ItemCallInv
<1>17. CASE ItemExpression BY <1>17, ItemExpressionInv
<1>18. CASE items BY <1>18, itemsInv
<1>19. CASE ExpressionFails BY <1>19, ErrorStep DEF ExpressionFails
<1>20. CASE if_element BY <1>20, if_elementInv
<1>21. CASE IfElse BY <1>21, IfElseInv
<1>22. CASE while_element BY <1>22, while_elementInv
<1>23. CASE ElementEnd BY <1>23, ElementEndInv
<1>24. CASE func_element BY <1>24, func_elementInv
<1>25. CASE arg BY <1>25, argInv
<1>26. CASE args BY <1>26, argsInv
<1>27. CASE return_element BY <1>27, return_elementInv
<1>28. CASE decl_element BY <1>28, decl_elementInv
<1>29. CASE assignment BY <1>29, assignmentInv
<1>30. CASE ids BY <1>30, idsInv
<1>31. CASE UNCHANGED vars BY <1>31 DEF Inv, vars, flags
<1> QED
  BY <1>1, <1>2, <1>3, <1>4, <1>5, <1>6, <1>7, <1>8, <1>9, <1>10, <1>11, <1>12, <1>13, <1>14, <1>15, <1>16,
     <1>17, <1>18, <1>19, <1>20, <1>21, <1>22, <1>23, <1>24, <1>25, <1>26, <1>27, <1>28, <1>29, <1>30, <1>31
     DEF Next, Halted

(* When nothing is left to do, every node has all its children. *)
LEMMA ContractHolds == ASSUME Inv PROVE GeneratorContract
<1> SUFFICES ASSUME cont = <<>>, NEW n \in DOMAIN nodes
             PROVE  CASE nodes[n].id = "branch" -> HasKids(nodes, n, <<"expr", "body", "body">>)
                      [] nodes[n].id = "while" -> HasKids(nodes, n, <<"expr", "body">>)
                      [] nodes[n].id = "assign" ->
                            VariablesFirst(nodes, n) /\ ~KidsIn(nodes, n, ItemIds) /\ ~KidsIn(nodes, n, {"variable"})
                      [] nodes[n].id = "var_declare" ->
                            KidsIn(nodes, n, ItemIds) /\ \A l, m \in KidsOf(nodes, n) : l = m
                      [] nodes[n].id = "return" -> KidsIn(nodes, n, ItemIds)
                      [] nodes[n].id = "body" -> KidsIn(nodes, n, StatementIds)
                      [] nodes[n].id = "func_call" ->
                            HasKids(nodes, n, <<"body">>) \/ KidsIn(nodes, n, {"constant", "variable"})
                      [] nodes[n].id \in {"expr", "constant"} -> KidsOf(nodes, n) = {}
                      [] OTHER -> TRUE
  BY DEF GeneratorContract, Accepted
<1>1. Shape(nodes, cont, from_func_def, n) /\ ~from_func_def
  BY TreeFacts DEF Inv, Good, Announces
<1>2. \A m, f : ~Open(cont, m, f)
  BY DEF Open
<1>3. \A m : ~Pending(cont, from_func_def, m)
  BY <1>1 DEF Pending
<1> QED BY <1>1, <1>2, <1>3 DEF Shape

(* When the parser accepts a program, of any length and with any expressions, *)
(* every node of the tree has the children the generator will address:        *)
(* program() of parser.c and g_program of generator.c.                        *)
THEOREM TreeServesGenerator == Spec => []GeneratorContract
<1>1. Init => Inv
  BY InitInv
<1>2. Inv /\ [Next]_vars => Inv'
  BY NextInv
<1>3. Inv => GeneratorContract
  BY ContractHolds
<1> QED BY <1>1, <1>2, <1>3, PTL DEF Spec

-----------------------------------------------------------------------------
(* Progress.  What is read of the input.                                    *)

IsToken(t) == t = [type |-> t.type, spec |-> t.spec, attr |-> t.attr]
Real(t) == IsToken(t) /\ t.type # "EOF"

(* The lookahead is the end of the file only when all tokens are delivered. *)
Reads ==
    /\ source \in Inputs /\ pos \in Nat \ {0}
    /\ Real(token_lookahead) \/ (token_lookahead = EofToken /\ pos > Len(input))

LEMMA ScannedReal == \A t \in Scanned : Real(t)
<1> SUFFICES ASSUME NEW x \in Scanned PROVE Real(x)
  OBVIOUS
<1>1. x = [type |-> x.type, spec |-> x.spec, attr |-> x.attr]
  <2>1. x \in TokenSet
    BY Zenon DEF Scanned
  <2> QED BY <2>1 DEF TokenSet
<1>2. x.type # "EOF"
  <2>1. x.type \in Literals \cup {"IDENTIFIER", "OPERATOR", "KEYWORD", "DATATYPE", "ASSIGNMENT"}
    BY Zenon DEF Scanned
  <2> QED BY <2>1 DEF Literals
<1> QED BY <1>1, <1>2 DEF Real, IsToken

LEMMA InputFacts ==
    ASSUME Reads
    PROVE  /\ input \in Seq(Scanned) /\ Len(input) \in Nat
           /\ \A i : IF i \in 1..Len(input) THEN Real(Scan(i)) ELSE Scan(i) = EofToken
           /\ token_lookahead.type = "EOF" <=> token_lookahead = EofToken
<1>1. input \in Seq(Scanned)
  BY InputsAssumption DEF Reads, input
<1>2. Len(input) \in Nat /\ DOMAIN input = 1..Len(input) /\ \A i \in 1..Len(input) : input[i] \in Scanned
  BY <1>1
<1>3. \A i : IF i \in 1..Len(input) THEN Real(Scan(i)) ELSE Scan(i) = EofToken
  BY <1>2, ScannedReal DEF Scan
<1>4. EofToken.type = "EOF"
  BY DEF EofToken
<1> QED BY <1>1, <1>2, <1>3, <1>4 DEF Reads, Real

(* The length of what is left of n tokens. *)
Size(t, n, p) == IF t.type = "EOF" THEN 0 ELSE IF p <= n THEN n - p + 2 ELSE 1

LEMMA Joint ==
    ASSUME NEW T, NEW h \in Seq(T), NEW u \in Seq(T)
    PROVE  h \o u \in Seq(T) /\ Len(h \o u) = Len(h) + Len(u)
OBVIOUS

RestOf(t, s, p) == (IF t.type = "EOF" THEN <<>> ELSE <<t>>) \o SubSeq(s, p, Len(s))

LEMMA RestSize ==
    ASSUME NEW s \in Seq(Scanned), NEW t, NEW p \in Nat \ {0}, t.type = "EOF" => p > Len(s)
    PROVE  /\ Len(RestOf(t, s, p)) = Size(t, Len(s), p)
           /\ RestOf(t, s, p) \in Seq(Scanned \cup {t})
           /\ t.type = "EOF" => RestOf(t, s, p) = <<>>
<1> DEFINE T == Scanned \cup {t}
           u == SubSeq(s, p, Len(s))
           h == IF t.type = "EOF" THEN <<>> ELSE <<t>>
           r == h \o u
<1>1. u \in Seq(T) /\ Len(u) = IF p <= Len(s) THEN Len(s) - p + 1 ELSE 0
  <2>1. s \in Seq(T)
    OBVIOUS
  <2> HIDE DEF T
  <2> QED BY <2>1
<1>2. h \in Seq(T) /\ Len(h) = IF t.type = "EOF" THEN 0 ELSE 1
  <2>1. t \in T
    OBVIOUS
  <2> HIDE DEF T
  <2> QED BY <2>1
<1> HIDE DEF T, u, h
<1>0. PICK n \in Nat : n = Len(s)
  OBVIOUS
<1>3. r \in Seq(T) /\ Len(r) = Len(h) + Len(u)
  BY <1>1, <1>2, Joint
<1> HIDE DEF r
<1>4. Len(r) = Size(t, Len(s), p)
  <2>1. t.type = "EOF" => p > n
    BY <1>0
  <2>2. Len(u) = IF p <= n THEN n - p + 1 ELSE 0
    BY <1>0, <1>1
  <2>3. PICK a, b, c : a = Len(h) /\ b = Len(u) /\ c = Len(r)
    OBVIOUS
  <2>4. /\ a = IF t.type = "EOF" THEN 0 ELSE 1
        /\ b = IF p <= n THEN n - p + 1 ELSE 0
        /\ c = a + b
    BY <1>2, <1>3, <2>2, <2>3
  <2>5. c = Size(t, n, p)
    BY <2>1, <2>4 DEF Size
  <2> QED BY <1>0, <2>3, <2>5
<1>5. t.type = "EOF" => r = <<>>
  BY <1>3, <1>4 DEF Size
<1>6. RestOf(t, s, p) = r
  BY DEF RestOf, r, h, u
<1> QED BY <1>3, <1>4, <1>5, <1>6 DEF T

LEMMA RestNow ==
    ASSUME Reads
    PROVE  /\ Len(Rest) = Size(token_lookahead, Len(input), pos)
           /\ Rest \in Seq(Scanned \cup {token_lookahead})
           /\ token_lookahead.type = "EOF" => Rest = <<>>
<1>1. input \in Seq(Scanned) /\ pos \in Nat \ {0} /\ (token_lookahead.type = "EOF" => pos > Len(input))
  BY InputFacts DEF Reads, Real
<1>2. Rest = RestOf(token_lookahead, input, pos)
  BY DEF Rest, RestOf
<1> QED BY <1>1, <1>2, RestSize

LEMMA RestThen ==
    ASSUME Reads'
    PROVE  Len(Rest') = Size(token_lookahead', Len(input'), pos')
<1>1. input' \in Seq(Scanned)
  BY InputsAssumption DEF Reads, input
<1>2. pos' \in Nat \ {0} /\ (token_lookahead'.type = "EOF" => pos' > Len(input'))
  BY DEF Reads, Real
<1>3. Rest' = RestOf(token_lookahead', input', pos')
  BY DEF Rest, RestOf
<1> QED BY <1>1, <1>2, <1>3, RestSize

(* Reading k tokens. *)
LEMMA MoveReads ==
    ASSUME Reads, source' = source, NEW k \in Nat, Move(k)
    PROVE  /\ Reads' /\ Len(Rest') <= Len(Rest) /\ Len(Rest) \in Nat /\ Len(Rest') \in Nat
           /\ k # 0 /\ (\/ token_lookahead.type # "EOF"
                        \/ \E j \in Nat : j # 0 /\ Ahead(j).type # "EOF")
              => Len(Rest') < Len(Rest)
<1>1. Len(input) \in Nat /\ pos \in Nat \ {0} /\ input' = input
  BY InputFacts DEF Reads, input
<1>2. pos' = pos + k /\ token_lookahead' = Ahead(k + 1)
  BY DEF Move
<1>3. token_lookahead' = IF k = 0 THEN token_lookahead ELSE Scan(pos + k - 1)
  BY <1>2 DEF Ahead
<1>0. EofToken.type = "EOF"
  BY DEF EofToken
<1>4. k # 0 => IF pos + k - 1 <= Len(input) THEN Real(token_lookahead') ELSE token_lookahead' = EofToken
  <2>1. PICK i \in Int : i = pos + k - 1
    BY <1>1
  <2>2. k # 0 => (i \in 1..Len(input) <=> i <= Len(input))
    BY <1>1, <2>1
  <2>3. IF i \in 1..Len(input) THEN Real(Scan(i)) ELSE Scan(i) = EofToken
    BY InputFacts
  <2> QED BY <1>3, <2>1, <2>2, <2>3
<1>5. Reads'
  <2>1. CASE k = 0
    BY <1>1, <1>2, <1>3, <2>1 DEF Reads
  <2>2. CASE k # 0
    BY <1>1, <1>2, <1>4, <2>2 DEF Reads
  <2> QED BY <2>1, <2>2
<1>6. /\ Len(Rest) = Size(token_lookahead, Len(input), pos)
      /\ Len(Rest') = Size(token_lookahead', Len(input), pos')
  BY <1>1, <1>5, RestNow, RestThen
<1>7. \/ token_lookahead.type = "EOF" /\ pos > Len(input)
      \/ token_lookahead.type # "EOF"
  BY DEF Reads, Real
<1>8. CASE k = 0
  BY <1>1, <1>2, <1>3, <1>5, <1>6, <1>7, <1>8 DEF Size
<1>9. CASE k # 0
  <2>1. token_lookahead'.type = "EOF" <=> pos + k - 1 > Len(input)
    BY <1>0, <1>1, <1>4, <1>9 DEF Real
  <2>2. Len(Rest') \in Nat /\ Len(Rest) \in Nat /\ Len(Rest') <= Len(Rest)
    BY <1>1, <1>2, <1>6, <1>7, <1>9, <2>1 DEF Size
  <2>3. token_lookahead.type # "EOF" => Len(Rest') < Len(Rest)
    BY <1>1, <1>2, <1>6, <1>7, <1>9, <2>1 DEF Size
  <2>4. ASSUME NEW j \in Nat, j # 0, Ahead(j).type # "EOF" PROVE token_lookahead.type # "EOF"
    <3>1. CASE j = 1
      BY <2>4, <3>1 DEF Ahead
    <3>2. CASE j # 1
      <4>1. Scan(pos + j - 2).type # "EOF"
        BY <2>4, <3>2 DEF Ahead
      <4>2. pos + j - 2 \in 1..Len(input)
        BY <1>0, <4>1, InputFacts
      <4>3. pos <= Len(input)
        BY <1>1, <2>4, <3>2, <4>2
      <4> QED BY <1>1, <1>7, <4>3
    <3> QED BY <3>1, <3>2
  <2> QED BY <1>5, <2>2, <2>3, <2>4
<1> QED BY <1>5, <1>8, <1>9

LEMMA StandStill ==
    ASSUME Reads, UNCHANGED <<source, pos, token_lookahead>>
    PROVE  Reads' /\ Len(Rest') = Len(Rest) /\ Len(Rest) \in Nat
<1>1. input' = input /\ Len(input) \in Nat /\ pos \in Nat
  BY InputFacts DEF input, Reads
<1>2. Reads'
  BY <1>1 DEF Reads
<1>3. Len(Rest) = Size(token_lookahead, Len(input), pos) /\ Len(Rest') = Size(token_lookahead', Len(input'), pos')
  BY <1>2, RestNow, RestThen
<1>4. Len(Rest) \in Nat
  BY <1>1, <1>3 DEF Size
<1> QED BY <1>1, <1>2, <1>3, <1>4

(* What DLL_parse takes. *)
LEMMA RetagReal == ASSUME NEW t, Real(t) PROVE Real(Retag(t))
<1>1. t = [type |-> t.type, spec |-> t.spec, attr |-> t.attr] /\ t.type # "EOF"
  BY DEF Real, IsToken
<1>2. CASE t.spec = "nil"
  <2>1. PICK a, b, c : t = [type |-> a, spec |-> b, attr |-> c]
    BY <1>1
  <2>2. Retag(t) = [type |-> "NIL", spec |-> "i", attr |-> c]
    BY <1>2, <2>1 DEF Retag
  <2> QED BY <2>2 DEF Real, IsToken
<1>3. CASE t.spec # "nil"
  BY <1>3 DEF Retag
<1> QED BY <1>2, <1>3

LEMMA CutFacts ==
    ASSUME NEW T, NEW s \in Seq(T), \A t \in T : Real(t), NEW c, c = Cut(s)
    PROVE  /\ c.taken \in Nat /\ c.taken <= Len(s)
           /\ \A i \in DOMAIN c.list : Real(c.list[i])
           /\ Len(c.list) = 2 \/ (c.tape # <<>> /\ c.list # <<>>) => c.taken >= 2
<1> DEFINE Ends(k) == (k < Len(s) => ~Joins(s, k + 1)) /\ \A i \in 1..k : Joins(s, i)
           n == CHOOSE k \in 0..Len(s) : Ends(k)
           r == [i \in 1..n |-> Retag(s[i])]
           over == Retag(s[n + 1])
           call == ~EndsTape(over) /\ BeginsCall(r, over)
<1>1. Len(s) \in Nat /\ \A i \in 1..Len(s) : Real(s[i])
  OBVIOUS
<1>2. n \in 0..Len(s)
  <2> DEFINE S == {m \in 0..Len(s) : m < Len(s) => ~Joins(s, m + 1)}
  <2>1. S \in SUBSET Nat /\ Len(s) \in S
    BY <1>1
  <2>2. PICK m \in S : \A k \in S : m <= k
    BY <2>1, Least
  <2>3. \A i \in 1..m : Joins(s, i)
    <3> SUFFICES ASSUME NEW i \in 1..m PROVE Joins(s, i)
      OBVIOUS
    <3>1. PICK k : k = i - 1
      OBVIOUS
    <3>2. k \in 0..Len(s) /\ k < m /\ k < Len(s) /\ k + 1 = i
      BY <1>1, <3>1
    <3>3. k \notin S
      BY <2>2, <3>2
    <3> QED BY <3>2, <3>3
  <2>4. m \in 0..Len(s) /\ Ends(m)
    BY <2>2, <2>3
  <2> HIDE DEF Ends
  <2> QED BY <2>4
<1>3. c = IF n = Len(s) THEN [tape |-> r, list |-> <<>>, taken |-> n]
          ELSE IF call THEN [tape |-> SubSeq(r, 1, n - 1), list |-> <<r[n], over>>, taken |-> n + 1]
          ELSE [tape |-> r, list |-> <<over>>, taken |-> n + 1]
  BY DEF Cut
<1> HIDE DEF n
<1>4. r = <<>> => n < 1
  BY <1>2
<1>5. n # Len(s) => Real(over)
  BY <1>1, <1>2, RetagReal
<1>6. n >= 1 => Real(r[n])
  BY <1>1, <1>2, RetagReal
<1> HIDE DEF r, over
<1>7. call => n >= 1
  BY <1>2, <1>4 DEF BeginsCall, r
<1> HIDE DEF call
<1>8. CASE n = Len(s)
  BY <1>1, <1>2, <1>3, <1>8
<1>9. CASE n # Len(s) /\ call
  <2>1. c.list = <<r[n], over>> /\ c.taken = n + 1
    BY <1>3, <1>9
  <2> QED BY <1>1, <1>2, <1>5, <1>6, <1>7, <1>9, <2>1
<1>10. CASE n # Len(s) /\ ~call
  <2>1. c.list = <<over>> /\ c.taken = n + 1 /\ c.tape = r
    BY <1>3, <1>10
  <2>2. r # <<>> => n >= 1
    BY <1>2 DEF r
  <2> QED BY <1>1, <1>2, <1>5, <1>10, <2>1, <2>2
<1> QED BY <1>8, <1>9, <1>10

(* An item, or a condition, reads at least one token that stays read. *)
LEMMA Shorter ==
    ASSUME NEW n \in Nat, NEW p \in Nat, NEW m \in Nat, p <= n, m <= n + 1, p < m, NEW a, a = n - p + 2, NEW b,
           b = 0 \/ (m <= n /\ b = n - m + 2) \/ (m <= n /\ b = n - m + 1) \/ b = 1
    PROVE  b < a /\ a \in Nat /\ b \in Nat
OBVIOUS

LEMMA ParsedReads ==
    ASSUME Reads, source' = source, NEW p \in Parsed, Len(p.list) = 2 \/ (p.tape # <<>> /\ p.list # <<>>),
           \/ pos' = p.next /\ \E i \in DOMAIN p.list : token_lookahead' = p.list[i]
           \/ pos' = p.next + 1 /\ token_lookahead' = Scan(p.next)
    PROVE  Reads' /\ Len(Rest') < Len(Rest) /\ Len(Rest) \in Nat /\ Len(Rest') \in Nat
<1>0. EofToken.type = "EOF"
  BY DEF EofToken
<1>1. PICK c : /\ c = Cut(Rest) /\ p.tape = c.tape /\ p.list = c.list
               /\ p.next = pos + c.taken - 1
  BY DEF Parsed
<1>2. PICK n \in Nat : n = Len(input) /\ n = Len(input') /\ pos \in Nat \ {0}
  BY InputFacts DEF Reads, input
<1>3. /\ Len(Rest) = Size(token_lookahead, n, pos) /\ Rest \in Seq(Scanned \cup {token_lookahead})
      /\ token_lookahead.type = "EOF" => Rest = <<>>
  BY <1>2, RestNow
<1>4. Real(token_lookahead)
  <2> SUFFICES ASSUME ~Real(token_lookahead) PROVE FALSE
    OBVIOUS
  <2>1. token_lookahead.type = "EOF"
    BY <1>0 DEF Reads
  <2>2. PICK T : T = {}
    OBVIOUS
  <2>3. Rest = <<>> /\ Rest \in Seq(T) /\ Len(Rest) = 0 /\ \A t \in T : Real(t)
    BY <1>3, <2>1, <2>2
  <2>4. Len(c.list) = 2 \/ (c.tape # <<>> /\ c.list # <<>>)
    BY <1>1
  <2>5. c.taken \in Nat /\ c.taken <= Len(Rest) /\ c.taken >= 2
    BY <1>1, <2>3, <2>4, CutFacts
  <2> QED BY <2>3, <2>5
<1>5. \A t \in Scanned \cup {token_lookahead} : Real(t)
  BY <1>4, ScannedReal
<1>6. c.taken \in Nat /\ c.taken <= Len(Rest) /\ c.taken >= 2 /\ \A i \in DOMAIN c.list : Real(c.list[i])
  BY <1>1, <1>3, <1>5, CutFacts
<1>7. token_lookahead.type # "EOF"
  BY <1>4 DEF Real
<1>8. PICK m \in Nat : m = p.next /\ pos <= n /\ Len(Rest) = n - pos + 2 /\ m <= n + 1 /\ m > pos
  <2>1. Len(Rest) = IF pos <= n THEN n - pos + 2 ELSE 1
    BY <1>3, <1>7 DEF Size
  <2>2. PICK k \in Nat : k = c.taken
    BY <1>6
  <2>3. pos <= n /\ k <= n - pos + 2 /\ k >= 2
    BY <1>2, <1>6, <2>1, <2>2
  <2>4. PICK m : m = pos + k - 1
    OBVIOUS
  <2>5. m \in Nat /\ m <= n + 1 /\ m > pos
    <3>1. pos \in Nat /\ n \in Nat /\ k \in Nat
      BY <1>2, <2>2
    <3> QED BY <2>3, <2>4, <3>1
  <2>6. m = p.next
    BY <1>1, <2>2, <2>4
  <2> QED BY <2>1, <2>3, <2>5, <2>6
<1>9. CASE pos' = p.next /\ \E i \in DOMAIN p.list : token_lookahead' = p.list[i]
  <2>1. Real(token_lookahead')
    BY <1>1, <1>6, <1>9
  <2>2. Reads'
    BY <1>2, <1>8, <1>9, <2>1 DEF Reads
  <2>3. token_lookahead'.type # "EOF"
    BY <2>1 DEF Real
  <2>4. Len(Rest') = Size(token_lookahead', n, pos')
    BY <1>2, <2>2, RestThen
  <2>5. Len(Rest') = IF m <= n THEN n - m + 2 ELSE 1
    BY <1>8, <1>9, <2>3, <2>4 DEF Size
  <2>6. pos \in Nat /\ pos < m
    BY <1>2, <1>8
  <2> QED BY <1>8, <2>2, <2>5, <2>6, Shorter
<1>10. CASE pos' = p.next + 1 /\ token_lookahead' = Scan(p.next)
  <2>1. IF m <= n THEN Real(token_lookahead') ELSE token_lookahead' = EofToken
    BY <1>2, <1>8, <1>10, InputFacts
  <2>2. Reads'
    <3>1. pos' = m + 1 /\ pos' \in Nat \ {0} /\ source' \in Inputs
      BY <1>8, <1>10 DEF Reads
    <3>2. m > n => pos' > Len(input')
      BY <1>2, <1>8, <3>1
    <3> QED BY <1>8, <2>1, <3>1, <3>2 DEF Reads
  <2>3. m <= n \/ token_lookahead'.type = "EOF"
    BY <1>0, <2>1
  <2>4. Len(Rest') = Size(token_lookahead', n, pos')
    BY <1>2, <2>2, RestThen
  <2>5. Len(Rest') = IF token_lookahead'.type = "EOF" THEN 0 ELSE IF m + 1 <= n THEN n - (m + 1) + 2 ELSE 1
    BY <1>8, <1>10, <2>4 DEF Size
  <2>6. Len(Rest') = 0 \/ (m <= n /\ Len(Rest') = n - m + 1) \/ Len(Rest') = 1
    <3>1. n \in Nat /\ m \in Nat /\ (m + 1 <= n => m <= n /\ n - (m + 1) + 2 = n - m + 1)
      BY <1>8
    <3> QED BY <2>5, <3>1
  <2>7. pos \in Nat /\ pos < m
    BY <1>2, <1>8
  <2> QED BY <1>8, <2>2, <2>6, <2>7, Shorter
<1> QED BY <1>9, <1>10

-----------------------------------------------------------------------------
(* The weight of the stack.                                                 *)

LEMMA Weights == \A f : Weight(f) \in 1..4 /\ Weight(f) \in Nat /\ 0 < Weight(f)
BY DEF Weight

Units(ct) == {p \in (DOMAIN ct) \X (1..4) : p[2] <= Weight(ct[p[1]].at)}

LEMMA Interval == ASSUME NEW n \in Nat PROVE IsFiniteSet(1..n) /\ Cardinality(1..n) = n
<1>1. 1 \in Int /\ n \in Int
  OBVIOUS
<1>2. IsFiniteSet(1..n) /\ Cardinality(1..n) = IF 1 > n THEN 0 ELSE n - 1 + 1
  BY <1>1, FS_Interval
<1>3. (IF 1 > n THEN 0 ELSE n - 1 + 1) = n
  OBVIOUS
<1> QED BY <1>2, <1>3

LEMMA LoadOfCall ==
    ASSUME NEW F, NEW f \in F, NEW d \in Seq(F)
    PROVE  Load(<<f>> \o d) = Weight(f.at) + Load(d) /\ Load(d) \in Nat
<1> DEFINE c == <<f>> \o d
           w == Weight(f.at)
           A == {<<1, k>> : k \in 1..w}
           B == {p \in Units(c) : p[1] # 1}
<1>1. /\ Len(d) \in Nat /\ DOMAIN d = 1..Len(d) /\ DOMAIN c = 1..(Len(d) + 1)
      /\ c[1] = f /\ \A i \in 1..Len(d) : c[i + 1] = d[i]
  OBVIOUS
<1>2. w \in 1..4
  BY Weights
<1> HIDE DEF c, w
<1>3. IsFiniteSet(Units(d)) /\ IsFiniteSet(Units(c))
  <2>1. IsFiniteSet((DOMAIN d) \X (1..4)) /\ IsFiniteSet((DOMAIN c) \X (1..4))
    <3>1. IsFiniteSet(DOMAIN d) /\ IsFiniteSet(DOMAIN c) /\ IsFiniteSet(1..4)
      <4>1. Len(d) \in Nat /\ Len(d) + 1 \in Nat /\ 4 \in Nat
        BY <1>1
      <4>2. IsFiniteSet(1..Len(d)) /\ IsFiniteSet(1..(Len(d) + 1)) /\ IsFiniteSet(1..4)
        BY <4>1, Interval
      <4> QED BY <1>1, <4>2, Zenon
    <3> QED BY <3>1, FS_Product
  <2>2. Units(d) \in SUBSET ((DOMAIN d) \X (1..4)) /\ Units(c) \in SUBSET ((DOMAIN c) \X (1..4))
    BY DEF Units
  <2> QED BY <2>1, <2>2, FS_Subset
<1>4. IsFiniteSet(A) /\ Cardinality(A) = w
  <2> DEFINE g == [k \in 1..w |-> <<1, k>>]
  <2>1. g \in Bijection(1..w, A)
    BY DEF Bijection, Injection, Surjection, IsInjective
  <2>2. IsFiniteSet(1..w) /\ Cardinality(1..w) = w
    <3>1. w \in Nat
      BY <1>2
    <3> QED BY <3>1, Interval
  <2> QED BY <2>1, <2>2, FS_Bijection DEF ExistsBijection
<1>5. IsFiniteSet(B) /\ Cardinality(B) = Cardinality(Units(d))
  <2> DEFINE g == [p \in Units(d) |-> <<p[1] + 1, p[2]>>]
  <2>1. ASSUME NEW i, NEW k PROVE <<i, k>> \in Units(d) <=> i \in 1..Len(d) /\ k \in 1..4 /\ k <= Weight(d[i].at)
    BY <1>1 DEF Units
  <2>2. ASSUME NEW i, NEW k PROVE <<i, k>> \in B <=> i \in 2..(Len(d) + 1) /\ k \in 1..4 /\ k <= Weight(c[i].at)
    BY <1>1 DEF Units
  <2>3. \A p \in Units(d) : p = <<p[1], p[2]>> /\ p[1] \in 1..Len(d)
    BY <1>1 DEF Units
  <2>4. \A p \in B : p = <<p[1], p[2]>> /\ p[1] \in 2..(Len(d) + 1)
    BY <1>1 DEF Units
  <2> HIDE DEF B
  <2>5. g \in [Units(d) -> B]
    <3> SUFFICES ASSUME NEW p \in Units(d) PROVE <<p[1] + 1, p[2]>> \in B
      OBVIOUS
    <3>1. PICK i, k : p = <<i, k>> /\ p[1] = i /\ p[2] = k /\ i \in 1..Len(d)
      BY <2>3
    <3>2. k \in 1..4 /\ k <= Weight(d[i].at)
      BY <2>1, <3>1
    <3>3. i + 1 \in 2..(Len(d) + 1) /\ c[i + 1] = d[i]
      BY <1>1, <3>1
    <3> QED BY <2>2, <3>1, <3>2, <3>3
  <2>6. \A p, q \in Units(d) : g[p] = g[q] => p = q
    <3> SUFFICES ASSUME NEW p \in Units(d), NEW q \in Units(d), g[p] = g[q] PROVE p = q
      OBVIOUS
    <3>1. p[1] + 1 = q[1] + 1 /\ p[2] = q[2]
      OBVIOUS
    <3>2. p[1] \in Int /\ q[1] \in Int
      BY <1>1, <2>3
    <3>3. p[1] = q[1]
      BY <3>1, <3>2
    <3> QED BY <2>3, <3>1, <3>3
  <2>7. \A q \in B : \E p \in Units(d) : g[p] = q
    <3> SUFFICES ASSUME NEW q \in B PROVE \E p \in Units(d) : g[p] = q
      OBVIOUS
    <3>1. PICK i, k : q = <<i, k>> /\ i \in 2..(Len(d) + 1)
      BY <2>4
    <3>2. k \in 1..4 /\ k <= Weight(c[i].at)
      BY <2>2, <3>1
    <3>3. PICK j : j = i - 1
      OBVIOUS
    <3>4. j \in 1..Len(d) /\ i = j + 1 /\ c[i] = d[j]
      BY <1>1, <3>1, <3>3
    <3>5. <<j, k>> \in Units(d)
      BY <2>1, <3>2, <3>4
    <3> QED BY <3>1, <3>4, <3>5
  <2>8. g \in Bijection(Units(d), B)
    <3> HIDE DEF g
    <3> QED BY <2>5, <2>6, <2>7 DEF Bijection, Injection, Surjection, IsInjective
  <2> QED BY <1>3, <2>8, FS_Bijection DEF ExistsBijection
<1>6. Units(c) = A \cup B /\ A \cap B = {}
  <2>1. ASSUME NEW k PROVE <<1, k>> \in Units(c) <=> k \in 1..w
    BY <1>1, <1>2 DEF Units, w
  <2>2. \A p \in Units(c) : p = <<p[1], p[2]>>
    BY DEF Units
  <2> QED BY <2>1, <2>2
<1> HIDE DEF A, B
<1>7. Cardinality(Units(c)) = w + Cardinality(Units(d)) /\ Cardinality(Units(d)) \in Nat
  <2>1. Cardinality(A \cup B) = Cardinality(A) + Cardinality(B) - Cardinality(A \cap B)
    BY <1>4, <1>5, FS_Union
  <2>2. Cardinality({}) = 0
    BY FS_EmptySet
  <2>3. Cardinality(Units(d)) \in Nat
    BY <1>3, FS_CardinalityType
  <2>4. Cardinality(Units(c)) = Cardinality(A \cup B) /\ Cardinality(A \cap B) = 0
    BY <1>6, <2>2
  <2>5. PICK x, y, z : x = Cardinality(Units(d)) /\ y = Cardinality(A \cup B) /\ z = Cardinality(A \cap B)
    OBVIOUS
  <2>6. x \in Nat /\ z = 0 /\ y = w + x - z /\ w \in Nat
    BY <1>2, <1>4, <1>5, <2>1, <2>3, <2>4, <2>5
  <2>7. y = w + x
    BY <2>6
  <2> QED BY <2>3, <2>4, <2>5, <2>7
<1>8. Load(c) = Cardinality(Units(c)) /\ Load(d) = Cardinality(Units(d))
  BY DEF Load, Units
<1> QED BY <1>7, <1>8 DEF c, w

LEMMA LoadOfPush ==
    ASSUME NEW F, NEW d \in Seq(F), NEW g, NEW m
    PROVE  /\ Load(To(g, m) \o d) = Weight(g) + Load(d) /\ Load(d) \in Nat /\ Load(To(g, m) \o d) \in Nat
           /\ To(g, m) \o d \in Seq(F \cup {[at |-> g, node |-> m]})
<1> DEFINE f == [at |-> g, node |-> m]
           T == F \cup {f}
<1>1. f \in T /\ d \in Seq(T)
  OBVIOUS
<1>2. f.at = g /\ To(g, m) = <<f>>
  BY DEF To
<1> HIDE DEF T, f
<1>3. Load(<<f>> \o d) = Weight(f.at) + Load(d) /\ Load(d) \in Nat
  BY <1>1, LoadOfCall
<1>4. <<f>> \o d \in Seq(T)
  BY <1>1
<1>5. PICK w, l, k : w = Weight(g) /\ l = Load(d) /\ k = Load(<<f>> \o d)
  OBVIOUS
<1>6. w \in 1..4 /\ l \in Nat /\ k = w + l
  BY <1>2, <1>3, <1>5, Weights
<1>7. k \in Nat
  BY <1>6
<1> QED BY <1>2, <1>3, <1>4, <1>5, <1>7 DEF T, f

LEMMA LoadOfTop ==
    ASSUME Inv, NEW f, At(f)
    PROVE  Load(cont) = Weight(f) + Load(Tail(cont)) /\ \E F : Tail(cont) \in Seq(F)
<1>1. cont # <<>> /\ cont = To(f, node) \o Tail(cont)
  BY TopFacts
<1>2. PICK F : cont \in Seq(F)
  BY DEF Inv, Good, IsStack
<1>3. PICK d \in Seq(F) : d = Tail(cont)
  <2>1. Tail(cont) \in Seq(F)
    BY <1>1, <1>2, Zenon, HeadTailProperties
  <2> QED BY <2>1
<1>4. Load(To(f, node) \o d) = Weight(f) + Load(d)
  BY LoadOfPush
<1> QED BY <1>1, <1>3, <1>4

LEMMA Lighter ==
    ASSUME NEW l \in Nat, NEW v \in Nat, NEW w \in Nat, v < w
    PROVE  v + l \in Nat /\ v + l < w + l
OBVIOUS

(* The load after a function returns, with what it leaves to be done. *)
LEMMA LoadThen ==
    ASSUME Inv, NEW f, At(f)
    PROVE  /\ Load(cont) \in Nat
           /\ Then(<<>>) => Load(cont') \in Nat /\ Load(cont') < Load(cont)
           /\ \A g, m : Then(To(g, m)) /\ Weight(g) < Weight(f) => Load(cont') \in Nat /\ Load(cont') < Load(cont)
           /\ \A g, m, h, n : Then(To(g, m) \o To(h, n)) /\ Weight(g) + Weight(h) < Weight(f)
                 => Load(cont') \in Nat /\ Load(cont') < Load(cont)
<1>1. PICK F : Tail(cont) \in Seq(F)
  BY LoadOfTop
<1>2. PICK d \in Seq(F) : d = Tail(cont)
  BY <1>1
<1>3. Load(d) \in Nat
  BY LoadOfPush
<1>4. PICK w, l : w = Weight(f) /\ l = Load(d) /\ Load(cont) = w + l /\ w \in Nat /\ l \in Nat /\ 0 < w
  BY <1>2, <1>3, LoadOfTop, Weights
<1>5. ASSUME Then(<<>>) PROVE Load(cont') \in Nat /\ Load(cont') < Load(cont)
  <2>1. <<>> \o d = d
    OBVIOUS
  <2>2. cont' = d
    BY <1>2, <1>5, <2>1 DEF Then
  <2>3. 0 + l \in Nat /\ 0 + l < w + l
    BY <1>4, Lighter
  <2>4. 0 + l = l
    BY <1>4
  <2>5. l \in Nat /\ l < w + l
    BY <2>3, <2>4
  <2> QED BY <1>4, <2>2, <2>5, Zenon
<1>6. ASSUME NEW g, NEW m, Then(To(g, m)), Weight(g) < Weight(f) PROVE Load(cont') \in Nat /\ Load(cont') < Load(cont)
  <2>1. cont' = To(g, m) \o d
    BY <1>2, <1>6 DEF Then
  <2>2. Load(cont') = Weight(g) + Load(d)
    BY <2>1, LoadOfPush
  <2>3. PICK v : v = Weight(g) /\ v \in Nat
    BY Weights
  <2>4. PICK x, y : x = Load(cont') /\ y = Load(cont)
    OBVIOUS
  <2>5. v < w /\ x = v + l /\ y = w + l
    BY <1>4, <1>6, <2>2, <2>3, <2>4
  <2>6. x \in Nat /\ x < y
    <3>1. v \in Nat /\ w \in Nat
      BY <1>4, <2>3
    <3> QED BY <1>4, <2>5, <3>1, Lighter
  <2> QED BY <2>4, <2>6
<1>7. ASSUME NEW g, NEW m, NEW h, NEW n, Then(To(g, m) \o To(h, n)), Weight(g) + Weight(h) < Weight(f)
      PROVE Load(cont') \in Nat /\ Load(cont') < Load(cont)
  <2>1. PICK e : e = To(h, n) \o d
    OBVIOUS
  <2>2. Load(e) = Weight(h) + Load(d) /\ e \in Seq(F \cup {[at |-> h, node |-> n]})
    BY <2>1, LoadOfPush
  <2>3. Load(To(g, m) \o e) = Weight(g) + Load(e)
    BY <2>2, LoadOfPush
  <2>4. (To(g, m) \o To(h, n)) \o d = To(g, m) \o e
    <3>2. PICK S : S = F \cup {[at |-> g, node |-> m], [at |-> h, node |-> n]}
      OBVIOUS
    <3>3. To(g, m) \in Seq(S) /\ To(h, n) \in Seq(S) /\ d \in Seq(S)
      BY <3>2 DEF To
    <3> HIDE DEF To
    <3>4. (To(g, m) \o To(h, n)) \o d = To(g, m) \o (To(h, n) \o d)
      BY <3>3, ConcatAssociative
    <3> QED BY <2>1, <3>4, Zenon
  <2>5. Load(cont') = Weight(g) + Load(e)
    BY <1>2, <1>7, <2>3, <2>4 DEF Then
  <2>6. PICK u, v : u = Weight(g) /\ v = Weight(h) /\ u \in Nat /\ v \in Nat
    BY Weights
  <2>7. PICK x, y : x = Load(cont') /\ y = Load(cont)
    OBVIOUS
  <2>8. u + v < w /\ x = u + (v + l) /\ y = w + l
    BY <1>4, <1>7, <2>2, <2>5, <2>6, <2>7
  <2>9. x \in Nat /\ x < y
    <3>1. u \in Nat /\ v \in Nat /\ w \in Nat
      BY <1>4, <2>6
    <3>2. u + v \in Nat /\ u + (v + l) = (u + v) + l
      BY <1>4, <3>1
    <3> QED BY <1>4, <2>8, <3>1, <3>2, Lighter
  <2> QED BY <2>7, <2>9
<1>8. Load(cont) \in Nat
  BY <1>4
<1> QED BY <1>5, <1>6, <1>7, <1>8

-----------------------------------------------------------------------------
(* What lessens the measure.                                                *)

Goes == Reads' /\ (exit_code' # exit_code \/ Less(Left', Left))

LEMMA Lexicographic ==
    ASSUME NEW a, NEW b, NEW c, NEW d, NEW a2, NEW b2, NEW c2, NEW d2,
           \/ a2 < a
           \/ a2 = a /\ b2 < b
           \/ a2 = a /\ b2 = b /\ c2 < c
           \/ a2 = a /\ b2 = b /\ c2 = c /\ d2 < d
    PROVE  Less(<<a2, b2, c2, d2>>, <<a, b, c, d>>)
<1> DEFINE x == <<a2, b2, c2, d2>>
           y == <<a, b, c, d>>
<1>1. DOMAIN x = 1..4 /\ 1 \in 1..4 /\ 2 \in 1..4 /\ 3 \in 1..4 /\ 4 \in 1..4
  OBVIOUS
<1>2. /\ x[1] = a2 /\ x[2] = b2 /\ x[3] = c2 /\ x[4] = d2
      /\ y[1] = a /\ y[2] = b /\ y[3] = c /\ y[4] = d
  OBVIOUS
<1>3. /\ \A j \in 1..(1 - 1) : FALSE
      /\ \A j \in 1..(2 - 1) : j = 1
      /\ \A j \in 1..(3 - 1) : j = 1 \/ j = 2
      /\ \A j \in 1..(4 - 1) : j = 1 \/ j = 2 \/ j = 3
  OBVIOUS
<1> HIDE DEF x, y
<1>4. \E k \in DOMAIN x : x[k] < y[k] /\ \A j \in 1..(k - 1) : x[j] = y[j]
  <2>1. CASE a2 < a
    BY <1>1, <1>2, <1>3, <2>1
  <2>2. CASE a2 = a /\ b2 < b
    BY <1>1, <1>2, <1>3, <2>2
  <2>3. CASE a2 = a /\ b2 = b /\ c2 < c
    BY <1>1, <1>2, <1>3, <2>3
  <2>4. CASE a2 = a /\ b2 = b /\ c2 = c /\ d2 < d
    BY <1>1, <1>2, <1>3, <2>4
  <2> QED BY <2>1, <2>2, <2>3, <2>4
<1> QED BY <1>4 DEF Less, x, y

(* Something is read. *)
LEMMA LessRead ==
    ASSUME Reads', Len(Rest') < Len(Rest)
    PROVE  Goes
BY Lexicographic DEF Goes, Left

(* Nothing is read, but the suspicious token is dealt with, an item is called *)
(* or the stack gets lighter.                                                 *)
LEMMA LessRest ==
    ASSUME Reads', Len(Rest) \in Nat, Len(Rest') \in Nat, Len(Rest') <= Len(Rest),
           \/ podezrely_token /\ ~podezrely_token'
           \/ /\ podezrely_token' = podezrely_token
              /\ ~(cont # <<>> /\ cont[1].at = "item")
              /\ \/ cont' # <<>> /\ cont'[1].at = "item"
                 \/ Load(cont') < Load(cont)
    PROVE  Goes
<1> DEFINE b == IF podezrely_token THEN 1 ELSE 0
           b2 == IF podezrely_token' THEN 1 ELSE 0
           c == IF cont # <<>> /\ cont[1].at = "item" THEN 0 ELSE 1
           c2 == IF cont' # <<>> /\ cont'[1].at = "item" THEN 0 ELSE 1
<1>1. PICK a, a2 : a = Len(Rest) /\ a2 = Len(Rest') /\ (a2 < a \/ a2 = a)
  <2>1. PICK a \in Nat, a2 \in Nat : a = Len(Rest) /\ a2 = Len(Rest')
    OBVIOUS
  <2>2. a2 < a \/ a2 = a
    BY <2>1
  <2> QED BY <2>1, <2>2, Zenon
<1>2. Left = <<a, b, c, Load(cont)>> /\ Left' = <<a2, b2, c2, Load(cont')>>
  BY <1>1 DEF Left
<1>3. \/ b2 < b
      \/ b2 = b /\ c2 < c
      \/ b2 = b /\ c2 = c /\ Load(cont') < Load(cont)
  OBVIOUS
<1> HIDE DEF b, b2, c, c2
<1>4. Less(<<a2, b2, c2, Load(cont')>>, <<a, b, c, Load(cont)>>)
  BY <1>1, <1>3, Lexicographic
<1> QED BY <1>2, <1>4 DEF Goes

LEMMA ErrorGoes ==
    ASSUME Reads, NEW f, At(f), NEW c, error(c), c # 0
    PROVE  Goes
<1>1. exit_code' # exit_code /\ UNCHANGED <<source, pos, token_lookahead>>
  BY DEF error, At
<1> QED BY <1>1, StandStill DEF Goes

LEMMA ReadGoes ==
    ASSUME Reads, source' = source, NEW k \in Nat \ {0}, Move(k), NEW j \in Nat \ {0}, Ahead(j).type # "EOF"
    PROVE  Goes
<1>1. k \in Nat /\ k # 0 /\ j \in Nat /\ j # 0
  OBVIOUS
<1>2. Reads' /\ Len(Rest') < Len(Rest)
  BY <1>1, MoveReads
<1> QED BY <1>2, LessRead

Stands == UNCHANGED <<pos, token, token_lookahead>>

(* A function that is no item returns, and leaves less to be done. *)
LEMMA ReturnGoes ==
    ASSUME Inv, Reads, source' = source, podezrely_token' = podezrely_token, NEW f, At(f), f # "item",
           Stands \/ \E k \in Nat : Move(k),
           \/ Then(<<>>)
           \/ \E g, m : Then(To(g, m)) /\ Weight(g) < Weight(f)
           \/ \E g, m, h, n : Then(To(g, m) \o To(h, n)) /\ Weight(g) + Weight(h) < Weight(f)
    PROVE  Goes
<1>1. Reads' /\ Len(Rest) \in Nat /\ Len(Rest') \in Nat /\ Len(Rest') <= Len(Rest)
  <2>1. CASE Stands
    <3>1. Reads' /\ Len(Rest') = Len(Rest) /\ Len(Rest) \in Nat
      BY <2>1, StandStill DEF Stands
    <3> QED BY <3>1
  <2>2. CASE \E k \in Nat : Move(k)
    BY <2>2, MoveReads
  <2> QED BY <2>1, <2>2
<1>2. Load(cont') < Load(cont)
  BY LoadThen
<1>3. ~(cont # <<>> /\ cont[1].at = "item")
  BY DEF At
<1> QED BY <1>1, <1>2, <1>3, LessRest

(* An item is called. *)
LEMMA ItemGoes ==
    ASSUME Inv, Reads, UNCHANGED <<source, podezrely_token>>, Stands, NEW f, At(f), f # "item",
           NEW g, NEW m, NEW n, Then(To("item", m) \o To(g, n))
    PROVE  Goes
<1>1. Reads' /\ Len(Rest') = Len(Rest) /\ Len(Rest) \in Nat
  BY StandStill DEF Stands
<1>2. ~(cont # <<>> /\ cont[1].at = "item")
  BY DEF At
<1>3. cont' # <<>> /\ cont'[1].at = "item"
  <2>1. PICK F : Tail(cont) \in Seq(F)
    BY LoadOfTop
  <2>2. PICK d, p, q : d = Tail(cont) /\ p = [at |-> "item", node |-> m] /\ q = [at |-> g, node |-> n]
    OBVIOUS
  <2>3. PICK T : d \in Seq(T) /\ p \in T /\ q \in T
    <3>1. d \in Seq(F \cup {p, q})
      BY <2>1, <2>2
    <3> QED BY <3>1
  <2>4. cont' = (<<p>> \o <<q>>) \o d
    BY <2>2 DEF Then, To
  <2>5. ((<<p>> \o <<q>>) \o d) # <<>> /\ ((<<p>> \o <<q>>) \o d)[1] = p
    BY <2>3
  <2> QED BY <2>2, <2>4, <2>5
<1>4. Len(Rest') <= Len(Rest) /\ Len(Rest') \in Nat
  BY <1>1
<1> QED BY <1>1, <1>2, <1>3, <1>4, LessRest

-----------------------------------------------------------------------------
(* The steps.  Only the first function is called "program".                 *)

NoProgram(s) == \E F : s \in Seq(F) /\ \A r \in F : r.at # "program"

Begun ==
    \/ NoProgram(cont)
    \/ cont = To("program", 1) /\ pos = 1 /\ token_lookahead = EmptyToken

LEMMA Other == NoProgram(<<>>) /\ \A g, m : g # "program" => NoProgram(To(g, m))
<1>1. <<>> \in Seq({})
  OBVIOUS
<1>2. ASSUME NEW g, NEW m, g # "program" PROVE NoProgram(To(g, m))
  <2> DEFINE r == [at |-> g, node |-> m]
  <2>1. r.at = g /\ To(g, m) = <<r>>
    BY DEF To
  <2> HIDE DEF r
  <2>2. PICK F : F = {r}
    BY Zenon
  <2>3. <<r>> \in Seq(F) /\ \A x \in F : x.at # "program"
    BY <1>2, <2>1, <2>2
  <2> QED BY <2>1, <2>3, Zenon DEF NoProgram
<1> QED BY <1>1, <1>2 DEF NoProgram

LEMMA Others == \A a, b : NoProgram(a) /\ NoProgram(b) => NoProgram(a \o b)
<1> SUFFICES ASSUME NEW a, NEW b, NoProgram(a), NoProgram(b) PROVE NoProgram(a \o b)
  OBVIOUS
<1>1. PICK F : a \in Seq(F) /\ \A r \in F : r.at # "program"
  BY DEF NoProgram
<1>2. PICK G : b \in Seq(G) /\ \A r \in G : r.at # "program"
  BY DEF NoProgram
<1>3. PICK T : T = F \cup G
  OBVIOUS
<1>4. a \in Seq(T) /\ b \in Seq(T)
  BY <1>1, <1>2, <1>3
<1>5. a \o b \in Seq(T)
  BY <1>4
<1>6. \A r \in T : r.at # "program"
  BY <1>1, <1>2, <1>3
<1> QED BY <1>5, <1>6 DEF NoProgram

(* An action lessens the measure, and calls functions other than "program". *)
Advances == Goes /\ (cont' = cont \/ \E calls : NoProgram(calls) /\ Then(calls))

LEMMA ErrorAdvances ==
    ASSUME Reads, NEW f, At(f), NEW c, error(c), c # 0
    PROVE  Advances
<1>1. cont' = cont
  BY DEF error
<1> QED BY <1>1, ErrorGoes DEF Advances

CallsOthers ==
    \/ cont' = cont
    \/ Then(<<>>)
    \/ \E g, m : g # "program" /\ Then(To(g, m))
    \/ \E g, m, h, n : g # "program" /\ h # "program" /\ Then(To(g, m) \o To(h, n))
    \/ \E g, m, h, n, e, l : /\ g # "program" /\ h # "program" /\ e # "program"
                             /\ Then(To(g, m) \o (To(h, n) \o To(e, l)))

LEMMA Calls == ASSUME CallsOthers PROVE cont' = cont \/ \E calls : NoProgram(calls) /\ Then(calls)
<1>1. CASE Then(<<>>)
  BY <1>1, Other
<1>2. ASSUME NEW g, NEW m, g # "program", Then(To(g, m)) PROVE \E calls : NoProgram(calls) /\ Then(calls)
  BY <1>2, Other
<1>3. ASSUME NEW g, NEW m, NEW h, NEW n, g # "program", h # "program", Then(To(g, m) \o To(h, n))
      PROVE  \E calls : NoProgram(calls) /\ Then(calls)
  <2>1. NoProgram(To(g, m)) /\ NoProgram(To(h, n))
    BY <1>3, Other
  <2>2. NoProgram(To(g, m) \o To(h, n))
    BY <2>1, Others
  <2> QED BY <1>3, <2>2
<1>4. ASSUME NEW g, NEW m, NEW h, NEW n, NEW e, NEW l, g # "program", h # "program", e # "program",
             Then(To(g, m) \o (To(h, n) \o To(e, l)))
      PROVE  \E calls : NoProgram(calls) /\ Then(calls)
  <2>1. NoProgram(To(g, m)) /\ NoProgram(To(h, n)) /\ NoProgram(To(e, l))
    BY <1>4, Other
  <2>2. NoProgram(To(h, n) \o To(e, l))
    BY <2>1, Others
  <2>3. NoProgram(To(g, m) \o (To(h, n) \o To(e, l)))
    BY <2>1, <2>2, Others
  <2> QED BY <1>4, <2>3
<1> QED BY <1>1, <1>2, <1>3, <1>4 DEF CallsOthers

LEMMA BegunNow == ASSUME Begun, NEW f, At(f), f # "program" PROVE NoProgram(cont)
<1>1. To("program", 1)[1].at = "program"
  BY DEF To
<1> QED BY <1>1 DEF Begun, At

LEMMA BegunThen ==
    ASSUME NoProgram(cont), cont # <<>>, cont' = cont \/ \E calls : NoProgram(calls) /\ Then(calls)
    PROVE  Begun'
<1>1. NoProgram(Tail(cont))
  <2>1. PICK F : cont \in Seq(F) /\ \A r \in F : r.at # "program"
    BY DEF NoProgram
  <2>2. Tail(cont) \in Seq(F)
    BY <2>1, HeadTailProperties
  <2> QED BY <2>1, <2>2 DEF NoProgram
<1>2. NoProgram(cont')
  BY <1>1, Others DEF Then
<1> QED BY <1>2 DEF Begun, NoProgram

(* The current token, or one after it, is not the end of the file. *)
LEMMA NotTheEnd ==
    ASSUME Reads
    PROVE  /\ \A w : w # "" /\ Is(Ahead(1), w) => Ahead(1).type # "EOF"
           /\ Ahead(1).spec # "others" => Ahead(1).type # "EOF"
           /\ Ahead(1) = token_lookahead
<1>1. Ahead(1) = token_lookahead
  BY DEF Ahead
<1>2. EofToken.attr = "" /\ EofToken.spec = "others"
  BY DEF EofToken
<1>3. token_lookahead.type # "EOF" \/ token_lookahead = EofToken
  BY DEF Reads, Real
<1>4. ASSUME NEW w, w # "", Is(Ahead(1), w) PROVE Ahead(1).type # "EOF"
  BY <1>1, <1>2, <1>3, <1>4, Zenon DEF Is
<1>5. Ahead(1).spec # "others" => Ahead(1).type # "EOF"
  BY <1>1, <1>2, <1>3, Zenon
<1> QED BY <1>1, <1>4, <1>5, Zenon

LEMMA PrologueAdvances == ASSUME Inv, Reads, Begun, Prologue PROVE Advances /\ Begun'
<1>0. At("program")
  BY Zenon DEF Prologue
<1>1. CASE error(2)
  <2>1. Advances
    BY <1>0, <1>1, ErrorAdvances
  <2>2. Begun'
    BY <1>1 DEF error, Begun, NoProgram
  <2> QED BY <2>1, <2>2
<1>2. CASE /\ Is(Scan(1), "require") /\ source' = source
           /\ token_lookahead' = Scan(3) /\ pos' = 4 /\ Then(To("program_body", node))
  <2>1. ~NoProgram(cont)
    <3>1. cont # <<>> /\ cont[1].at = "program"
      BY <1>0 DEF At
    <3>2. \A F : cont \in Seq(F) => cont[1] \in F
      BY <3>1
    <3> QED BY <3>1, <3>2 DEF NoProgram
  <2>2. cont = To("program", 1) /\ pos = 1 /\ token_lookahead = EmptyToken
    BY <2>1 DEF Begun
  <2>3. EmptyToken.type # "EOF" /\ EofToken.type = "EOF" /\ EofToken.attr = ""
    BY DEF EmptyToken, EofToken
  <2>4. PICK n \in Nat : n = Len(input) /\ n = Len(input')
    BY <1>2, InputFacts DEF input
  <2>5. n > 0
    <3>1. 1 \in 1..n
      <4>1. Scan(1) # EofToken
        <5>1. Scan(1).attr = "require"
          BY <1>2, Zenon DEF Is
        <5> QED BY <2>3, <5>1, Zenon
      <4> QED BY <2>4, <4>1, InputFacts
    <3> QED BY <2>4, <3>1
  <2>6. IF 3 \in 1..n THEN Real(Scan(3)) ELSE Scan(3) = EofToken
    BY <2>4, InputFacts
  <2>7. Reads'
    <3>1. pos' \in Nat \ {0} /\ (3 \notin 1..n => pos' > n) /\ source' \in Inputs
      BY <1>2 DEF Reads
    <3> QED BY <1>2, <2>4, <2>6, <3>1 DEF Reads
  <2>8. Len(Rest) = n + 1
    <3>1. Len(Rest) = Size(token_lookahead, n, pos)
      BY <2>4, RestNow
    <3>2. Len(Rest) = Size(EmptyToken, n, 1)
      BY <2>2, <3>1, Zenon
    <3>3. Size(EmptyToken, n, 1) = n + 1
      <4>1. Size(EmptyToken, n, 1) = IF 1 <= n THEN n - 1 + 2 ELSE 1
        BY <2>3, Zenon DEF Size
      <4>2. (IF 1 <= n THEN n - 1 + 2 ELSE 1) = n + 1
        BY <2>5
      <4> QED BY <4>1, <4>2
    <3> QED BY <3>2, <3>3, Zenon
  <2>9. Len(Rest') < n + 1
    <3>1. Len(Rest') = Size(token_lookahead', n, pos')
      BY <2>4, <2>7, RestThen
    <3>2. 3 \notin 1..n => token_lookahead'.type = "EOF"
      <4>1. 3 \notin 1..n => token_lookahead' = EofToken
        BY <1>2, <2>6, Zenon
      <4> QED BY <2>3, <4>1, Zenon
    <3> QED BY <1>2, <2>4, <2>5, <3>1, <3>2 DEF Size
  <2>10. Goes
    BY <2>7, <2>8, <2>9, LessRead
  <2>11. NoProgram(To("program_body", node))
    BY Other
  <2>12. Begun'
    <3>1. Tail(cont) = <<>>
      BY <2>2 DEF To
    <3>2. NoProgram(cont')
      BY <1>2, <2>11, <3>1, Other, Others DEF Then
    <3> QED BY <3>2 DEF Begun, NoProgram
  <2> QED BY <1>2, <2>10, <2>11, <2>12 DEF Advances
<1> QED BY <1>1, <1>2, Zenon DEF Prologue, Expect

LEMMA ReadAdvances ==
    ASSUME Reads, source' = source, NEW k \in Nat \ {0}, Move(k), NEW j \in Nat \ {0}, Ahead(j).type # "EOF",
           CallsOthers
    PROVE  Advances
BY ReadGoes, Calls DEF Advances

LEMMA ReturnAdvances ==
    ASSUME Inv, Reads, source' = source, podezrely_token' = podezrely_token, NEW f, At(f), f # "item",
           Stands \/ \E k \in Nat : Move(k),
           \/ Then(<<>>)
           \/ \E g, m : Then(To(g, m)) /\ Weight(g) < Weight(f) /\ g # "program"
           \/ \E g, m, h, n : /\ Then(To(g, m) \o To(h, n)) /\ Weight(g) + Weight(h) < Weight(f)
                              /\ g # "program" /\ h # "program"
    PROVE  Advances
<1>1. CallsOthers
  BY Zenon DEF CallsOthers
<1>2. Goes
  BY ReturnGoes
<1> QED BY <1>1, <1>2, Calls DEF Advances

LEMMA EndOfProgramAdvances == ASSUME Inv, Reads, EndOfProgram PROVE Advances
<1>1. /\ At("program_body") /\ Then(<<>>) /\ Stands /\ source' = source /\ podezrely_token' = podezrely_token
  BY DEF EndOfProgram, Stands, flags
<1> QED BY <1>1, ReturnAdvances

LEMMA OtherPartAdvances == ASSUME Reads, OtherPart PROVE Advances
<1>1. At("program_body") /\ error(2)
  BY Zenon DEF OtherPart
<1> QED BY <1>1, ErrorAdvances

LEMMA func_declAdvances == ASSUME Inv, Reads, func_decl PROVE Advances
<1>0. At("program_body") /\ Ahead(1).type = "KEYWORD"
  BY Zenon DEF func_decl, Keyword
<1>1. CASE error(2)
  BY <1>0, <1>1, ErrorAdvances
<1>2. CASE /\ source' = source
           /\ \/ Move(6) /\ Then(To("types", node) \o (To("func_decl_end", node) \o To("program_body", node)))
              \/ Move(5) /\ Then(To("func_decl_end", node) \o To("program_body", node))
  <2>1. CallsOthers
    BY <1>2 DEF CallsOthers
  <2> QED BY <1>0, <1>2, <2>1, ReadAdvances
<1> QED BY <1>1, <1>2, Zenon DEF func_decl, Expect

LEMMA SignatureAdvances ==
    ASSUME Inv, Reads, NEW f, At(f), NEW here, Signature(here), f # "item",
           \/ here = <<>>
           \/ \E g, m : here = To(g, m) /\ Weight(g) < Weight(f) /\ g # "program"
    PROVE  Advances
<1>1. CASE error(2)
  BY <1>1, ErrorAdvances
<1>2. CASE Ahead(3).type = "DATATYPE" /\ Move(3) /\ Then(To("types", node) \o here) /\ source' = source
  <2>1. Ahead(3).type # "EOF"
    BY <1>2
  <2>2. CASE here = <<>>
    <3>1. Then(To("types", node))
      BY <1>2, <2>2, ToAlone
    <3>2. CallsOthers
      BY <3>1 DEF CallsOthers
    <3> QED BY <1>2, <2>1, <3>2, ReadAdvances
  <2>3. CASE here # <<>>
    <3>1. CallsOthers
      BY <1>2, <2>3 DEF CallsOthers
    <3> QED BY <1>2, <2>1, <3>1, ReadAdvances
  <2> QED BY <2>2, <2>3
<1>3. CASE Move(1) /\ Then(here) /\ source' = source /\ podezrely_token' = podezrely_token
  <2>1. \E k \in Nat : Move(k)
    BY <1>3
  <2> QED BY <1>3, <2>1, ReturnAdvances
<1> QED BY <1>1, <1>2, <1>3, Zenon DEF Signature, Expect, flags

LEMMA FuncDeclEndAdvances == ASSUME Inv, Reads, FuncDeclEnd PROVE Advances
<1>0. At("func_decl_end")
  BY Zenon DEF FuncDeclEnd
<1>1. CASE error(2)
  BY <1>0, <1>1, ErrorAdvances
<1>2. CASE Signature(<<>>)
  BY <1>0, <1>2, SignatureAdvances
<1> QED BY <1>1, <1>2, Zenon DEF FuncDeclEnd

LEMMA FuncDefSignatureAdvances == ASSUME Inv, Reads, FuncDefSignature PROVE Advances
<1>1. Weight("func_def_body") < Weight("func_def_signature")
  BY DEF Weight
<1> QED BY <1>1, SignatureAdvances DEF FuncDefSignature

LEMMA typesAdvances == ASSUME Inv, Reads, types PROVE Advances
<1>0. At("types")
  BY Zenon DEF types
<1>1. CASE error(2)
  BY <1>0, <1>1, ErrorAdvances
<1>2. CASE Then(<<>>) /\ Stands /\ source' = source /\ podezrely_token' = podezrely_token
  BY <1>0, <1>2, ReturnAdvances
<1>3. CASE Ahead(2).type = "DATATYPE" /\ Move(2) /\ cont' = cont /\ source' = source
  <2>1. Ahead(2).type # "EOF" /\ CallsOthers
    BY <1>3 DEF CallsOthers
  <2> QED BY <1>3, <2>1, ReadAdvances
<1> QED BY <1>1, <1>2, <1>3, Zenon DEF types, Expect, Stands, flags

LEMMA func_callAdvances == ASSUME Inv, Reads, func_call PROVE Advances
<1>0. At("program_body") /\ Ahead(1).type # "EOF"
  BY Zenon DEF func_call
<1>1. CASE error(3)
  BY <1>0, <1>1, ErrorAdvances
<1>2. CASE /\ source' = source /\ Move(3)
           /\ \/ Then(To("program_body", node))
              \/ Then(To("constants", Fresh) \o To("program_body", node))
  <2>1. CallsOthers
    BY <1>2 DEF CallsOthers
  <2> QED BY <1>0, <1>2, <2>1, ReadAdvances
<1> QED BY <1>1, <1>2, Zenon DEF func_call

LEMMA constantsAdvances == ASSUME Inv, Reads, constants PROVE Advances
<1>0. At("constants")
  BY Zenon DEF constants
<1>1. CASE error(2)
  BY <1>0, <1>1, ErrorAdvances
<1>2. CASE Move(1) /\ Then(<<>>) /\ source' = source /\ podezrely_token' = podezrely_token
  <2>1. \E k \in Nat : Move(k)
    BY <1>2
  <2> QED BY <1>0, <1>2, <2>1, ReturnAdvances
<1>3. CASE Is(Ahead(1), ",") /\ Move(2) /\ cont' = cont /\ source' = source
  <2>1. Ahead(1).type # "EOF"
    BY <1>3, NotTheEnd, Zenon
  <2>2. CallsOthers
    BY <1>3, Zenon DEF CallsOthers
  <2>3. Move(2) /\ source' = source
    BY <1>3, Zenon
  <2> QED BY <2>1, <2>2, <2>3, ReadAdvances
<1> QED BY <1>1, <1>2, <1>3, Zenon DEF constants, Expect, flags

LEMMA func_defAdvances == ASSUME Inv, Reads, func_def PROVE Advances
<1>0. At("program_body") /\ Ahead(1).type # "EOF"
  BY Zenon DEF func_def, Keyword
<1>1. CASE error(2)
  BY <1>0, <1>1, ErrorAdvances
<1>2. CASE error(3)
  BY <1>0, <1>2, ErrorAdvances
<1>3. CASE /\ source' = source
           /\ \/ Move(3) /\ Then(To("func_def_signature", Fresh) \o To("program_body", node))
              \/ Move(6) /\ Then(To("params", Fresh + 1) \o (To("func_def_signature", Fresh) \o To("program_body", node)))
  <2>1. CallsOthers
    BY <1>3 DEF CallsOthers
  <2> QED BY <1>0, <1>3, <2>1, ReadAdvances
<1> QED BY <1>1, <1>2, <1>3, Zenon DEF func_def, Expect

LEMMA paramsAdvances == ASSUME Inv, Reads, params PROVE Advances
<1>0. At("params")
  BY Zenon DEF params
<1>1. CASE error(2)
  BY <1>0, <1>1, ErrorAdvances
<1>2. CASE Then(<<>>) /\ Stands /\ source' = source /\ podezrely_token' = podezrely_token
  BY <1>0, <1>2, ReturnAdvances
<1>3. CASE Ahead(4).type = "DATATYPE" /\ Move(4) /\ cont' = cont /\ source' = source
  <2>1. Ahead(4).type # "EOF" /\ CallsOthers
    BY <1>3 DEF CallsOthers
  <2> QED BY <1>3, <2>1, ReadAdvances
<1> QED BY <1>1, <1>2, <1>3, Zenon DEF params, Expect, Stands, flags

LEMMA FuncDefBodyAdvances == ASSUME Inv, Reads, FuncDefBody PROVE Advances
<1>0. At("func_def_body") /\ source' = source /\ podezrely_token' = podezrely_token
  BY Zenon DEF FuncDefBody
<1>1. CASE Move(1) /\ Then(<<>>)
  <2>1. \E k \in Nat : Move(k)
    BY <1>1
  <2> QED BY <1>0, <1>1, <2>1, ReturnAdvances
<1>2. CASE Then(To("func_body", node) \o To("func_def_end", node)) /\ Stands
  <2>1. Weight("func_body") = 1 /\ Weight("func_def_end") = 1 /\ Weight("func_def_body") = 3
    BY DEF Weight
  <2>2. Weight("func_body") + Weight("func_def_end") < Weight("func_def_body")
    BY <2>1
  <2> QED BY <1>0, <1>2, <2>2, ReturnAdvances
<1> QED BY <1>1, <1>2, Zenon DEF FuncDefBody, Stands

LEMMA ElementIsStatement == \A i : Element(i) # "none" => Element(i) # "program" /\ Element(i) # "item"
BY Zenon DEF Element

LEMMA FuncBodyAdvances == ASSUME Inv, Reads, FuncBody PROVE Advances
<1>0. At("func_body") /\ token_lookahead.type # "EOF"
  BY Zenon DEF FuncBody
<1>1. CASE error(2)
  BY <1>0, <1>1, ErrorAdvances
<1>2. CASE /\ source' = source /\ Element(First) # "none" /\ Move(First) /\ podezrely_token' = FALSE
           /\ \E m : Then(To(Element(First), m) \o To("func_body", node))
  <2>1. CallsOthers
    <3>1. Element(First) # "program"
      BY <1>2, ElementIsStatement
    <3> QED BY <1>2, <3>1, Zenon DEF CallsOthers
  <2>2. CASE podezrely_token
    <3>1. Move(0)
      BY <1>2, <2>2 DEF First
    <3>2. Reads' /\ Len(Rest) \in Nat /\ Len(Rest') \in Nat /\ Len(Rest') <= Len(Rest)
      BY <1>2, <3>1, MoveReads
    <3>3. podezrely_token /\ ~podezrely_token'
      BY <1>2, <2>2
    <3>4. Goes
      BY <3>2, <3>3, LessRest
    <3> QED BY <2>1, <3>4, Calls DEF Advances
  <2>3. CASE ~podezrely_token
    <3>1. Move(1)
      BY <1>2, <2>3 DEF First
    <3>2. Ahead(1).type # "EOF"
      BY <1>0, NotTheEnd, Zenon
    <3> QED BY <1>2, <2>1, <3>1, <3>2, ReadAdvances
  <2> QED BY <2>2, <2>3
<1> QED BY <1>1, <1>2, Zenon DEF FuncBody, Expect

LEMMA FuncBodyEndAdvances == ASSUME Inv, Reads, FuncBodyEnd PROVE Advances
<1>1. /\ At("func_body") /\ source' = source /\ podezrely_token' = podezrely_token /\ Then(<<>>)
      /\ Move(1) \/ Stands
  BY Zenon DEF FuncBodyEnd, Stands
<1>2. Stands \/ \E k \in Nat : Move(k)
  BY <1>1
<1> QED BY <1>1, <1>2, ReturnAdvances

LEMMA FuncBodyEofAdvances == ASSUME Reads, FuncBodyEof PROVE Advances
<1>1. At("func_body") /\ error(2)
  BY DEF FuncBodyEof
<1> QED BY <1>1, ErrorAdvances

LEMMA Backs == \A p \in Parsed : /\ p.list # <<>> => 1 \in DOMAIN p.list
                                 /\ Len(p.list) = 2 => 2 \in DOMAIN p.list
<1> SUFFICES ASSUME NEW p \in Parsed
             PROVE  /\ p.list # <<>> => 1 \in DOMAIN p.list
                    /\ Len(p.list) = 2 => 2 \in DOMAIN p.list
  OBVIOUS
<1>1. PICK c : c = Cut(Rest) /\ p.list = c.list
  BY DEF Parsed
<1>2. c.list = <<>> \/ (\E x : c.list = <<x>>) \/ \E x, y : c.list = <<x, y>>
  BY <1>1 DEF Cut
<1>3. \A x : DOMAIN <<x>> = 1..1 /\ Len(<<x>>) = 1
  OBVIOUS
<1>4. \A x, y : DOMAIN <<x, y>> = 1..2
  OBVIOUS
<1> QED BY <1>1, <1>2, <1>3, <1>4

LEMMA ItemCallAdvances == ASSUME Inv, Reads, ItemCall PROVE Advances
<1>1. PICK p \in Parsed : /\ Len(p.list) = 2 /\ source' = source /\ Then(<<>>)
                          /\ token_lookahead' = p.list[2] /\ pos' = p.next
  BY Zenon DEF ItemCall, IsItemCall
<1>2. Reads' /\ Len(Rest') < Len(Rest)
  BY <1>1, Backs, ParsedReads
<1>3. CallsOthers
  BY <1>1 DEF CallsOthers
<1> QED BY <1>2, <1>3, LessRead, Calls DEF Advances

LEMMA ItemExpressionAdvances == ASSUME Inv, Reads, ItemExpression PROVE Advances
<1>1. PICK p \in Parsed : Connects(p) /\ source' = source /\ Then(<<>>) /\ AfterItem(p.list[1], p.next)
  BY Zenon DEF ItemExpression
<1>2. p.tape # <<>> /\ p.list # <<>> /\ 1 \in DOMAIN p.list
  BY <1>1, Backs DEF Connects
<1>3. \/ pos' = p.next /\ token_lookahead' = p.list[1]
      \/ pos' = p.next + 1 /\ token_lookahead' = Scan(p.next)
  BY <1>1, Zenon DEF AfterItem
<1>4. Reads' /\ Len(Rest') < Len(Rest)
  BY <1>1, <1>2, <1>3, ParsedReads
<1>5. CallsOthers
  BY <1>1 DEF CallsOthers
<1> QED BY <1>4, <1>5, LessRead, Calls DEF Advances

LEMMA ExpressionFailsAdvances == ASSUME Reads, ExpressionFails PROVE Advances
<1>1. PICK f \in Callers : At(f)
  BY Zenon DEF ExpressionFails
<1>2. \E code : code # 0 /\ error(code)
  BY DEF ExpressionFails
<1> QED BY <1>1, <1>2, ErrorAdvances

LEMMA itemsAdvances == ASSUME Inv, Reads, items PROVE Advances
<1>0. At("items") /\ Stands /\ podezrely_token' = podezrely_token
  BY Zenon DEF items, Stands, flags
<1>1. CASE error(2)
  BY <1>0, <1>1, ErrorAdvances
<1>2. CASE Then(<<>>) /\ source' = source
  BY <1>0, <1>2, ReturnAdvances
<1>3. CASE Then(To("item", node) \o To("items", node)) /\ source' = source
  <2>1. CallsOthers
    BY <1>3 DEF CallsOthers
  <2>2. Goes
    BY <1>0, <1>3, ItemGoes
  <2> QED BY <2>1, <2>2, Calls DEF Advances
<1> QED BY <1>1, <1>2, <1>3, Zenon DEF items, Expect

(* A condition was read, and a function on its construct is called. *)
LEMMA ConditionAdvances ==
    ASSUME Reads, NEW p \in Parsed, Connects(p), source' = source,
           token_lookahead' = Scan(p.next), pos' = p.next + 1, CallsOthers
    PROVE  Advances
<1>1. p.tape # <<>> /\ p.list # <<>>
  BY DEF Connects
<1>2. Reads' /\ Len(Rest') < Len(Rest)
  BY <1>1, ParsedReads
<1> QED BY <1>2, LessRead, Calls DEF Advances

LEMMA while_elementAdvances == ASSUME Inv, Reads, while_element PROVE Advances
<1>0. At("while_element")
  BY Zenon DEF while_element
<1>1. CASE error(2)
  BY <1>0, <1>1, ErrorAdvances
<1>2. CASE /\ source' = source /\ \E n : Then(To("func_body", n) \o To("element_end", n))
           /\ \E p \in Parsed : Connects(p) /\ token_lookahead' = Scan(p.next) /\ pos' = p.next + 1
  <2>1. CallsOthers
    BY <1>2 DEF CallsOthers
  <2> QED BY <1>2, <2>1, ConditionAdvances
<1> QED BY <1>1, <1>2 DEF while_element, Condition, Expect

LEMMA if_elementAdvances == ASSUME Inv, Reads, if_element PROVE Advances
<1>0. At("if_element")
  BY Zenon DEF if_element
<1>1. CASE error(2)
  BY <1>0, <1>1, ErrorAdvances
<1>2. CASE /\ source' = source
           /\ \E n : Then(To("else", n)) \/ Then(To("func_body", n) \o To("else", n))
           /\ \E p \in Parsed : Connects(p) /\ token_lookahead' = Scan(p.next) /\ pos' = p.next + 1
  <2>1. CallsOthers
    BY <1>2 DEF CallsOthers
  <2> QED BY <1>2, <2>1, ConditionAdvances
<1> QED BY <1>1, <1>2 DEF if_element, Condition, Expect

LEMMA IfElseAdvances == ASSUME Inv, Reads, IfElse PROVE Advances
<1>0. At("else")
  BY DEF IfElse
<1>1. CASE error(2)
  BY <1>0, <1>1, ErrorAdvances
<1>2. CASE /\ Ahead(1).spec = "else" /\ source' = source
           /\ \/ Move(2) /\ Then(To("element_end", node))
              \/ Move(1) /\ Then(To("func_body", node) \o To("element_end", node))
  <2>1. CallsOthers
    BY <1>2 DEF CallsOthers
  <2>2. Ahead(1).type # "EOF"
    BY <1>2, NotTheEnd, Zenon
  <2> QED BY <1>2, <2>1, <2>2, ReadAdvances
<1> QED BY <1>1, <1>2 DEF IfElse, Expect

LEMMA ElementEndAdvances == ASSUME Inv, Reads, ElementEnd PROVE Advances
<1>0. PICK f : At(f) /\ f # "item"
  BY DEF ElementEnd
<1>1. CASE error(2)
  BY <1>0, <1>1, ErrorAdvances
<1>2. CASE Then(<<>>) /\ Stands /\ source' = source /\ podezrely_token' = podezrely_token
  BY <1>0, <1>2, ReturnAdvances
<1> QED BY <1>1, <1>2 DEF ElementEnd, Expect, Stands, flags

LEMMA func_elementAdvances == ASSUME Inv, Reads, func_element PROVE Advances
<1>0. At("func_element") /\ source' = source /\ podezrely_token' = podezrely_token
  BY DEF func_element, flags
<1>1. CASE Move(2) /\ Then(<<>>)
  <2>1. \E k \in Nat : Move(k)
    BY <1>1
  <2> QED BY <1>0, <1>1, <2>1, ReturnAdvances
<1>2. CASE Move(1) /\ Then(To("arg", Fresh) \o To("args", Fresh))
  <2>1. Weight("arg") = 1 /\ Weight("args") = 1 /\ Weight("func_element") = 3
    BY DEF Weight
  <2>2. Weight("arg") + Weight("args") < Weight("func_element")
    BY <2>1
  <2>3. \E k \in Nat : Move(k)
    BY <1>2
  <2> QED BY <1>0, <1>2, <2>2, <2>3, ReturnAdvances
<1> QED BY <1>1, <1>2 DEF func_element

LEMMA argAdvances == ASSUME Inv, Reads, arg PROVE Advances
<1>0. At("arg")
  BY DEF arg
<1>1. CASE error(2)
  BY <1>0, <1>1, ErrorAdvances
<1>2. CASE error(3)
  BY <1>0, <1>2, ErrorAdvances
<1>3. CASE Move(1) /\ Then(<<>>) /\ source' = source /\ podezrely_token' = podezrely_token
  <2>1. \E k \in Nat : Move(k)
    BY <1>3
  <2> QED BY <1>0, <1>3, <2>1, ReturnAdvances
<1> QED BY <1>1, <1>2, <1>3 DEF arg, Expect, flags

LEMMA argsAdvances == ASSUME Inv, Reads, args PROVE Advances
<1>0. At("args")
  BY Zenon DEF args
<1>1. CASE error(2)
  BY <1>0, <1>1, ErrorAdvances
<1>2. CASE Move(1) /\ Then(<<>>) /\ source' = source /\ podezrely_token' = podezrely_token
  <2>1. \E k \in Nat : Move(k)
    BY <1>2
  <2> QED BY <1>0, <1>2, <2>1, ReturnAdvances
<1>3. CASE Is(Ahead(1), ",") /\ Move(1) /\ Then(To("arg", node) \o To("args", node)) /\ source' = source
  <2>1. Ahead(1).type # "EOF"
    BY <1>3, NotTheEnd, Zenon
  <2>2. Move(1) /\ source' = source /\ Then(To("arg", node) \o To("args", node))
    BY <1>3, Zenon
  <2>3. CallsOthers
    BY <2>2 DEF CallsOthers
  <2> QED BY <2>1, <2>2, <2>3, ReadAdvances
<1> QED BY <1>1, <1>2, <1>3, Zenon DEF args, Expect, flags

LEMMA return_elementAdvances == ASSUME Inv, Reads, return_element PROVE Advances
<1>0. At("return_element")
  BY DEF return_element
<1>1. CASE error(2)
  BY <1>0, <1>1, ErrorAdvances
<1>2. CASE /\ Stands /\ source' = source /\ podezrely_token' = podezrely_token
           /\ Then(<<>>) \/ Then(To("item", Fresh) \o To("items", Fresh))
  <2>1. CASE Then(<<>>)
    BY <1>0, <1>2, <2>1, ReturnAdvances
  <2>2. CASE Then(To("item", Fresh) \o To("items", Fresh))
    <3>1. CallsOthers
      BY <2>2 DEF CallsOthers
    <3>2. Goes
      BY <1>0, <1>2, <2>2, ItemGoes
    <3> QED BY <3>1, <3>2, Calls DEF Advances
  <2> QED BY <1>2, <2>1, <2>2
<1> QED BY <1>1, <1>2 DEF return_element, Expect, Stands, flags

LEMMA decl_elementAdvances == ASSUME Inv, Reads, decl_element PROVE Advances
<1>0. At("decl_element")
  BY Zenon DEF decl_element
<1>1. CASE error(2)
  BY <1>0, <1>1, ErrorAdvances
<1>2. CASE error(3)
  BY <1>0, <1>2, ErrorAdvances
<1>3. CASE /\ Ahead(1).type = "IDENTIFIER" /\ source' = source
           /\ \/ Move(4) /\ Then(To("item", Fresh))
              \/ Move(3) /\ Then(<<>>)
  <2>1. CallsOthers /\ Ahead(1).type # "EOF"
    BY <1>3 DEF CallsOthers
  <2> QED BY <1>3, <2>1, ReadAdvances
<1> QED BY <1>1, <1>2, <1>3, Zenon DEF decl_element, Expect

LEMMA assignmentAdvances == ASSUME Inv, Reads, assignment PROVE Advances
<1>0. At("assignment")
  BY DEF assignment
<1>1. CASE error(2)
  BY <1>0, <1>1, ErrorAdvances
<1>2. CASE Stands /\ Then(To("ids", Fresh)) /\ source' = source /\ podezrely_token' = podezrely_token
  <2>1. Weight("ids") < Weight("assignment")
    BY DEF Weight
  <2> QED BY <1>0, <1>2, <2>1, ReturnAdvances
<1> QED BY <1>1, <1>2 DEF assignment, Expect, Stands, flags

LEMMA idsAdvances == ASSUME Inv, Reads, ids PROVE Advances
<1>0. At("ids")
  BY Zenon DEF ids
<1>1. CASE error(2)
  BY <1>0, <1>1, ErrorAdvances
<1>2. CASE Ahead(2).type = "IDENTIFIER" /\ Move(2) /\ cont' = cont /\ source' = source
  <2>1. CallsOthers /\ Ahead(2).type # "EOF"
    BY <1>2 DEF CallsOthers
  <2> QED BY <1>2, <2>1, ReadAdvances
<1>3. CASE Ahead(1).type = "ASSIGNMENT" /\ Move(1) /\ Then(To("item", node) \o To("items", node)) /\ source' = source
  <2>1. CallsOthers /\ Ahead(1).type # "EOF"
    BY <1>3 DEF CallsOthers
  <2> QED BY <1>3, <2>1, ReadAdvances
<1> QED BY <1>1, <1>2, <1>3, Zenon DEF ids, Expect

LEMMA NextAdvances ==
    ASSUME Inv, Reads, Begun, [Next]_vars
    PROVE  UNCHANGED vars \/ (Advances /\ Begun')
<1>1. CASE Prologue
  BY <1>1, PrologueAdvances
<1>2. ASSUME NEW f, At(f), f # "program", Advances PROVE Advances /\ Begun'
  <2>1. NoProgram(cont) /\ cont # <<>>
    BY <1>2, BegunNow DEF At
  <2> QED BY <1>2, <2>1, BegunThen DEF Advances
<1>3. CASE EndOfProgram BY <1>2, <1>3, EndOfProgramAdvances, Zenon DEF EndOfProgram
<1>4. CASE OtherPart BY <1>2, <1>4, OtherPartAdvances, Zenon DEF OtherPart
<1>5. CASE func_decl BY <1>2, <1>5, func_declAdvances, Zenon DEF func_decl
<1>6. CASE FuncDeclEnd BY <1>2, <1>6, FuncDeclEndAdvances, Zenon DEF FuncDeclEnd
<1>7. CASE types BY <1>2, <1>7, typesAdvances, Zenon DEF types
<1>8. CASE func_call BY <1>2, <1>8, func_callAdvances, Zenon DEF func_call
<1>9. CASE constants BY <1>2, <1>9, constantsAdvances, Zenon DEF constants
<1>10. CASE func_def BY <1>2, <1>10, func_defAdvances, Zenon DEF func_def
<1>11. CASE params BY <1>2, <1>11, paramsAdvances, Zenon DEF params
<1>12. CASE FuncDefSignature BY <1>2, <1>12, FuncDefSignatureAdvances, Zenon DEF FuncDefSignature
<1>13. CASE FuncDefBody BY <1>2, <1>13, FuncDefBodyAdvances, Zenon DEF FuncDefBody
<1>14. CASE FuncBody BY <1>2, <1>14, FuncBodyAdvances, Zenon DEF FuncBody
<1>15. CASE FuncBodyEnd BY <1>2, <1>15, FuncBodyEndAdvances, Zenon DEF FuncBodyEnd
<1>16. CASE FuncBodyEof BY <1>2, <1>16, FuncBodyEofAdvances, Zenon DEF FuncBodyEof
<1>17. CASE ItemCall BY <1>2, <1>17, ItemCallAdvances, Zenon DEF ItemCall
<1>18. CASE ItemExpression BY <1>2, <1>18, ItemExpressionAdvances, Zenon DEF ItemExpression
<1>19. CASE items BY <1>2, <1>19, itemsAdvances, Zenon DEF items
<1>20. CASE ExpressionFails BY <1>2, <1>20, ExpressionFailsAdvances, Zenon DEF ExpressionFails, Callers
<1>21. CASE if_element BY <1>2, <1>21, if_elementAdvances, Zenon DEF if_element
<1>22. CASE IfElse BY <1>2, <1>22, IfElseAdvances, Zenon DEF IfElse
<1>23. CASE while_element BY <1>2, <1>23, while_elementAdvances, Zenon DEF while_element
<1>24. CASE ElementEnd BY <1>2, <1>24, ElementEndAdvances, Zenon DEF ElementEnd
<1>25. CASE func_element BY <1>2, <1>25, func_elementAdvances, Zenon DEF func_element
<1>26. CASE arg BY <1>2, <1>26, argAdvances, Zenon DEF arg
<1>27. CASE args BY <1>2, <1>27, argsAdvances, Zenon DEF args
<1>28. CASE return_element BY <1>2, <1>28, return_elementAdvances, Zenon DEF return_element
<1>29. CASE decl_element BY <1>2, <1>29, decl_elementAdvances, Zenon DEF decl_element
<1>30. CASE assignment BY <1>2, <1>30, assignmentAdvances, Zenon DEF assignment
<1>31. CASE ids BY <1>2, <1>31, idsAdvances, Zenon DEF ids
<1>32. CASE UNCHANGED vars BY <1>32
<1> QED
  BY <1>1, <1>3, <1>4, <1>5, <1>6, <1>7, <1>8, <1>9, <1>10, <1>11, <1>12, <1>13, <1>14, <1>15, <1>16, <1>17,
     <1>18, <1>19, <1>20, <1>21, <1>22, <1>23, <1>24, <1>25, <1>26, <1>27, <1>28, <1>29, <1>30, <1>31, <1>32
     DEF Next, Halted

LEMMA InitReads == ASSUME Init PROVE Reads /\ Begun
<1>1. Real(token_lookahead)
  <2>1. token_lookahead = EmptyToken
    BY Zenon DEF Init
  <2>2. Real(EmptyToken)
    BY DEF Real, IsToken, EmptyToken
  <2> QED BY <2>1, <2>2, Zenon
<1>2. /\ source \in Inputs /\ pos = 1 /\ cont = To("program", 1) /\ token_lookahead = EmptyToken
  BY Zenon DEF Init
<1> QED BY <1>1, <1>2 DEF Reads, Begun

LEMMA LeftIsNatural == ASSUME Inv, Reads PROVE Left \in Nat \X Nat \X Nat \X Nat
<1>1. Load(cont) \in Nat
  <2>1. Len(cont) \in Nat /\ DOMAIN cont = 1..Len(cont)
    BY DEF Inv, Good, IsStack
  <2>2. IsFiniteSet(DOMAIN cont) /\ IsFiniteSet(1..4)
    <3>1. 4 \in Nat
      OBVIOUS
    <3> QED BY <2>1, <3>1, Interval, Zenon
  <2>3. IsFiniteSet((DOMAIN cont) \X (1..4))
    BY <2>2, FS_Product
  <2>4. Units(cont) \in SUBSET ((DOMAIN cont) \X (1..4))
    BY DEF Units
  <2>5. Cardinality(Units(cont)) \in Nat
    BY <2>3, <2>4, FS_Subset, FS_CardinalityType
  <2> QED BY <2>5 DEF Load, Units
<1>2. Len(Rest) \in Nat
  <2>1. Len(Rest) = Size(token_lookahead, Len(input), pos) /\ Len(input) \in Nat /\ pos \in Nat
    BY RestNow, InputFacts DEF Reads
  <2> QED BY <2>1 DEF Size
<1> QED BY <1>1, <1>2 DEF Left

(* The parser of statements never goes round in a circle: whatever the input, *)
(* each step reads a token, or deals with the suspicious token, or calls an   *)
(* item, or leaves less to be done - or ends the compilation with an error.   *)
(* The measure consists of natural numbers, so it cannot lessen for ever.     *)
THEOREM StatementsProgress == Spec => [](Left \in Nat \X Nat \X Nat \X Nat) /\ CallsProgress
<1> DEFINE J == Inv /\ Reads /\ Begun
<1>1. Init => J
  BY InitInv, InitReads
<1>2. J /\ [Next]_vars => J'
  <2> SUFFICES ASSUME J, [Next]_vars PROVE J'
    OBVIOUS
  <2>1. Inv'
    BY NextInv
  <2>2. CASE UNCHANGED vars
    BY <2>1, <2>2 DEF vars, Reads, Begun, NoProgram, input
  <2>3. CASE Advances /\ Begun'
    BY <2>1, <2>3 DEF Advances, Goes
  <2> QED BY <2>2, <2>3, NextAdvances
<1>3. J /\ [Next]_vars => [exit_code' # exit_code \/ Less(Left', Left)]_vars
  <2> SUFFICES ASSUME J, [Next]_vars PROVE [exit_code' # exit_code \/ Less(Left', Left)]_vars
    OBVIOUS
  <2>1. CASE UNCHANGED vars
    BY <2>1
  <2>2. CASE Advances
    BY <2>2 DEF Advances, Goes
  <2> QED BY <2>1, <2>2, NextAdvances
<1>4. J => Left \in Nat \X Nat \X Nat \X Nat
  BY LeftIsNatural
<1> HIDE DEF J
<1> QED BY <1>1, <1>2, <1>3, <1>4, PTL DEF Spec, CallsProgress
=============================================================================

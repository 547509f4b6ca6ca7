----------------------------- MODULE DList_proofs -----------------------------
(***************************************************************************)
(* The proofs about the doubly linked list, for any number of cells and    *)
(* any tokens.  The inductive invariant IInv says which sequence s of      *)
(* cells the pointers of the heap represent; every insertion puts a cell   *)
(* into s, every deletion drops one from it.                               *)
(***************************************************************************)
EXTENDS DList, NaturalFacts, FiniteSetTheorems, SequenceTheorems, TLAPS

-----------------------------------------------------------------------------
(* Walks.                                                                    *)

Pointers == Cells \cup {NULL}

(* A walk is at g[i] after i steps, and has met n cells when it meets NULL.  *)
Goes(h, start, field, g, n) ==
    /\ Cardinality(Cells) \in Nat /\ n \in 0..Cardinality(Cells)
    /\ g \in [0..Cardinality(Cells) -> Pointers] /\ g[0] = start
    /\ \A i \in 1..Cardinality(Cells) :
          g[i] = IF g[i - 1] \in DOMAIN h THEN h[g[i - 1]][field] ELSE NULL
    /\ \A i \in 1..Cardinality(Cells) : g[i - 1] # NULL <=> i <= n

(* Such a walk is what Walk returns. *)
LEMMA Walked ==
    ASSUME NEW h, NEW start, NEW field, NEW g, NEW n, Goes(h, start, field, g, n)
    PROVE  /\ Walk(h, start, field) \in [1..n -> Pointers]
           /\ \A i \in 1..n : Walk(h, start, field)[i] = g[i - 1]
<1> DEFINE N == Cardinality(Cells)
           Eq(f) == f = [i \in 0..N |-> IF i = 0 THEN start ELSE
                                          IF f[i - 1] \in DOMAIN h THEN h[f[i - 1]][field] ELSE NULL]
           at == CHOOSE f : Eq(f)
           met == {i \in 1..N : at[i - 1] # NULL}
<1>1. Walk(h, start, field) = [i \in 1..Cardinality(met) |-> at[i - 1]]
  BY DEF Walk
<1>0. /\ N \in Nat /\ n \in 0..N /\ g \in [0..N -> Pointers] /\ g[0] = start
      /\ \A i \in 1..N : g[i] = IF g[i - 1] \in DOMAIN h THEN h[g[i - 1]][field] ELSE NULL
      /\ \A i \in 1..N : g[i - 1] # NULL <=> i <= n
  BY DEF Goes
<1> HIDE DEF N
<1>2. Eq(g)
  <2> DEFINE r == [i \in 0..N |-> IF i = 0 THEN start ELSE
                                    IF g[i - 1] \in DOMAIN h THEN h[g[i - 1]][field] ELSE NULL]
  <2>1. \A i \in 0..N : g[i] = r[i]
    <3> SUFFICES ASSUME NEW i \in 0..N PROVE g[i] = r[i]
      OBVIOUS
    <3>1. CASE i = 0
      BY <1>0, <3>1
    <3>2. CASE i \in 1..N
      BY <1>0, <3>2
    <3> QED BY <1>0, <3>1, <3>2
  <2>2. r = [i \in 0..N |-> r[i]]
    OBVIOUS
  <2> HIDE DEF r
  <2>3. g = r
    BY <1>0, <2>1, <2>2
  <2> QED BY <2>3 DEF r
<1> HIDE DEF at
<1>3. Eq(at)
  BY <1>2 DEF at
<1>4. \A i \in 0..N : at[i] = g[i]
  <2> DEFINE S == {i \in 0..N : at[i] = g[i]}
  <2>1. 0 \in S
    BY <1>0, <1>3
  <2>2. \A i \in 0..(N - 1) : i \in S => i + 1 \in S
    <3> SUFFICES ASSUME NEW i \in 0..(N - 1), at[i] = g[i] PROVE at[i + 1] = g[i + 1]
      BY <1>0
    <3>1. i + 1 \in 1..N /\ i + 1 \in 0..N /\ (i + 1) - 1 = i /\ i + 1 # 0
      BY <1>0
    <3>2. g[i + 1] = IF g[i] \in DOMAIN h THEN h[g[i]][field] ELSE NULL
      BY <1>0, <3>1
    <3>3. at[i + 1] = IF at[i] \in DOMAIN h THEN h[at[i]][field] ELSE NULL
      BY <1>3, <3>1
    <3> QED BY <3>2, <3>3
  <2> HIDE DEF S
  <2>3. 0..N \subseteq S
    BY <1>0, <2>1, <2>2, UpTo
  <2> QED BY <2>3 DEF S
<1>5. met = 1..n
  <2>0. N \in Nat /\ n \in 0..N /\ \A i \in 1..N : g[i - 1] # NULL <=> i <= n
    BY <1>0
  <2>1. \A i \in 1..N : i - 1 \in 0..N
    BY <2>0
  <2>2. \A i \in 1..N : at[i - 1] = g[i - 1]
    BY <1>4, <2>1
  <2>3. met = {i \in 1..N : i <= n}
    BY <2>0, <2>2
  <2> QED BY <2>0, <2>3
<1> HIDE DEF met
<1>6. Cardinality(met) = n
  <2>1. n \in Nat /\ n \in Int /\ 1 \in Int
    BY <1>0
  <2>2. Cardinality(1..n) = IF 1 > n THEN 0 ELSE n - 1 + 1
    BY <2>1, FS_Interval, Zenon
  <2> QED BY <1>5, <2>1, <2>2
<1>7. \A i \in 1..n : at[i - 1] = g[i - 1]
  <2>1. \A i \in 1..n : i - 1 \in 0..N
    BY <1>0
  <2> QED BY <1>4, <2>1
<1>8. \A i \in 1..n : g[i - 1] \in Pointers
  <2>1. \A i \in 1..n : i - 1 \in 0..N
    BY <1>0
  <2> QED BY <1>0, <2>1
<1> HIDE DEF at
<1> QED BY <1>1, <1>6, <1>7, <1>8

-----------------------------------------------------------------------------
(* Which cells the heap links, in order.                                     *)

Elements == [token : TokenValues, prev : Pointers, next : Pointers]

(* The cell at a position, NULL at both ends. *)
At(s, n, i) == IF i \in 1..n THEN s[i] ELSE NULL

(* The n cells s are all that is allocated, each once; first and last are    *)
(* the ends and next and prev the neighbours.                                *)
Chain(h, f, l, s, n) ==
    /\ n \in Nat /\ s \in [1..n -> Cells]
    /\ \A i, j \in 1..n : s[i] = s[j] => i = j
    /\ h \in [{s[i] : i \in 1..n} -> Elements]
    /\ f = At(s, n, 1) /\ l = At(s, n, n)
    /\ \A i \in 1..n : h[s[i]].next = At(s, n, i + 1) /\ h[s[i]].prev = At(s, n, i - 1)

(* There are no more cells in a chain than there are addresses. *)
LEMMA ChainIsFinite ==
    ASSUME NEW h, NEW f, NEW l, NEW s, NEW n, Chain(h, f, l, s, n)
    PROVE  /\ Cardinality(Cells) \in Nat /\ n \in 0..Cardinality(Cells)
           /\ Cardinality(DOMAIN h) = n
<1> DEFINE D == {s[i] : i \in 1..n}
<1>1. n \in Nat /\ s \in [1..n -> Cells] /\ D \subseteq Cells /\ DOMAIN h = D
      /\ \A i, j \in 1..n : s[i] = s[j] => i = j
  BY DEF Chain
<1>2. s \in Bijection(1..n, D)
  BY <1>1 DEF Bijection, Injection, Surjection, IsInjective
<1> HIDE DEF D
<1>3. Cardinality(D) = n
  BY <1>1, <1>2, FS_CountingElements DEF ExistsBijection
<1>4. Cardinality(Cells) \in Nat
  BY CellsAssumption, FS_CardinalityType
<1>5. Cardinality(D) <= Cardinality(Cells)
  BY <1>1, CellsAssumption, FS_Subset
<1> QED BY <1>1, <1>3, <1>4, <1>5

(* The walk along next from first is s, the one along prev from last its     *)
(* mirror image.                                                             *)
LEMMA ChainWalks ==
    ASSUME NEW h, NEW f, NEW l, NEW s, NEW n, Chain(h, f, l, s, n)
    PROVE  /\ Walk(h, f, "next") = s
           /\ Walk(h, l, "prev") = [i \in 1..n |-> s[n - i + 1]]
<1> DEFINE N == Cardinality(Cells)
           g == [i \in 0..N |-> At(s, n, i + 1)]
           b == [i \in 0..N |-> At(s, n, n - i)]
           nx == "next"
           pv == "prev"
<1>1. N \in Nat /\ n \in 0..N
  BY ChainIsFinite
<1>2. /\ s \in [1..n -> Cells] /\ DOMAIN h = {s[i] : i \in 1..n}
      /\ f = At(s, n, 1) /\ l = At(s, n, n)
      /\ \A i \in 1..n : h[s[i]][nx] = At(s, n, i + 1) /\ h[s[i]][pv] = At(s, n, i - 1)
  BY DEF Chain
<1> HIDE DEF N, nx, pv
<1>3. \A k \in Int : /\ k \in 1..n => At(s, n, k) \in DOMAIN h /\ At(s, n, k) # NULL
                     /\ k \notin 1..n => At(s, n, k) \notin DOMAIN h /\ At(s, n, k) = NULL
  BY <1>2, CellsAssumption DEF At
<1>4. ASSUME NEW k \in Int
      PROVE  /\ (IF At(s, n, k) \in DOMAIN h THEN h[At(s, n, k)][nx] ELSE NULL)
                    = (IF k \in 1..n THEN At(s, n, k + 1) ELSE NULL)
             /\ (IF At(s, n, k) \in DOMAIN h THEN h[At(s, n, k)][pv] ELSE NULL)
                    = (IF k \in 1..n THEN At(s, n, k - 1) ELSE NULL)
  <2>1. CASE k \in 1..n
    <3>1. At(s, n, k) \in DOMAIN h /\ At(s, n, k) = s[k]
      BY <1>3, <2>1 DEF At
    <3> QED BY <1>2, <2>1, <3>1
  <2>2. CASE k \notin 1..n
    BY <1>3, <2>2
  <2> QED BY <2>1, <2>2
<1>5. Walk(h, f, nx) = s
  <2>1. g \in [0..N -> Pointers] /\ g[0] = f
    BY <1>1, <1>2 DEF At, Pointers
  <2>2. ASSUME NEW i \in 1..N
        PROVE  g[i] = IF g[i - 1] \in DOMAIN h THEN h[g[i - 1]][nx] ELSE NULL
    <3>1. g[i] = At(s, n, i + 1) /\ g[i - 1] = At(s, n, i) /\ i \in Int
      BY <1>1
    <3>2. i \notin 1..n => At(s, n, i + 1) = NULL
      BY <1>1 DEF At
    <3> HIDE DEF g
    <3> QED BY <1>4, <3>1, <3>2
  <2>3. \A i \in 1..N : g[i - 1] # NULL <=> i <= n
    <3> SUFFICES ASSUME NEW i \in 1..N PROVE g[i - 1] # NULL <=> i <= n
      OBVIOUS
    <3>1. g[i - 1] = At(s, n, i) /\ i \in Int
      BY <1>1
    <3>2. i \in 1..n <=> i <= n
      BY <1>1
    <3> QED BY <1>3, <3>1, <3>2
  <2> HIDE DEF g
  <2>4. /\ Walk(h, f, nx) \in [1..n -> Pointers]
        /\ \A i \in 1..n : Walk(h, f, nx)[i] = g[i - 1]
    <3>1. Goes(h, f, nx, g, n)
      BY <1>1, <2>1, <2>2, <2>3 DEF N, Goes
    <3> QED BY <3>1, Walked
  <2>5. \A i \in 1..n : g[i - 1] = s[i]
    <3> SUFFICES ASSUME NEW i \in 1..n PROVE g[i - 1] = s[i]
      OBVIOUS
    <3>1. i - 1 \in 0..N /\ (i - 1) + 1 = i
      BY <1>1
    <3>2. g[i - 1] = At(s, n, i)
      BY <3>1 DEF g
    <3> QED BY <3>2 DEF At
  <2>6. s \in [1..n -> Cells] /\ \A i \in 1..n : Walk(h, f, nx)[i] = s[i]
    BY <1>2, <2>4, <2>5
  <2>7. Walk(h, f, nx) = [i \in 1..n |-> s[i]]
    BY <2>4, <2>6
  <2> QED BY <2>6, <2>7
<1>6. Walk(h, l, pv) = [i \in 1..n |-> s[n - i + 1]]
  <2>1. b \in [0..N -> Pointers] /\ b[0] = l
    BY <1>1, <1>2 DEF At, Pointers
  <2>2. ASSUME NEW i \in 1..N
        PROVE  b[i] = IF b[i - 1] \in DOMAIN h THEN h[b[i - 1]][pv] ELSE NULL
    <3> DEFINE k == n - (i - 1)
    <3>1. b[i] = At(s, n, k - 1) /\ b[i - 1] = At(s, n, k) /\ k \in Int
      BY <1>1
    <3>2. k \notin 1..n => At(s, n, k - 1) = NULL
      BY <1>1 DEF At
    <3> HIDE DEF b, k
    <3> QED BY <1>4, <3>1, <3>2
  <2>3. \A i \in 1..N : b[i - 1] # NULL <=> i <= n
    <3> SUFFICES ASSUME NEW i \in 1..N PROVE b[i - 1] # NULL <=> i <= n
      OBVIOUS
    <3> DEFINE k == n - (i - 1)
    <3>1. b[i - 1] = At(s, n, k) /\ k \in Int
      BY <1>1
    <3>2. k \in 1..n <=> i <= n
      BY <1>1
    <3> HIDE DEF b, k
    <3> QED BY <1>3, <3>1, <3>2
  <2> HIDE DEF b
  <2>4. /\ Walk(h, l, pv) \in [1..n -> Pointers]
        /\ \A i \in 1..n : Walk(h, l, pv)[i] = b[i - 1]
    <3>1. Goes(h, l, pv, b, n)
      BY <1>1, <2>1, <2>2, <2>3 DEF N, Goes
    <3> QED BY <3>1, Walked
  <2>5. \A i \in 1..n : b[i - 1] = s[n - i + 1]
    <3> SUFFICES ASSUME NEW i \in 1..n PROVE b[i - 1] = s[n - i + 1]
      OBVIOUS
    <3>1. i - 1 \in 0..N /\ n - (i - 1) = n - i + 1 /\ n - i + 1 \in 1..n
      BY <1>1
    <3>2. b[i - 1] = At(s, n, n - i + 1)
      BY <3>1 DEF b
    <3> QED BY <3>1, <3>2 DEF At
  <2> QED BY <2>4, <2>5
<1> QED BY <1>5, <1>6 DEF nx, pv

(* A cell put at a position, and the cell at a position dropped. *)
Put(s, n, k, c) == [i \in 1..(n + 1) |-> IF i < k THEN s[i] ELSE IF i = k THEN c ELSE s[i - 1]]
Drop(s, n, k) == [i \in 1..(n - 1) |-> IF i < k THEN s[i] ELSE s[i + 1]]

(* The heap h2 after c was linked between before and after: new record for   *)
(* c, the neighbours turned to it, the rest as it was.                       *)
LinksIn(h, h2, c, t, before, after) ==
    /\ h2 \in [DOMAIN h \cup {c} -> Elements]
    /\ h2[c].token = t /\ h2[c].prev = before /\ h2[c].next = after
    /\ \A a \in DOMAIN h :
          /\ h2[a].token = h[a].token
          /\ h2[a].prev = IF a = after THEN c ELSE h[a].prev
          /\ h2[a].next = IF a = before THEN c ELSE h[a].next

(* The heap h2 after d was unlinked from between before and after. *)
LinksOut(h, h2, d, before, after) ==
    /\ h2 \in [DOMAIN h \ {d} -> Elements]
    /\ \A a \in DOMAIN h \ {d} :
          /\ h2[a].token = h[a].token
          /\ h2[a].prev = IF a = after THEN before ELSE h[a].prev
          /\ h2[a].next = IF a = before THEN after ELSE h[a].next

LEMMA PutChain ==
    ASSUME NEW h, NEW f, NEW l, NEW s, NEW n, Chain(h, f, l, s, n),
           NEW k \in 1..(n + 1), NEW c \in Cells \ DOMAIN h, NEW t \in TokenValues, NEW h2,
           LinksIn(h, h2, c, t, At(s, n, k - 1), At(s, n, k)),
           NEW f2, f2 = IF k = 1 THEN c ELSE f,
           NEW l2, l2 = IF k = n + 1 THEN c ELSE l
    PROVE  Chain(h2, f2, l2, Put(s, n, k, c), n + 1)
<1> DEFINE p == Put(s, n, k, c)
<1>1. n \in Nat /\ k \in 1..(n + 1)
  BY DEF Chain
<1>2. s \in [1..n -> Cells] /\ c \in Cells /\ c \notin DOMAIN h /\ DOMAIN h = {s[i] : i \in 1..n}
  BY DEF Chain
<1>3. \A i \in 1..n : s[i] \in DOMAIN h /\ s[i] \in Cells /\ s[i] # c /\ s[i] # NULL
  BY <1>2, CellsAssumption
<1>4. \A i, j \in 1..n : s[i] = s[j] => i = j
  BY DEF Chain
<1>5. p \in [1..(n + 1) -> Cells]
  BY <1>1, <1>2 DEF Put
<1>6. \A i \in 1..(n + 1) : /\ i < k => i \in 1..n /\ p[i] = s[i]
                            /\ i = k => p[i] = c
                            /\ i > k => i - 1 \in 1..n /\ p[i] = s[i - 1]
  BY <1>1 DEF Put
<1> HIDE DEF p
<1>7. \A i, j \in 1..(n + 1) : p[i] = p[j] => i = j
  <2> SUFFICES ASSUME NEW i \in 1..(n + 1), NEW j \in 1..(n + 1), p[i] = p[j], i < j PROVE FALSE
    BY <1>1
  <2>1. CASE j < k
    BY <1>1, <1>4, <1>6, <2>1
  <2>2. CASE j = k
    <3>1. p[j] = c /\ i \in 1..n /\ p[i] = s[i]
      BY <1>1, <1>6, <2>2
    <3> QED BY <1>3, <3>1
  <2>3. CASE j > k /\ i < k
    <3>1. i \in 1..n /\ p[i] = s[i] /\ j - 1 \in 1..n /\ p[j] = s[j - 1]
      BY <1>1, <1>6, <2>3
    <3>2. i = j - 1
      BY <1>4, <3>1
    <3> QED BY <1>1, <2>3, <3>2
  <2>4. CASE j > k /\ i = k
    <3>1. p[i] = c /\ j - 1 \in 1..n /\ p[j] = s[j - 1]
      BY <1>1, <1>6, <2>4
    <3> QED BY <1>3, <3>1
  <2>5. CASE j > k /\ i > k
    <3>1. i - 1 \in 1..n /\ p[i] = s[i - 1] /\ j - 1 \in 1..n /\ p[j] = s[j - 1]
      BY <1>1, <1>6, <2>5
    <3>2. i - 1 = j - 1
      BY <1>4, <3>1
    <3> QED BY <1>1, <2>5, <3>2
  <2> QED BY <1>1, <2>1, <2>2, <2>3, <2>4, <2>5
<1>8. {p[i] : i \in 1..(n + 1)} = DOMAIN h \cup {c}
  <2>1. ASSUME NEW i \in 1..(n + 1) PROVE p[i] \in DOMAIN h \cup {c}
    <3>1. CASE i = k
      BY <1>6, <3>1
    <3>2. CASE i # k
      <4>1. \E j \in 1..n : p[i] = s[j]
        BY <1>1, <1>6, <3>2
      <4> QED BY <1>3, <4>1
    <3> QED BY <3>1, <3>2
  <2>2. ASSUME NEW i \in 1..n PROVE \E j \in 1..(n + 1) : p[j] = s[i]
    <3>1. CASE i < k
      <4>1. i \in 1..(n + 1) /\ p[i] = s[i]
        BY <1>1, <1>6, <3>1
      <4> QED BY <4>1
    <3>2. CASE ~(i < k)
      <4>1. i + 1 \in 1..(n + 1) /\ i + 1 > k /\ (i + 1) - 1 = i
        BY <1>1, <3>2
      <4>2. p[i + 1] = s[i]
        BY <1>6, <4>1
      <4> QED BY <4>1, <4>2
    <3> QED BY <3>1, <3>2
  <2>3. p[k] = c /\ k \in 1..(n + 1)
    BY <1>1, <1>6
  <2>4. \A a \in DOMAIN h : \E j \in 1..(n + 1) : p[j] = a
    BY <1>2, <2>2
  <2> QED BY <2>1, <2>3, <2>4
<1>9. h2 \in [{p[i] : i \in 1..(n + 1)} -> Elements]
  BY <1>8 DEF LinksIn
<1>10. f2 = At(p, n + 1, 1) /\ l2 = At(p, n + 1, n + 1)
  <2>1. f = At(s, n, 1) /\ l = At(s, n, n)
    BY DEF Chain
  <2>2. f2 = p[1]
    BY <1>1, <1>6, <2>1 DEF At
  <2>3. l2 = p[n + 1]
    BY <1>1, <1>6, <2>1 DEF At
  <2> QED BY <1>1, <2>2, <2>3 DEF At
<1>11. ASSUME NEW i \in 1..n
       PROVE  /\ h2[s[i]].next = IF i = k - 1 THEN c ELSE At(s, n, i + 1)
              /\ h2[s[i]].prev = IF i = k THEN c ELSE At(s, n, i - 1)
  <2>1. (s[i] = At(s, n, k - 1) <=> i = k - 1) /\ (s[i] = At(s, n, k) <=> i = k)
    BY <1>1, <1>3, <1>4 DEF At
  <2>2. h[s[i]].next = At(s, n, i + 1) /\ h[s[i]].prev = At(s, n, i - 1)
    BY DEF Chain
  <2>3. s[i] \in DOMAIN h
    BY <1>3
  <2> QED BY <2>1, <2>2, <2>3 DEF LinksIn
<1>12. ASSUME NEW i \in 1..(n + 1)
       PROVE  h2[p[i]].next = At(p, n + 1, i + 1) /\ h2[p[i]].prev = At(p, n + 1, i - 1)
  <2>1. CASE i = k
    <3>1. p[i] = c /\ h2[p[i]].next = At(s, n, k) /\ h2[p[i]].prev = At(s, n, k - 1)
      BY <1>6, <2>1 DEF LinksIn
    <3>2. At(s, n, k) = At(p, n + 1, k + 1)
      BY <1>1, <1>6 DEF At
    <3>3. At(s, n, k - 1) = At(p, n + 1, k - 1)
      BY <1>1, <1>6 DEF At
    <3> QED BY <2>1, <3>1, <3>2, <3>3
  <2>2. CASE i < k
    <3>1. i \in 1..n /\ p[i] = s[i]
      BY <1>1, <1>6, <2>2
    <3>2. At(p, n + 1, i - 1) = At(s, n, i - 1)
      BY <1>1, <1>6, <2>2, <3>1 DEF At
    <3>3. At(p, n + 1, i + 1) = IF i = k - 1 THEN c ELSE At(s, n, i + 1)
      BY <1>1, <1>6, <2>2, <3>1 DEF At
    <3> QED BY <1>1, <1>11, <2>2, <3>1, <3>2, <3>3
  <2>3. CASE i > k
    <3>1. i - 1 \in 1..n /\ p[i] = s[i - 1] /\ (i - 1) + 1 = i /\ (i - 1) - 1 = i - 2
      BY <1>1, <1>6, <2>3
    <3>2. At(p, n + 1, i + 1) = At(s, n, i)
      BY <1>1, <1>6, <2>3, <3>1 DEF At
    <3>3. At(p, n + 1, i - 1) = IF i - 1 = k THEN c ELSE At(s, n, i - 2)
      BY <1>1, <1>6, <2>3, <3>1 DEF At
    <3>4. h2[s[i - 1]].next = At(s, n, i) /\ h2[s[i - 1]].prev = IF i - 1 = k THEN c ELSE At(s, n, i - 2)
      BY <1>1, <1>11, <2>3, <3>1
    <3> QED BY <3>1, <3>2, <3>3, <3>4
  <2> QED BY <1>1, <2>1, <2>2, <2>3
<1> QED BY <1>1, <1>5, <1>7, <1>9, <1>10, <1>12 DEF Chain, p

LEMMA DropChain ==
    ASSUME NEW h, NEW f, NEW l, NEW s, NEW n, Chain(h, f, l, s, n),
           NEW k \in 1..n, NEW h2, LinksOut(h, h2, s[k], At(s, n, k - 1), At(s, n, k + 1)),
           NEW f2, f2 = IF k = 1 THEN At(s, n, 2) ELSE f,
           NEW l2, l2 = IF k = n THEN At(s, n, n - 1) ELSE l
    PROVE  Chain(h2, f2, l2, Drop(s, n, k), n - 1)
<1> DEFINE p == Drop(s, n, k)
<1>1. n \in Nat /\ k \in 1..n /\ n - 1 \in Nat
  BY DEF Chain
<1>2. s \in [1..n -> Cells] /\ DOMAIN h = {s[i] : i \in 1..n}
  BY DEF Chain
<1>3. \A i \in 1..n : s[i] \in DOMAIN h /\ s[i] \in Cells /\ s[i] # NULL
  BY <1>2, CellsAssumption
<1>4. \A i, j \in 1..n : s[i] = s[j] => i = j
  BY DEF Chain
<1>5. p \in [1..(n - 1) -> Cells]
  BY <1>1, <1>2 DEF Drop
<1>6. \A i \in 1..(n - 1) : /\ i < k => i \in 1..n /\ p[i] = s[i]
                            /\ ~(i < k) => i + 1 \in 1..n /\ p[i] = s[i + 1]
  BY <1>1 DEF Drop
<1> HIDE DEF p
<1>7. \A i, j \in 1..(n - 1) : p[i] = p[j] => i = j
  <2> SUFFICES ASSUME NEW i \in 1..(n - 1), NEW j \in 1..(n - 1), p[i] = p[j], i < j PROVE FALSE
    BY <1>1
  <2>1. CASE j < k
    BY <1>1, <1>4, <1>6, <2>1
  <2>2. CASE ~(j < k) /\ i < k
    <3>1. i \in 1..n /\ p[i] = s[i] /\ j + 1 \in 1..n /\ p[j] = s[j + 1]
      BY <1>1, <1>6, <2>2
    <3>2. i = j + 1
      BY <1>4, <3>1
    <3> QED BY <1>1, <2>2, <3>2
  <2>3. CASE ~(i < k)
    <3>1. i + 1 \in 1..n /\ p[i] = s[i + 1] /\ j + 1 \in 1..n /\ p[j] = s[j + 1]
      BY <1>1, <1>6, <2>3
    <3>2. i + 1 = j + 1
      BY <1>4, <3>1
    <3> QED BY <1>1, <3>2
  <2> QED BY <1>1, <2>1, <2>2, <2>3
<1>8. {p[i] : i \in 1..(n - 1)} = DOMAIN h \ {s[k]}
  <2>1. ASSUME NEW i \in 1..(n - 1) PROVE p[i] \in DOMAIN h \ {s[k]}
    <3>1. PICK j \in 1..n : p[i] = s[j] /\ j # k
      BY <1>1, <1>6
    <3> QED BY <1>1, <1>3, <1>4, <3>1
  <2>2. ASSUME NEW i \in 1..n, i # k PROVE \E j \in 1..(n - 1) : p[j] = s[i]
    <3>1. CASE i < k
      <4>1. i \in 1..(n - 1) /\ p[i] = s[i]
        BY <1>1, <1>6, <3>1
      <4> QED BY <4>1
    <3>2. CASE ~(i < k)
      <4>1. i - 1 \in 1..(n - 1) /\ ~(i - 1 < k) /\ (i - 1) + 1 = i
        BY <1>1, <2>2, <3>2
      <4>2. p[i - 1] = s[i]
        BY <1>6, <4>1
      <4> QED BY <4>1, <4>2
    <3> QED BY <3>1, <3>2
  <2>3. \A a \in DOMAIN h \ {s[k]} : \E j \in 1..(n - 1) : p[j] = a
    BY <1>2, <2>2
  <2> QED BY <2>1, <2>3
<1>9. h2 \in [{p[i] : i \in 1..(n - 1)} -> Elements]
  BY <1>8 DEF LinksOut
<1>10. f2 = At(p, n - 1, 1) /\ l2 = At(p, n - 1, n - 1)
  <2>1. f = At(s, n, 1) /\ l = At(s, n, n)
    BY DEF Chain
  <2>2. f2 = At(p, n - 1, 1)
    <3>1. CASE n = 1
      BY <1>1, <2>1, <3>1 DEF At
    <3>2. CASE n # 1
      <4>1. 1 \in 1..(n - 1) /\ p[1] = IF 1 < k THEN s[1] ELSE s[2]
        BY <1>1, <1>6, <3>2
      <4> QED BY <1>1, <2>1, <3>2, <4>1 DEF At
    <3> QED BY <3>1, <3>2
  <2>3. l2 = At(p, n - 1, n - 1)
    <3>1. CASE n = 1
      BY <1>1, <2>1, <3>1 DEF At
    <3>2. CASE n # 1
      <4>1. n - 1 \in 1..(n - 1) /\ p[n - 1] = IF n - 1 < k THEN s[n - 1] ELSE s[n]
        BY <1>1, <1>6, <3>2
      <4> QED BY <1>1, <2>1, <3>2, <4>1 DEF At
    <3> QED BY <3>1, <3>2
  <2> QED BY <2>2, <2>3
<1>11. ASSUME NEW i \in 1..n, i # k
       PROVE  /\ h2[s[i]].next = IF i = k - 1 THEN At(s, n, k + 1) ELSE At(s, n, i + 1)
              /\ h2[s[i]].prev = IF i = k + 1 THEN At(s, n, k - 1) ELSE At(s, n, i - 1)
  <2>1. (s[i] = At(s, n, k - 1) <=> i = k - 1) /\ (s[i] = At(s, n, k + 1) <=> i = k + 1)
    BY <1>1, <1>3, <1>4 DEF At
  <2>2. h[s[i]].next = At(s, n, i + 1) /\ h[s[i]].prev = At(s, n, i - 1)
    BY DEF Chain
  <2>3. s[i] \in DOMAIN h \ {s[k]}
    BY <1>3, <1>4, <1>11
  <2> QED BY <2>1, <2>2, <2>3 DEF LinksOut
<1>12. ASSUME NEW i \in 1..(n - 1)
       PROVE  h2[p[i]].next = At(p, n - 1, i + 1) /\ h2[p[i]].prev = At(p, n - 1, i - 1)
  <2>2. CASE i < k
    <3>1. i \in 1..n /\ p[i] = s[i] /\ i # k
      BY <1>1, <1>6, <2>2
    <3>2. At(p, n - 1, i - 1) = At(s, n, i - 1)
      BY <1>1, <1>6, <2>2, <3>1 DEF At
    <3>3. At(p, n - 1, i + 1) = IF i = k - 1 THEN At(s, n, k + 1) ELSE At(s, n, i + 1)
      <4>1. CASE i = n - 1
        BY <1>1, <2>2, <4>1 DEF At
      <4>2. CASE i # n - 1
        <5>1. i + 1 \in 1..(n - 1) /\ p[i + 1] = IF i + 1 < k THEN s[i + 1] ELSE s[i + 2]
          BY <1>1, <1>6, <4>2
        <5> QED BY <1>1, <2>2, <5>1 DEF At
      <4> QED BY <4>1, <4>2
    <3> QED BY <1>1, <1>11, <2>2, <3>1, <3>2, <3>3
  <2>3. CASE ~(i < k)
    <3>1. i + 1 \in 1..n /\ p[i] = s[i + 1] /\ i + 1 # k /\ (i + 1) + 1 = i + 2 /\ (i + 1) - 1 = i
      BY <1>1, <1>6, <2>3
    <3>2. At(p, n - 1, i + 1) = At(s, n, i + 2)
      <4>1. CASE i = n - 1
        BY <1>1, <4>1 DEF At
      <4>2. CASE i # n - 1
        <5>1. i + 1 \in 1..(n - 1) /\ p[i + 1] = s[i + 2]
          BY <1>1, <1>6, <2>3, <4>2
        <5> QED BY <1>1, <5>1 DEF At
      <4> QED BY <4>1, <4>2
    <3>3. At(p, n - 1, i - 1) = IF i = k THEN At(s, n, k - 1) ELSE At(s, n, i)
      <4>1. CASE i = 1
        BY <1>1, <2>3, <4>1 DEF At
      <4>2. CASE i # 1
        <5>1. i - 1 \in 1..(n - 1) /\ p[i - 1] = IF i - 1 < k THEN s[i - 1] ELSE s[i]
          BY <1>1, <1>6, <2>3, <4>2
        <5> QED BY <1>1, <2>3, <5>1 DEF At
      <4> QED BY <4>1, <4>2
    <3>4. /\ h2[s[i + 1]].next = At(s, n, i + 2)
          /\ h2[s[i + 1]].prev = IF i = k THEN At(s, n, k - 1) ELSE At(s, n, i)
      BY <1>1, <1>11, <2>3, <3>1
    <3> QED BY <3>1, <3>2, <3>3, <3>4
  <2> QED BY <1>1, <2>2, <2>3
<1> QED BY <1>1, <1>5, <1>7, <1>9, <1>10, <1>12 DEF Chain, p

-----------------------------------------------------------------------------
(* What the assignments of an insertion and of a deletion do to the heap, in *)
(* the two orders the code has them.                                         *)

LEMMA AssignElements ==
    ASSUME NEW D, NEW h \in [D -> Elements], NEW c \in Pointers, c # NULL => c \in D, NEW x \in Pointers
    PROVE  /\ Assign(h, c, "next", x) \in [D -> Elements]
           /\ Assign(h, c, "prev", x) \in [D -> Elements]
           /\ \A a \in D :
                 /\ Assign(h, c, "next", x)[a].token = h[a].token
                 /\ Assign(h, c, "next", x)[a].prev = h[a].prev
                 /\ Assign(h, c, "next", x)[a].next = IF a = c /\ c # NULL THEN x ELSE h[a].next
                 /\ Assign(h, c, "prev", x)[a].token = h[a].token
                 /\ Assign(h, c, "prev", x)[a].next = h[a].next
                 /\ Assign(h, c, "prev", x)[a].prev = IF a = c /\ c # NULL THEN x ELSE h[a].prev
<1>1. CASE c = NULL
  BY <1>1 DEF Assign
<1>2. CASE c # NULL
  BY <1>2 DEF Assign, Elements
<1> QED BY <1>1, <1>2

LEMMA LinkIn ==
    ASSUME heap \in [DOMAIN heap -> Elements], DOMAIN heap \subseteq Cells,
           NEW c \in Cells \ DOMAIN heap, NEW t \in TokenValues,
           NEW before \in DOMAIN heap \cup {NULL}, NEW after \in DOMAIN heap \cup {NULL}
    PROVE  LET new == Malloc(c, [token |-> t, prev |-> before, next |-> after]) IN
           /\ LinksIn(heap, Assign(Assign(new, before, "next", c), after, "prev", c), c, t, before, after)
           /\ LinksIn(heap, Assign(Assign(new, after, "prev", c), before, "next", c), c, t, before, after)
<1> DEFINE D == DOMAIN heap \cup {c}
           new == Malloc(c, [token |-> t, prev |-> before, next |-> after])
           h1 == Assign(new, before, "next", c)
           h2 == Assign(h1, after, "prev", c)
           h3 == Assign(new, after, "prev", c)
           h4 == Assign(h3, before, "next", c)
<1>1. /\ c \in Pointers /\ before \in Pointers /\ after \in Pointers /\ c \in D
      /\ before # NULL => before \in D /\ before # c
      /\ after # NULL => after \in D /\ after # c
      /\ NULL \notin D /\ before # c /\ after # c
  BY CellsAssumption DEF Pointers
<1>2. /\ new \in [D -> Elements] /\ new[c] = [token |-> t, prev |-> before, next |-> after]
      /\ \A a \in DOMAIN heap : new[a] = heap[a]
  BY <1>1 DEF Malloc, Elements
<1> HIDE DEF D, new
<1>3. /\ h1 \in [D -> Elements]
      /\ \A a \in D : h1[a].token = new[a].token /\ h1[a].prev = new[a].prev
                     /\ h1[a].next = IF a = before THEN c ELSE new[a].next
  BY <1>1, <1>2, AssignElements
<1>4. /\ h3 \in [D -> Elements]
      /\ \A a \in D : h3[a].token = new[a].token /\ h3[a].next = new[a].next
                     /\ h3[a].prev = IF a = after THEN c ELSE new[a].prev
  BY <1>1, <1>2, AssignElements
<1> HIDE DEF h1, h3
<1>5. /\ h2 \in [D -> Elements]
      /\ \A a \in D : h2[a].token = h1[a].token /\ h2[a].next = h1[a].next
                     /\ h2[a].prev = IF a = after THEN c ELSE h1[a].prev
  BY <1>1, <1>3, AssignElements
<1>6. /\ h4 \in [D -> Elements]
      /\ \A a \in D : h4[a].token = h3[a].token /\ h4[a].prev = h3[a].prev
                     /\ h4[a].next = IF a = before THEN c ELSE h3[a].next
  BY <1>1, <1>4, AssignElements
<1> HIDE DEF h2, h4
<1>7. \A a \in DOMAIN heap : a \in D
  BY DEF D
<1>8. LinksIn(heap, h2, c, t, before, after)
  BY <1>1, <1>2, <1>3, <1>5, <1>7 DEF LinksIn, D
<1>9. LinksIn(heap, h4, c, t, before, after)
  BY <1>1, <1>2, <1>4, <1>6, <1>7 DEF LinksIn, D
<1> QED BY <1>8, <1>9 DEF h1, h2, h3, h4, new

LEMMA LinkOut ==
    ASSUME heap \in [DOMAIN heap -> Elements], DOMAIN heap \subseteq Cells, NEW d \in DOMAIN heap,
           NEW before \in (DOMAIN heap \ {d}) \cup {NULL}, NEW after \in (DOMAIN heap \ {d}) \cup {NULL}
    PROVE  /\ LinksOut(heap, Free(Assign(Assign(heap, before, "next", after), after, "prev", before), {d}), d, before, after)
           /\ LinksOut(heap, Free(Assign(Assign(heap, after, "prev", before), before, "next", after), {d}), d, before, after)
<1> DEFINE D == DOMAIN heap
           h1 == Assign(heap, before, "next", after)
           h2 == Assign(h1, after, "prev", before)
           h3 == Assign(heap, after, "prev", before)
           h4 == Assign(h3, before, "next", after)
<1>1. /\ before \in Pointers /\ after \in Pointers /\ NULL \notin D
      /\ before # NULL => before \in D
      /\ after # NULL => after \in D
  BY CellsAssumption DEF Pointers
<1>2. heap \in [D -> Elements]
  OBVIOUS
<1> HIDE DEF D
<1>3. /\ h1 \in [D -> Elements]
      /\ \A a \in D : h1[a].token = heap[a].token /\ h1[a].prev = heap[a].prev
                     /\ h1[a].next = IF a = before THEN after ELSE heap[a].next
  BY <1>1, <1>2, AssignElements
<1>4. /\ h3 \in [D -> Elements]
      /\ \A a \in D : h3[a].token = heap[a].token /\ h3[a].next = heap[a].next
                     /\ h3[a].prev = IF a = after THEN before ELSE heap[a].prev
  BY <1>1, <1>2, AssignElements
<1> HIDE DEF h1, h3
<1>5. /\ h2 \in [D -> Elements]
      /\ \A a \in D : h2[a].token = h1[a].token /\ h2[a].next = h1[a].next
                     /\ h2[a].prev = IF a = after THEN before ELSE h1[a].prev
  BY <1>1, <1>3, AssignElements
<1>6. /\ h4 \in [D -> Elements]
      /\ \A a \in D : h4[a].token = h3[a].token /\ h4[a].prev = h3[a].prev
                     /\ h4[a].next = IF a = before THEN after ELSE h3[a].next
  BY <1>1, <1>4, AssignElements
<1> HIDE DEF h2, h4
<1>7. /\ Free(h2, {d}) \in [D \ {d} -> Elements] /\ \A a \in D \ {d} : Free(h2, {d})[a] = h2[a]
      /\ Free(h4, {d}) \in [D \ {d} -> Elements] /\ \A a \in D \ {d} : Free(h4, {d})[a] = h4[a]
  BY <1>5, <1>6 DEF Free
<1>8. LinksOut(heap, Free(h2, {d}), d, before, after)
  BY <1>3, <1>5, <1>7 DEF LinksOut, D
<1>9. LinksOut(heap, Free(h4, {d}), d, before, after)
  BY <1>4, <1>6, <1>7 DEF LinksOut, D
<1> QED BY <1>8, <1>9 DEF h1, h2, h3, h4

-----------------------------------------------------------------------------
(* The inductive invariant: the pointers represent some sequence of cells,   *)
(* and the active element is one of them or none.                            *)

Represents(s, n, j) == Chain(heap, first, last, s, n) /\ j \in 0..n /\ active = At(s, n, j)

IInv ==
    /\ token \in TokenValues /\ exit_code \in {0, 99}
    /\ \E s, n, j : Represents(s, n, j)

(* The items and the cursor of a chain. *)
LEMMA ChainItems ==
    ASSUME NEW h, NEW f, NEW l, NEW s, NEW n, Chain(h, f, l, s, n), NEW j \in 0..n
    PROVE  /\ Items(h, f) = [i \in 1..n |-> h[s[i]].token]
           /\ Items(h, f) \in Seq(TokenValues) /\ Len(Items(h, f)) = n
           /\ Position(h, f, At(s, n, j)) = j
<1>1. Walk(h, f, "next") = s
  BY ChainWalks
<1>2. n \in Nat /\ s \in [1..n -> Cells] /\ \A i, k \in 1..n : s[i] = s[k] => i = k
  BY DEF Chain
<1>3. Items(h, f) = [i \in 1..n |-> h[s[i]].token]
  BY <1>1, <1>2 DEF Items
<1>4. \A i \in 1..n : h[s[i]].token \in TokenValues
  <2>1. \A i \in 1..n : h[s[i]] \in Elements
    BY DEF Chain
  <2> QED BY <2>1 DEF Elements
<1>5. [i \in 1..n |-> h[s[i]].token] \in [1..n -> TokenValues]
  BY <1>4
<1>6. Items(h, f) \in Seq(TokenValues) /\ Len(Items(h, f)) = n
  BY <1>2, <1>3, <1>5, SeqDef
<1>7. Position(h, f, At(s, n, j)) = j
  <2>1. CASE j = 0
    BY <1>2, <2>1 DEF Position, At
  <2>2. CASE j # 0
    <3>1. j \in 1..n /\ At(s, n, j) = s[j] /\ s[j] # NULL
      BY <1>2, <2>2, CellsAssumption DEF At
    <3>2. s[j] \in ToSet(s) /\ DOMAIN s = 1..n
      BY <1>2, <3>1 DEF ToSet
    <3>3. (CHOOSE i \in DOMAIN s : s[i] = s[j]) = j
      BY <1>2, <3>1, <3>2
    <3> QED BY <1>1, <3>1, <3>2, <3>3 DEF Position
  <2> QED BY <2>1, <2>2
<1> QED BY <1>3, <1>6, <1>7

LEMMA AbstractState ==
    /\ items = Items(heap, first) /\ items' = Items(heap', first')
    /\ cursor = Position(heap, first, active) /\ cursor' = Position(heap', first', active')
BY DEF items, cursor

LEMMA ItemsNow ==
    ASSUME NEW s, NEW n, NEW j, Represents(s, n, j)
    PROVE  /\ items = [i \in 1..n |-> heap[s[i]].token]
           /\ items \in Seq(TokenValues) /\ Len(items) = n /\ cursor = j
<1>1. Chain(heap, first, last, s, n) /\ j \in 0..n /\ active = At(s, n, j)
  BY DEF Represents
<1>2. /\ Items(heap, first) = [i \in 1..n |-> heap[s[i]].token]
      /\ Items(heap, first) \in Seq(TokenValues) /\ Len(Items(heap, first)) = n
      /\ Position(heap, first, At(s, n, j)) = j
  BY <1>1, ChainItems
<1>3. items = Items(heap, first) /\ cursor = Position(heap, first, active)
  BY AbstractState
<1> QED BY <1>1, <1>2, <1>3

LEMMA ItemsNext ==
    ASSUME NEW s, NEW n, NEW j, Chain(heap', first', last', s, n), j \in 0..n, active' = At(s, n, j)
    PROVE  items' = [i \in 1..n |-> heap'[s[i]].token] /\ cursor' = j
<1>1. /\ Items(heap', first') = [i \in 1..n |-> heap'[s[i]].token]
      /\ Position(heap', first', At(s, n, j)) = j
  BY ChainItems
<1>2. items' = Items(heap', first') /\ cursor' = Position(heap', first', active')
  BY AbstractState
<1> QED BY <1>1, <1>2

(* The list with an element put in, and with one dropped, as List says it.   *)
LEMMA PutItems ==
    ASSUME NEW T, NEW q \in Seq(T), NEW k \in 1..(Len(q) + 1), NEW t \in T
    PROVE  SubSeq(q, 1, k - 1) \o <<t>> \o SubSeq(q, k, Len(q)) = Put(q, Len(q), k, t)
<1> DEFINE n == Len(q)
           a == SubSeq(q, 1, k - 1)
           b == SubSeq(q, k, n)
           m == a \o <<t>>
           r == m \o b
           w == Put(q, n, k, t)
<1>0. n \in Nat /\ k \in 1..(n + 1) /\ 1 \in Int /\ k - 1 \in Int /\ k \in Int /\ n \in Int
      /\ \A i \in 1..n : q[i] \in T
  OBVIOUS
<1>1. a \in Seq(T) /\ Len(a) = k - 1 /\ \A i \in 1..(k - 1) : a[i] = q[i]
  <2>1. \A i \in 1..(k - 1) : q[i] \in T
    BY <1>0
  <2> HIDE DEF n
  <2> QED BY <1>0, <2>1, SubSeqProperties
<1>2. b \in Seq(T) /\ Len(b) = n - k + 1 /\ \A i \in 1..(n - k + 1) : b[i] = q[k + i - 1]
  <2>1. \A i \in k..n : q[i] \in T
    BY <1>0
  <2> HIDE DEF n
  <2> QED BY <1>0, <2>1, SubSeqProperties
<1>3. /\ w \in Seq(T) /\ Len(w) = n + 1
      /\ \A i \in 1..(n + 1) : w[i] = IF i < k THEN q[i] ELSE IF i = k THEN t ELSE q[i - 1]
  <2>1. \A i \in 1..(n + 1) : (IF i < k THEN q[i] ELSE IF i = k THEN t ELSE q[i - 1]) \in T
    <3> SUFFICES ASSUME NEW i \in 1..(n + 1)
                 PROVE  (IF i < k THEN q[i] ELSE IF i = k THEN t ELSE q[i - 1]) \in T
      OBVIOUS
    <3>1. (i < k => i \in 1..n) /\ (i > k => i - 1 \in 1..n)
      BY <1>0
    <3> HIDE DEF n
    <3> QED BY <1>0, <3>1
  <2> HIDE DEF n
  <2>2. w \in [1..(n + 1) -> T]
    BY <1>0, <2>1 DEF Put
  <2>3. w \in Seq(T) /\ Len(w) = n + 1
    BY <1>0, <2>2, SeqDef
  <2> QED BY <2>3 DEF Put
<1> HIDE DEF a, b, w, n
<1>4. m \in Seq(T) /\ Len(m) = k /\ \A i \in 1..k : m[i] = IF i < k THEN a[i] ELSE t
  <2>1. m = Append(a, t)
    BY <1>1
  <2> HIDE DEF m
  <2> QED BY <1>0, <1>1, <2>1
<1> HIDE DEF m
<1>5. r \in Seq(T) /\ Len(r) = n + 1
      /\ \A i \in 1..(n + 1) : r[i] = IF i <= k THEN m[i] ELSE b[i - k]
  <2>1. /\ r \in Seq(T) /\ Len(r) = Len(m) + Len(b)
        /\ \A i \in 1..(Len(m) + Len(b)) : r[i] = IF i <= Len(m) THEN m[i] ELSE b[i - Len(m)]
    BY <1>2, <1>4, ConcatProperties
  <2>2. Len(m) = k /\ Len(m) + Len(b) = n + 1
    BY <1>0, <1>2, <1>4
  <2> HIDE DEF r
  <2> QED BY <2>1, <2>2
<1> HIDE DEF r
<1>6. \A i \in 1..(n + 1) : r[i] = w[i]
  <2> SUFFICES ASSUME NEW i \in 1..(n + 1) PROVE r[i] = w[i]
    OBVIOUS
  <2>1. CASE i < k
    <3>1. i \in 1..(k - 1) /\ i \in 1..k /\ i <= k
      BY <1>0, <2>1
    <3>2. r[i] = m[i] /\ m[i] = a[i] /\ a[i] = q[i] /\ w[i] = q[i]
      BY <1>1, <1>3, <1>4, <1>5, <2>1, <3>1
    <3> QED BY <3>2
  <2>2. CASE i = k
    <3>1. i \in 1..k /\ i <= k /\ ~(i < k)
      BY <1>0, <2>2
    <3>2. r[i] = m[i] /\ m[i] = t /\ w[i] = t
      BY <1>3, <1>4, <1>5, <2>2, <3>1
    <3> QED BY <3>2
  <2>3. CASE i > k
    <3>1. i - k \in 1..(n - k + 1) /\ k + (i - k) - 1 = i - 1 /\ ~(i < k) /\ i # k /\ ~(i <= k)
      BY <1>0, <2>3
    <3>2. r[i] = b[i - k] /\ w[i] = q[i - 1]
      BY <1>3, <1>5, <3>1
    <3>3. b[i - k] = q[k + (i - k) - 1]
      BY <1>2, <3>1
    <3> QED BY <3>1, <3>2, <3>3
  <2> QED BY <1>0, <2>1, <2>2, <2>3
<1>7. r = w
  BY <1>3, <1>5, <1>6, SeqEqual
<1> QED BY <1>7 DEF a, b, m, r, w, n

LEMMA DropItems ==
    ASSUME NEW T, NEW q \in Seq(T), NEW k \in 1..Len(q)
    PROVE  SubSeq(q, 1, k - 1) \o SubSeq(q, k + 1, Len(q)) = Drop(q, Len(q), k)
<1> DEFINE n == Len(q)
           a == SubSeq(q, 1, k - 1)
           b == SubSeq(q, k + 1, n)
           r == a \o b
           w == Drop(q, n, k)
<1>0. n \in Nat /\ k \in 1..n /\ 1 \in Int /\ k - 1 \in Int /\ k + 1 \in Int /\ n \in Int
      /\ n - 1 \in Nat /\ \A i \in 1..n : q[i] \in T
  OBVIOUS
<1>1. a \in Seq(T) /\ Len(a) = k - 1 /\ \A i \in 1..(k - 1) : a[i] = q[i]
  <2>1. \A i \in 1..(k - 1) : q[i] \in T
    BY <1>0
  <2> HIDE DEF n
  <2> QED BY <1>0, <2>1, SubSeqProperties
<1>2. b \in Seq(T) /\ Len(b) = n - k /\ \A i \in 1..(n - k) : b[i] = q[k + i]
  <2>1. \A i \in (k + 1)..n : q[i] \in T
    BY <1>0
  <2> HIDE DEF n
  <2>2. /\ b \in Seq(T) /\ Len(b) = IF k + 1 <= n THEN n - (k + 1) + 1 ELSE 0
        /\ \A i \in 1..(n - (k + 1) + 1) : b[i] = q[(k + 1) + i - 1]
    BY <1>0, <2>1, SubSeqProperties
  <2> HIDE DEF b
  <2>3. Len(b) = n - k
    BY <1>0, <2>2
  <2>4. ASSUME NEW i \in 1..(n - k) PROVE b[i] = q[k + i]
    <3>1. i \in 1..(n - (k + 1) + 1) /\ (k + 1) + i - 1 = k + i
      BY <1>0
    <3> QED BY <2>2, <3>1
  <2> QED BY <2>2, <2>3, <2>4
<1>3. /\ w \in Seq(T) /\ Len(w) = n - 1
      /\ \A i \in 1..(n - 1) : w[i] = IF i < k THEN q[i] ELSE q[i + 1]
  <2>1. \A i \in 1..(n - 1) : (IF i < k THEN q[i] ELSE q[i + 1]) \in T
    <3> SUFFICES ASSUME NEW i \in 1..(n - 1) PROVE (IF i < k THEN q[i] ELSE q[i + 1]) \in T
      OBVIOUS
    <3>1. i \in 1..n /\ i + 1 \in 1..n
      BY <1>0
    <3> HIDE DEF n
    <3> QED BY <1>0, <3>1
  <2> HIDE DEF n
  <2>2. w \in [1..(n - 1) -> T]
    BY <1>0, <2>1 DEF Drop
  <2>3. w \in Seq(T) /\ Len(w) = n - 1
    BY <1>0, <2>2, SeqDef
  <2> QED BY <2>3 DEF Drop
<1> HIDE DEF a, b, w, n
<1>5. r \in Seq(T) /\ Len(r) = n - 1
      /\ \A i \in 1..(n - 1) : r[i] = IF i <= k - 1 THEN a[i] ELSE b[i - (k - 1)]
  BY <1>0, <1>1, <1>2, ConcatProperties
<1> HIDE DEF r
<1>6. \A i \in 1..(n - 1) : r[i] = w[i]
  <2> SUFFICES ASSUME NEW i \in 1..(n - 1) PROVE r[i] = w[i]
    OBVIOUS
  <2>1. CASE i < k
    BY <1>0, <1>1, <1>3, <1>5, <2>1
  <2>2. CASE ~(i < k)
    <3>1. i - (k - 1) \in 1..(n - k) /\ k + (i - (k - 1)) = i + 1
      BY <1>0, <2>2
    <3> QED BY <1>0, <1>2, <1>3, <1>5, <2>2, <3>1
  <2> QED BY <1>0, <2>1, <2>2
<1>7. r = w
  BY <1>3, <1>5, <1>6, SeqEqual
<1> QED BY <1>7 DEF a, b, r, w, n

-----------------------------------------------------------------------------
(* An insertion at position k and a deletion at position k: the invariant    *)
(* and the step of List.                                                     *)

LEMMA InsertStep ==
    ASSUME NEW s, NEW n, NEW j, Represents(s, n, j), NEW k \in 1..(n + 1),
           NEW c \in Cells \ DOMAIN heap, NEW t \in TokenValues,
           LinksIn(heap, heap', c, t, At(s, n, k - 1), At(s, n, k)),
           first' = IF k = 1 THEN c ELSE first, last' = IF k = n + 1 THEN c ELSE last, active' = active
    PROVE  (\E r, m, i : Represents(r, m, i)') /\ Abstract!InsertAt(k, t)
<1> DEFINE r == Put(s, n, k, c)
           i == IF j >= k THEN j + 1 ELSE j
           q == [a \in 1..n |-> heap[s[a]].token]
           w == [a \in 1..(n + 1) |-> heap'[r[a]].token]
<1>1. /\ Chain(heap, first, last, s, n) /\ n \in Nat /\ k \in 1..(n + 1) /\ j \in 0..n
      /\ active = At(s, n, j) /\ s \in [1..n -> Cells] /\ DOMAIN heap = {s[a] : a \in 1..n}
  BY DEF Represents, Chain
<1>2. Chain(heap', first', last', r, n + 1)
  BY <1>1, PutChain
<1>3. i \in 0..(n + 1) /\ active' = At(r, n + 1, i)
  <2>1. CASE j >= k
    <3>1. j + 1 \in 1..(n + 1) /\ r[j + 1] = s[j] /\ At(s, n, j) = s[j]
      BY <1>1, <2>1 DEF Put, At
    <3> QED BY <1>1, <2>1, <3>1 DEF At
  <2>2. CASE ~(j >= k)
    BY <1>1, <2>2 DEF Put, At
  <2> QED BY <2>1, <2>2
<1>4. items = q /\ q \in Seq(TokenValues) /\ Len(q) = n /\ cursor = j
  BY ItemsNow
<1>5. items' = w /\ cursor' = i
  BY <1>2, <1>3, ItemsNext
<1>6. w = Put(q, n, k, t)
  <2>1. \A a \in 1..n : s[a] \in DOMAIN heap
    BY <1>1
  <2>2. \A a \in 1..(n + 1) : heap'[r[a]].token = IF a < k THEN q[a] ELSE IF a = k THEN t ELSE q[a - 1]
    <3> SUFFICES ASSUME NEW a \in 1..(n + 1)
                 PROVE  heap'[r[a]].token = IF a < k THEN q[a] ELSE IF a = k THEN t ELSE q[a - 1]
      OBVIOUS
    <3>1. CASE a < k
      <4>1. a \in 1..n /\ r[a] = s[a]
        BY <1>1, <3>1 DEF Put
      <4> QED BY <2>1, <3>1, <4>1 DEF LinksIn
    <3>2. CASE a = k
      <4>1. r[a] = c
        BY <1>1, <3>2 DEF Put
      <4> QED BY <1>1, <3>2, <4>1 DEF LinksIn
    <3>3. CASE a > k
      <4>1. a - 1 \in 1..n /\ r[a] = s[a - 1]
        BY <1>1, <3>3 DEF Put
      <4>2. heap'[s[a - 1]].token = heap[s[a - 1]].token
        BY <2>1, <4>1 DEF LinksIn
      <4>3. q[a - 1] = heap[s[a - 1]].token
        BY <4>1
      <4>4. ~(a < k) /\ a # k
        BY <1>1, <3>3
      <4> QED BY <4>1, <4>2, <4>3, <4>4
    <3> QED BY <1>1, <3>1, <3>2, <3>3
  <2> HIDE DEF r, q
  <2> QED BY <2>2 DEF Put
<1> HIDE DEF r, q, w, i
<1>7. items' = SubSeq(items, 1, k - 1) \o <<t>> \o SubSeq(items, k, Len(items))
  <2>1. k \in 1..(Len(q) + 1)
    BY <1>1, <1>4
  <2>2. SubSeq(q, 1, k - 1) \o <<t>> \o SubSeq(q, k, Len(q)) = Put(q, Len(q), k, t)
    BY <1>4, <2>1, PutItems
  <2> QED BY <1>4, <1>5, <1>6, <2>2
<1>8. cursor' = IF cursor >= k THEN cursor + 1 ELSE cursor
  BY <1>4, <1>5 DEF i
<1>9. Represents(r, n + 1, i)'
  BY <1>2, <1>3 DEF Represents
<1> QED BY <1>7, <1>8, <1>9 DEF Abstract!InsertAt

LEMMA DeleteStep ==
    ASSUME NEW s, NEW n, NEW j, Represents(s, n, j), NEW k \in 1..n,
           LinksOut(heap, heap', s[k], At(s, n, k - 1), At(s, n, k + 1)),
           first' = IF k = 1 THEN At(s, n, 2) ELSE first,
           last' = IF k = n THEN At(s, n, n - 1) ELSE last,
           active' = IF j = k THEN NULL ELSE active
    PROVE  (\E r, m, i : Represents(r, m, i)') /\ Abstract!DeleteAt(k)
<1> DEFINE r == Drop(s, n, k)
           i == IF j = k THEN 0 ELSE IF j > k THEN j - 1 ELSE j
           q == [a \in 1..n |-> heap[s[a]].token]
           w == [a \in 1..(n - 1) |-> heap'[r[a]].token]
<1>1. /\ Chain(heap, first, last, s, n) /\ n \in Nat /\ k \in 1..n /\ j \in 0..n
      /\ active = At(s, n, j) /\ s \in [1..n -> Cells] /\ DOMAIN heap = {s[a] : a \in 1..n}
  BY DEF Represents, Chain
<1>2. Chain(heap', first', last', r, n - 1)
  BY <1>1, DropChain
<1>3. i \in 0..(n - 1) /\ active' = At(r, n - 1, i)
  <2>1. CASE j = k
    BY <1>1, <2>1 DEF At
  <2>2. CASE j > k
    <3>1. j - 1 \in 1..(n - 1) /\ r[j - 1] = s[j] /\ At(s, n, j) = s[j]
      BY <1>1, <2>2 DEF Drop, At
    <3> QED BY <1>1, <2>2, <3>1 DEF At
  <2>3. CASE j < k
    BY <1>1, <2>3 DEF Drop, At
  <2> QED BY <1>1, <2>1, <2>2, <2>3
<1>4. items = q /\ q \in Seq(TokenValues) /\ Len(q) = n /\ cursor = j
  BY ItemsNow
<1>5. items' = w /\ cursor' = i
  BY <1>2, <1>3, ItemsNext
<1>6. w = Drop(q, n, k)
  <2>1. \A a \in 1..n : a # k => s[a] \in DOMAIN heap \ {s[k]}
    <3>1. \A a, b \in 1..n : s[a] = s[b] => a = b
      BY <1>1 DEF Chain
    <3> QED BY <1>1, <3>1
  <2>2. \A a \in 1..(n - 1) : heap'[r[a]].token = IF a < k THEN q[a] ELSE q[a + 1]
    <3> SUFFICES ASSUME NEW a \in 1..(n - 1)
                 PROVE  heap'[r[a]].token = IF a < k THEN q[a] ELSE q[a + 1]
      OBVIOUS
    <3>1. CASE a < k
      <4>1. a \in 1..n /\ r[a] = s[a] /\ a # k
        BY <1>1, <3>1 DEF Drop
      <4> QED BY <2>1, <3>1, <4>1 DEF LinksOut
    <3>2. CASE ~(a < k)
      <4>1. a + 1 \in 1..n /\ r[a] = s[a + 1] /\ a + 1 # k
        BY <1>1, <3>2 DEF Drop
      <4> QED BY <2>1, <3>2, <4>1 DEF LinksOut
    <3> QED BY <3>1, <3>2
  <2> HIDE DEF r, q
  <2> QED BY <2>2 DEF Drop
<1> HIDE DEF r, q, w, i
<1>7. items' = SubSeq(items, 1, k - 1) \o SubSeq(items, k + 1, Len(items))
  <2>1. k \in 1..Len(q)
    BY <1>1, <1>4
  <2>2. SubSeq(q, 1, k - 1) \o SubSeq(q, k + 1, Len(q)) = Drop(q, Len(q), k)
    BY <1>4, <2>1, DropItems
  <2> QED BY <1>4, <1>5, <1>6, <2>2
<1>8. cursor' = IF cursor = k THEN 0 ELSE IF cursor > k THEN cursor - 1 ELSE cursor
  BY <1>4, <1>5 DEF i
<1>9. Represents(r, n - 1, i)'
  BY <1>2, <1>3 DEF Represents
<1>10. k \in DOMAIN items
  BY <1>1, <1>4 DEF q
<1> QED BY <1>7, <1>8, <1>9, <1>10 DEF Abstract!DeleteAt

-----------------------------------------------------------------------------
(* The operations.                                                           *)

(* The ends, the neighbours and the addresses, of the chain there is. *)
LEMMA Ends ==
    ASSUME NEW s, NEW n, NEW j, Represents(s, n, j)
    PROVE  /\ n \in Nat /\ j \in 0..n /\ active = At(s, n, j)
           /\ first = At(s, n, 1) /\ last = At(s, n, n)
           /\ heap \in [DOMAIN heap -> Elements] /\ DOMAIN heap \subseteq Cells
           /\ \A i \in 1..n : /\ s[i] \in DOMAIN heap /\ s[i] # NULL /\ At(s, n, i) = s[i]
                             /\ heap[s[i]].next = At(s, n, i + 1)
                             /\ heap[s[i]].prev = At(s, n, i - 1)
           /\ \A i \in Int : i \notin 1..n => At(s, n, i) = NULL
           /\ \A i \in Int : At(s, n, i) \in DOMAIN heap \cup {NULL}
           /\ \A i, k \in 1..n : s[i] = s[k] => i = k
<1>1. n \in Nat /\ s \in [1..n -> Cells] /\ heap \in [{s[i] : i \in 1..n} -> Elements]
  BY DEF Represents, Chain
<1>2. DOMAIN heap = {s[i] : i \in 1..n} /\ DOMAIN heap \subseteq Cells
  BY <1>1
<1>3. \A i \in 1..n : s[i] \in DOMAIN heap /\ s[i] # NULL /\ At(s, n, i) = s[i]
  BY <1>1, <1>2, CellsAssumption DEF At
<1>4. \A i \in Int : i \notin 1..n => At(s, n, i) = NULL
  BY DEF At
<1>5. \A i \in Int : At(s, n, i) \in DOMAIN heap \cup {NULL}
  BY <1>3, <1>4
<1> QED BY <1>1, <1>2, <1>3, <1>4, <1>5 DEF Represents, Chain

LEMMA InsertFirstStep ==
    ASSUME NEW s, NEW n, NEW j, Represents(s, n, j), NEW t \in TokenValues, DLL_InsertFirst(t)
    PROVE  (\E r, m, i : Represents(r, m, i)') /\ Abstract!InsertFirst(t)
<1>1. PICK new \in Cells \ DOMAIN heap :
        /\ heap' = Assign(Malloc(new, [token |-> t, prev |-> NULL, next |-> first]), first, "prev", new)
        /\ last' = IF first # NULL THEN last ELSE new
        /\ first' = new
  BY DEF DLL_InsertFirst
<1>2. /\ n \in Nat /\ 1 \in 1..(n + 1) /\ 1 - 1 = 0 /\ At(s, n, 0) = NULL /\ At(s, n, 1) = first
      /\ first # NULL <=> 1 # n + 1
      /\ heap \in [DOMAIN heap -> Elements] /\ DOMAIN heap \subseteq Cells
      /\ first \in DOMAIN heap \cup {NULL} /\ active' = active
  BY Ends DEF DLL_InsertFirst
<1>3. LinksIn(heap, heap', new, t, NULL, first)
  BY <1>1, <1>2, LinkIn DEF Assign
<1>4. last' = IF 1 = n + 1 THEN new ELSE last
  BY <1>1, <1>2
<1>5. (\E r, m, i : Represents(r, m, i)') /\ Abstract!InsertAt(1, t)
  BY <1>1, <1>2, <1>3, <1>4, InsertStep
<1> QED BY <1>5 DEF Abstract!InsertFirst

LEMMA InsertLastStep ==
    ASSUME NEW s, NEW n, NEW j, Represents(s, n, j), NEW t \in TokenValues, DLL_InsertLast(t)
    PROVE  (\E r, m, i : Represents(r, m, i)') /\ Abstract!InsertLast(t)
<1>1. PICK new \in Cells \ DOMAIN heap :
        /\ heap' = Assign(Malloc(new, [token |-> t, prev |-> last, next |-> NULL]), last, "next", new)
        /\ first' = IF last # NULL THEN first ELSE new
        /\ last' = new
  BY DEF DLL_InsertLast
<1>2. /\ n \in Nat /\ n + 1 \in 1..(n + 1) /\ (n + 1) - 1 = n /\ At(s, n, n + 1) = NULL /\ At(s, n, n) = last
      /\ last # NULL <=> 1 # n + 1
      /\ heap \in [DOMAIN heap -> Elements] /\ DOMAIN heap \subseteq Cells
      /\ last \in DOMAIN heap \cup {NULL} /\ active' = active
  BY Ends DEF DLL_InsertLast
<1>3. LinksIn(heap, heap', new, t, last, NULL)
  BY <1>1, <1>2, LinkIn DEF Assign
<1>4. first' = IF n + 1 = 1 THEN new ELSE first
  BY <1>1, <1>2
<1>5. (\E r, m, i : Represents(r, m, i)') /\ Abstract!InsertAt(n + 1, t)
  BY <1>1, <1>2, <1>3, <1>4, InsertStep
<1>6. Len(items) = n
  BY ItemsNow
<1> QED BY <1>5, <1>6 DEF Abstract!InsertLast

LEMMA InsertAfterStep ==
    ASSUME NEW s, NEW n, NEW j, Represents(s, n, j), NEW t \in TokenValues, DLL_InsertAfter(t)
    PROVE  (\E r, m, i : Represents(r, m, i)') /\ Abstract!InsertAfter(t)
<1>1. j \in 1..n /\ n \in Nat /\ active = s[j] /\ active # NULL /\ heap[active].next = At(s, n, j + 1)
      /\ active' = active /\ first' = first
  BY Ends DEF DLL_InsertAfter
<1>2. PICK new \in Cells \ DOMAIN heap :
        /\ heap' = Assign(Assign(Malloc(new, [token |-> t, prev |-> active, next |-> At(s, n, j + 1)]),
                                active, "next", new), At(s, n, j + 1), "prev", new)
        /\ last' = IF active = last THEN new ELSE last
  BY <1>1 DEF DLL_InsertAfter
<1>3. /\ j + 1 \in 1..(n + 1) /\ (j + 1) - 1 = j /\ At(s, n, j) = active /\ j + 1 # 1
      /\ heap \in [DOMAIN heap -> Elements] /\ DOMAIN heap \subseteq Cells
      /\ active \in DOMAIN heap \cup {NULL} /\ At(s, n, j + 1) \in DOMAIN heap \cup {NULL}
  BY <1>1, Ends
<1>4. LinksIn(heap, heap', new, t, active, At(s, n, j + 1))
  BY <1>2, <1>3, LinkIn
<1>5. active = last <=> j + 1 = n + 1
  BY <1>1, Ends
<1>6. last' = IF j + 1 = n + 1 THEN new ELSE last
  BY <1>2, <1>5
<1>7. (\E r, m, i : Represents(r, m, i)') /\ Abstract!InsertAt(j + 1, t)
  BY <1>1, <1>2, <1>3, <1>4, <1>6, InsertStep
<1>8. cursor = j /\ j # 0
  BY <1>1, ItemsNow
<1> QED BY <1>7, <1>8 DEF Abstract!InsertAfter, Abstract!Active

LEMMA InsertBeforeStep ==
    ASSUME NEW s, NEW n, NEW j, Represents(s, n, j), NEW t \in TokenValues, DLL_InsertBefore(t)
    PROVE  (\E r, m, i : Represents(r, m, i)') /\ Abstract!InsertBefore(t)
<1>1. j \in 1..n /\ n \in Nat /\ active = s[j] /\ active # NULL /\ heap[active].prev = At(s, n, j - 1)
      /\ active' = active /\ last' = last
  BY Ends DEF DLL_InsertBefore
<1>2. PICK new \in Cells \ DOMAIN heap :
        /\ heap' = Assign(Assign(Malloc(new, [token |-> t, prev |-> At(s, n, j - 1), next |-> active]),
                                active, "prev", new), At(s, n, j - 1), "next", new)
        /\ first' = IF active = first THEN new ELSE first
  BY <1>1 DEF DLL_InsertBefore
<1>3. /\ j \in 1..(n + 1) /\ At(s, n, j) = active /\ j # n + 1
      /\ heap \in [DOMAIN heap -> Elements] /\ DOMAIN heap \subseteq Cells
      /\ active \in DOMAIN heap \cup {NULL} /\ At(s, n, j - 1) \in DOMAIN heap \cup {NULL}
  BY <1>1, Ends
<1>4. LinksIn(heap, heap', new, t, At(s, n, j - 1), active)
  BY <1>2, <1>3, LinkIn
<1>5. active = first <=> j = 1
  BY <1>1, Ends
<1>6. first' = IF j = 1 THEN new ELSE first
  BY <1>2, <1>5
<1>7. (\E r, m, i : Represents(r, m, i)') /\ Abstract!InsertAt(j, t)
  BY <1>1, <1>2, <1>3, <1>4, <1>6, InsertStep
<1>8. cursor = j /\ j # 0
  BY <1>1, ItemsNow
<1> QED BY <1>7, <1>8 DEF Abstract!InsertBefore, Abstract!Active

LEMMA DeleteFirstStep ==
    ASSUME NEW s, NEW n, NEW j, Represents(s, n, j), DLL_DeleteFirst
    PROVE  (\E r, m, i : Represents(r, m, i)') /\ Abstract!DeleteFirst
<1> DEFINE after == At(s, n, 2)
<1>1. n \in Nat /\ 1 \in 1..n /\ first = s[1] /\ At(s, n, 1 - 1) = NULL /\ heap[first].next = after /\ 1 + 1 = 2
  BY Ends DEF DLL_DeleteFirst
<1>2. /\ first = last <=> n = 1
      /\ active = first <=> j = 1
      /\ n = 1 => after = NULL /\ At(s, n, n - 1) = NULL
  BY <1>1, Ends
<1>3. /\ heap \in [DOMAIN heap -> Elements] /\ DOMAIN heap \subseteq Cells /\ first \in DOMAIN heap
      /\ after \in (DOMAIN heap \ {first}) \cup {NULL} /\ NULL \in (DOMAIN heap \ {first}) \cup {NULL}
  BY <1>1, Ends
<1> HIDE DEF after
<1>4. /\ heap' = Free(Assign(Assign(heap, NULL, "next", after), after, "prev", NULL), {first})
      /\ first' = after /\ last' = IF 1 = n THEN At(s, n, n - 1) ELSE last
  <2>1. CASE n = 1
    BY <1>1, <1>2, <2>1 DEF DLL_DeleteFirst, Assign
  <2>2. CASE n # 1
    BY <1>1, <1>2, <2>2 DEF DLL_DeleteFirst, Assign
  <2> QED BY <2>1, <2>2
<1>5. LinksOut(heap, heap', first, NULL, after)
  BY <1>3, <1>4, LinkOut
<1>6. active' = IF j = 1 THEN NULL ELSE active
  BY <1>2 DEF DLL_DeleteFirst
<1>7. (\E r, m, i : Represents(r, m, i)') /\ Abstract!DeleteAt(1)
  BY <1>1, <1>4, <1>5, <1>6, DeleteStep DEF after
<1> QED BY <1>7 DEF Abstract!DeleteFirst

LEMMA DeleteLastStep ==
    ASSUME NEW s, NEW n, NEW j, Represents(s, n, j), DLL_DeleteLast
    PROVE  (\E r, m, i : Represents(r, m, i)') /\ Abstract!DeleteLast
<1> DEFINE before == At(s, n, n - 1)
<1>1. n \in Nat /\ n \in 1..n /\ last = s[n] /\ At(s, n, n + 1) = NULL /\ heap[last].prev = before
  BY Ends DEF DLL_DeleteLast
<1>2. /\ first = last <=> n = 1
      /\ active = last <=> j = n
      /\ n = 1 => before = NULL /\ At(s, n, 2) = NULL
  BY <1>1, Ends
<1>3. /\ heap \in [DOMAIN heap -> Elements] /\ DOMAIN heap \subseteq Cells /\ last \in DOMAIN heap
      /\ before \in (DOMAIN heap \ {last}) \cup {NULL} /\ NULL \in (DOMAIN heap \ {last}) \cup {NULL}
  BY <1>1, Ends
<1> HIDE DEF before
<1>4. /\ heap' = Free(Assign(Assign(heap, before, "next", NULL), NULL, "prev", before), {last})
      /\ last' = before /\ first' = IF n = 1 THEN At(s, n, 2) ELSE first
  <2>1. CASE n = 1
    BY <1>1, <1>2, <2>1 DEF DLL_DeleteLast, Assign
  <2>2. CASE n # 1
    BY <1>1, <1>2, <2>2 DEF DLL_DeleteLast, Assign
  <2> QED BY <2>1, <2>2
<1>5. LinksOut(heap, heap', last, before, NULL)
  BY <1>3, <1>4, LinkOut
<1>6. active' = IF j = n THEN NULL ELSE active
  BY <1>2 DEF DLL_DeleteLast
<1>7. (\E r, m, i : Represents(r, m, i)') /\ Abstract!DeleteAt(n)
  BY <1>1, <1>4, <1>5, <1>6, DeleteStep DEF before
<1>8. Len(items) = n
  BY ItemsNow
<1> QED BY <1>7, <1>8 DEF Abstract!DeleteLast

LEMMA DeleteAfterStep ==
    ASSUME NEW s, NEW n, NEW j, Represents(s, n, j), DLL_DeleteAfter
    PROVE  (\E r, m, i : Represents(r, m, i)') /\ Abstract!DeleteAfter
<1> DEFINE k == j + 1
           after == At(s, n, k + 1)
<1>1. j \in 1..n /\ k \in 1..n /\ n \in Nat /\ active = s[j] /\ heap[active].next = s[k] /\ s[k] # NULL
  BY Ends DEF DLL_DeleteAfter
<1>2. heap[s[k]].next = after /\ At(s, n, k - 1) = active /\ k # 1 /\ j # k /\ n - 1 \in Int
  BY <1>1, Ends
<1>3. s[k] = last <=> k = n
  BY <1>1, Ends
<1>4. /\ heap \in [DOMAIN heap -> Elements] /\ DOMAIN heap \subseteq Cells /\ s[k] \in DOMAIN heap
      /\ after \in (DOMAIN heap \ {s[k]}) \cup {NULL} /\ active \in (DOMAIN heap \ {s[k]}) \cup {NULL}
  <2>1. after \in (DOMAIN heap \ {s[k]}) \cup {NULL}
    BY <1>1, Ends
  <2>2. active # s[k] /\ active \in DOMAIN heap
    BY <1>1, Ends
  <2> QED BY <1>1, <2>1, <2>2, Ends
<1> HIDE DEF k, after
<1>5. /\ heap' = Free(Assign(Assign(heap, active, "next", after), after, "prev", active), {s[k]})
      /\ last' = IF k = n THEN At(s, n, n - 1) ELSE last
      /\ first' = first /\ active' = active
  BY <1>1, <1>2, <1>3 DEF DLL_DeleteAfter
<1>6. LinksOut(heap, heap', s[k], active, after)
  BY <1>4, <1>5, LinkOut
<1>7. (\E r, m, i : Represents(r, m, i)') /\ Abstract!DeleteAt(k)
  BY <1>1, <1>2, <1>5, <1>6, DeleteStep DEF after
<1>8. cursor = j /\ j # 0
  BY <1>1, ItemsNow
<1> QED BY <1>7, <1>8 DEF Abstract!DeleteAfter, Abstract!Active, k

LEMMA DeleteBeforeStep ==
    ASSUME NEW s, NEW n, NEW j, Represents(s, n, j), DLL_DeleteBefore
    PROVE  (\E r, m, i : Represents(r, m, i)') /\ Abstract!DeleteBefore
<1> DEFINE k == j - 1
           before == At(s, n, k - 1)
<1>1. j \in 1..n /\ k \in 1..n /\ n \in Nat /\ active = s[j] /\ heap[active].prev = s[k] /\ s[k] # NULL
  BY Ends DEF DLL_DeleteBefore
<1>2. heap[s[k]].prev = before /\ At(s, n, k + 1) = active /\ k # n /\ j # k /\ (k = 1 => active = At(s, n, 2))
  BY <1>1, Ends
<1>3. s[k] = first <=> k = 1
  BY <1>1, Ends
<1>4. /\ heap \in [DOMAIN heap -> Elements] /\ DOMAIN heap \subseteq Cells /\ s[k] \in DOMAIN heap
      /\ before \in (DOMAIN heap \ {s[k]}) \cup {NULL} /\ active \in (DOMAIN heap \ {s[k]}) \cup {NULL}
  <2>1. before \in (DOMAIN heap \ {s[k]}) \cup {NULL}
    BY <1>1, Ends
  <2>2. active # s[k] /\ active \in DOMAIN heap
    BY <1>1, Ends
  <2> QED BY <1>1, <2>1, <2>2, Ends
<1> HIDE DEF k, before
<1>5. /\ heap' = Free(Assign(Assign(heap, active, "prev", before), before, "next", active), {s[k]})
      /\ first' = IF k = 1 THEN At(s, n, 2) ELSE first
      /\ last' = last /\ active' = active
  BY <1>1, <1>2, <1>3 DEF DLL_DeleteBefore
<1>6. LinksOut(heap, heap', s[k], before, active)
  BY <1>4, <1>5, LinkOut
<1>7. (\E r, m, i : Represents(r, m, i)') /\ Abstract!DeleteAt(k)
  BY <1>1, <1>2, <1>5, <1>6, DeleteStep DEF before
<1>8. cursor = j /\ j # 0
  BY <1>1, ItemsNow
<1> QED BY <1>7, <1>8 DEF Abstract!DeleteBefore, Abstract!Active, k

(* Nothing allocated, and nothing in the list. *)
LEMMA EmptyNext ==
    ASSUME heap' \in [{} -> Elements], first' = NULL, last' = NULL, active' = NULL
    PROVE  (\E r, m, i : Represents(r, m, i)') /\ items' = <<>> /\ cursor' = 0
<1> DEFINE s == [i \in 1..0 |-> NULL]
<1>1. Chain(heap', first', last', s, 0) /\ active' = At(s, 0, 0)
  BY DEF Chain, At
<1>2. items' = [i \in 1..0 |-> heap'[s[i]].token] /\ cursor' = 0
  BY <1>1, ItemsNext
<1>3. Represents(s, 0, 0)'
  BY <1>1 DEF Represents
<1> QED BY <1>2, <1>3

LEMMA DisposeStep ==
    ASSUME NEW s, NEW n, NEW j, Represents(s, n, j), DLL_Dispose
    PROVE  (\E r, m, i : Represents(r, m, i)') /\ Abstract!Dispose
<1>1. Walk(heap, first, "next") = s
  BY ChainWalks DEF Represents
<1>2. s \in [1..n -> Cells] /\ DOMAIN heap = {s[i] : i \in 1..n}
  BY DEF Represents, Chain
<1>3. DOMAIN heap \ ToSet(s) = {}
  BY <1>2 DEF ToSet
<1>4. heap' \in [{} -> Elements]
  BY <1>1, <1>3 DEF DLL_Dispose, Free
<1>5. (\E r, m, i : Represents(r, m, i)') /\ items' = <<>> /\ cursor' = 0
  BY <1>4, EmptyNext DEF DLL_Dispose
<1> QED BY <1>5 DEF Abstract!Dispose

LEMMA SetValueStep ==
    ASSUME NEW s, NEW n, NEW j, Represents(s, n, j), NEW t \in TokenValues, DLL_SetValue(t)
    PROVE  (\E r, m, i : Represents(r, m, i)') /\ Abstract!SetValue(t)
<1>1. /\ j \in 1..n /\ n \in Nat /\ active = s[j] /\ active \in DOMAIN heap /\ active # NULL
      /\ heap \in [DOMAIN heap -> Elements] /\ UNCHANGED <<first, last, active>>
      /\ heap' = Assign(heap, active, "token", t)
  BY Ends DEF DLL_SetValue
<1>2. \A i, k \in 1..n : s[i] = s[k] => i = k
  BY Ends
<1>3. /\ heap' \in [DOMAIN heap -> Elements]
      /\ \A a \in DOMAIN heap :
            /\ heap'[a].next = heap[a].next /\ heap'[a].prev = heap[a].prev
            /\ heap'[a].token = IF a = active THEN t ELSE heap[a].token
  BY <1>1 DEF Assign, Elements
<1>4. Chain(heap', first', last', s, n)
  BY <1>1, <1>3 DEF Represents, Chain
<1>5. j \in 0..n /\ active' = At(s, n, j)
  BY <1>1 DEF At
<1>6. items' = [i \in 1..n |-> heap'[s[i]].token] /\ cursor' = j
  BY <1>4, <1>5, ItemsNext
<1>7. items = [i \in 1..n |-> heap[s[i]].token] /\ cursor = j
  BY ItemsNow
<1>8. \A i \in 1..n : s[i] \in DOMAIN heap
  BY Ends
<1>9. \A i \in 1..n : heap'[s[i]].token = IF i = j THEN t ELSE heap[s[i]].token
  BY <1>1, <1>2, <1>3, <1>8
<1>10. items' = [items EXCEPT ![cursor] = t]
  BY <1>1, <1>6, <1>7, <1>9
<1>11. Represents(s, n, j)'
  BY <1>4, <1>5 DEF Represents
<1>12. cursor # 0 /\ cursor' = cursor
  BY <1>1, <1>6, <1>7
<1> QED BY <1>10, <1>11, <1>12 DEF Abstract!SetValue, Abstract!Active

LEMMA MoveStep ==
    ASSUME NEW s, NEW n, NEW j, Represents(s, n, j), UNCHANGED <<heap, first, last>>,
           NEW i \in 0..n, active' = At(s, n, i)
    PROVE  (\E r, m, a : Represents(r, m, a)') /\ UNCHANGED items /\ cursor' = i
<1>1. Chain(heap', first', last', s, n)
  BY DEF Represents
<1>2. items' = [a \in 1..n |-> heap'[s[a]].token] /\ cursor' = i
  BY <1>1, ItemsNext
<1>3. items = [a \in 1..n |-> heap[s[a]].token]
  BY ItemsNow
<1>4. Represents(s, n, i)'
  BY <1>1 DEF Represents
<1> QED BY <1>2, <1>3, <1>4

LEMMA MovesStep ==
    ASSUME NEW s, NEW n, NEW j, Represents(s, n, j), Move
    PROVE  (\E r, m, i : Represents(r, m, i)') /\ Abstract!Next
<1>1. /\ n \in Nat /\ j \in 0..n /\ active = At(s, n, j) /\ first = At(s, n, 1) /\ last = At(s, n, n)
      /\ At(s, n, 0) = NULL /\ At(s, n, n + 1) = NULL
      /\ UNCHANGED <<heap, first, last>>
  BY Ends DEF Move, DLL_First, DLL_Last, DLL_Next, DLL_Previous
<1>2. cursor = j /\ items \in Seq(TokenValues) /\ Len(items) = n
  BY ItemsNow
<1>3. CASE DLL_First
  <2> DEFINE i == IF n = 0 THEN 0 ELSE 1
  <2>1. i \in 0..n /\ active' = At(s, n, i)
    BY <1>1, <1>3 DEF DLL_First
  <2>2. (\E r, m, a : Represents(r, m, a)') /\ UNCHANGED items /\ cursor' = i
    BY <1>1, <2>1, MoveStep
  <2>3. items = <<>> <=> n = 0
    BY <1>2, EmptySeq
  <2> QED BY <2>2, <2>3 DEF Abstract!Next, Abstract!First
<1>4. CASE DLL_Last
  <2>1. n \in 0..n /\ active' = At(s, n, n)
    BY <1>1, <1>4 DEF DLL_Last
  <2>2. (\E r, m, a : Represents(r, m, a)') /\ UNCHANGED items /\ cursor' = n
    BY <1>1, <2>1, MoveStep
  <2> QED BY <1>2, <2>2 DEF Abstract!Next, Abstract!Last
<1>5. CASE DLL_Next
  <2> DEFINE i == IF j = n THEN 0 ELSE j + 1
  <2>1. j # 0 /\ j \in 1..n
    BY <1>1, <1>5 DEF DLL_Next
  <2>2. active' = At(s, n, j + 1)
    BY <1>1, <1>5, <2>1, Ends DEF DLL_Next
  <2>3. i \in 0..n /\ active' = At(s, n, i)
    BY <1>1, <2>1, <2>2
  <2> HIDE DEF i
  <2>4. (\E r, m, a : Represents(r, m, a)') /\ UNCHANGED items /\ cursor' = i
    BY <1>1, <2>3, MoveStep
  <2> QED BY <1>2, <2>1, <2>4 DEF Abstract!Next, Abstract!Forward, Abstract!Active, i
<1>6. CASE DLL_Previous
  <2>1. j # 0 /\ j \in 1..n /\ j - 1 \in 0..n
    BY <1>1, <1>6 DEF DLL_Previous
  <2>2. active' = At(s, n, j - 1)
    BY <1>1, <1>6, <2>1, Ends DEF DLL_Previous
  <2>3. (\E r, m, a : Represents(r, m, a)') /\ UNCHANGED items /\ cursor' = j - 1
    BY <1>1, <2>1, <2>2, MoveStep
  <2> QED BY <1>2, <2>1, <2>3 DEF Abstract!Next, Abstract!Backward, Abstract!Active
<1> QED BY <1>3, <1>4, <1>5, <1>6 DEF Move

LEMMA UnchangedStep ==
    ASSUME NEW s, NEW n, NEW j, Represents(s, n, j), UNCHANGED list
    PROVE  (\E r, m, i : Represents(r, m, i)') /\ UNCHANGED Abstract!vars
<1>1. j \in 0..n /\ active' = At(s, n, j) /\ UNCHANGED <<heap, first, last>>
  BY DEF Represents, list
<1>2. (\E r, m, i : Represents(r, m, i)') /\ UNCHANGED items /\ cursor' = j
  BY <1>1, MoveStep
<1>3. cursor = j
  BY ItemsNow
<1> QED BY <1>2, <1>3 DEF Abstract!vars

LEMMA InitRepresents == DLL_Init => IInv /\ Abstract!Init
<1> SUFFICES ASSUME DLL_Init PROVE IInv /\ Abstract!Init
  OBVIOUS
<1> DEFINE s == [i \in 1..0 |-> NULL]
<1>1. heap \in [{} -> Elements] /\ first = NULL /\ last = NULL /\ active = NULL
  BY DEF DLL_Init
<1>2. Represents(s, 0, 0)
  BY <1>1 DEF Represents, Chain, At
<1>3. items = [i \in 1..0 |-> heap[s[i]].token] /\ cursor = 0
  BY <1>2, ItemsNow
<1>4. items = <<>>
  BY <1>3
<1> QED BY <1>2, <1>3, <1>4 DEF IInv, DLL_Init, Abstract!Init

(* What the Get functions hand out are tokens of the list, and the only     *)
(* error is 99.                                                              *)
LEMMA TokensHandedOut ==
    ASSUME IInv, [Next]_vars
    PROVE  token' \in TokenValues /\ exit_code' \in {0, 99}
<1> PICK s, n, j : Represents(s, n, j)
  BY DEF IInv
<1>1. \A c \in DOMAIN heap : heap[c].token \in TokenValues
  <2>1. ASSUME NEW c \in DOMAIN heap PROVE heap[c] \in Elements
    BY <2>1, Ends
  <2> QED BY <2>1 DEF Elements
<1>2. (last # NULL => last \in DOMAIN heap) /\ (active # NULL => active \in DOMAIN heap)
  BY Ends
<1>3. token \in TokenValues /\ exit_code \in {0, 99}
  BY DEF IInv
<1>4. ASSUME NEW t \in TokenValues, Insert(t) PROVE Quiet
  BY <1>4 DEF Insert, DLL_InsertFirst, DLL_InsertLast, DLL_InsertAfter, DLL_InsertBefore, DLL_SetValue
<1>5. ASSUME Delete PROVE Quiet
  BY <1>5 DEF Delete, DLL_DeleteFirst, DLL_DeleteLast, DLL_DeleteAfter, DLL_DeleteBefore, DLL_Dispose
<1>6. ASSUME Move PROVE Quiet
  BY <1>6 DEF Move, DLL_First, DLL_Last, DLL_Next, DLL_Previous
<1>7. ASSUME Get PROVE token' \in TokenValues /\ exit_code' \in {0, 99}
  <2>1. CASE DLL_GetFirst
    BY <1>3, <2>1 DEF DLL_GetFirst
  <2>2. CASE DLL_GetLast
    BY <1>1, <1>2, <1>3, <2>2 DEF DLL_GetLast
  <2>3. CASE DLL_GetValue
    BY <1>1, <1>2, <1>3, <2>3 DEF DLL_GetValue
  <2>4. CASE GetFails
    BY <1>3, <2>4 DEF GetFails
  <2> QED BY <1>7, <2>1, <2>2, <2>3, <2>4 DEF Get
<1>8. ASSUME UNCHANGED vars PROVE Quiet
  BY <1>8 DEF Quiet, vars
<1>9. CASE Quiet
  BY <1>3, <1>9 DEF Quiet
<1> QED BY <1>4, <1>5, <1>6, <1>7, <1>8, <1>9 DEF Next, Halted

(* Each step keeps the invariant and is a step of List or none. *)
LEMMA Step ==
    ASSUME IInv, [Next]_vars
    PROVE  IInv' /\ [Abstract!Next]_(Abstract!vars)
<1> DEFINE Goal == (\E r, m, i : Represents(r, m, i)') /\ (Abstract!Next \/ UNCHANGED Abstract!vars)
<1> PICK s, n, j : Represents(s, n, j)
  BY DEF IInv
<1>1. ASSUME NEW t \in TokenValues, Insert(t) PROVE Goal
  <2>1. CASE DLL_InsertFirst(t)
    BY <2>1, InsertFirstStep DEF Abstract!Next
  <2>2. CASE DLL_InsertLast(t)
    BY <2>2, InsertLastStep DEF Abstract!Next
  <2>3. CASE DLL_InsertAfter(t)
    BY <2>3, InsertAfterStep DEF Abstract!Next
  <2>4. CASE DLL_InsertBefore(t)
    BY <2>4, InsertBeforeStep DEF Abstract!Next
  <2>5. CASE DLL_SetValue(t)
    BY <2>5, SetValueStep DEF Abstract!Next
  <2> QED BY <1>1, <2>1, <2>2, <2>3, <2>4, <2>5 DEF Insert
<1>2. ASSUME Delete PROVE Goal
  <2>1. CASE DLL_DeleteFirst
    BY <2>1, DeleteFirstStep DEF Abstract!Next
  <2>2. CASE DLL_DeleteLast
    BY <2>2, DeleteLastStep DEF Abstract!Next
  <2>3. CASE DLL_DeleteAfter
    BY <2>3, DeleteAfterStep DEF Abstract!Next
  <2>4. CASE DLL_DeleteBefore
    BY <2>4, DeleteBeforeStep DEF Abstract!Next
  <2>5. CASE DLL_Dispose
    BY <2>5, DisposeStep DEF Abstract!Next
  <2> QED BY <1>2, <2>1, <2>2, <2>3, <2>4, <2>5 DEF Delete
<1>3. ASSUME Move PROVE Goal
  BY <1>3, MovesStep
<1>4. ASSUME Get PROVE Goal
  <2>1. UNCHANGED list
    BY <1>4 DEF Get, DLL_GetFirst, DLL_GetLast, DLL_GetValue, GetFails
  <2> QED BY <2>1, UnchangedStep
<1>5. ASSUME UNCHANGED vars PROVE Goal
  <2>1. UNCHANGED list
    BY <1>5 DEF vars
  <2> QED BY <2>1, UnchangedStep
<1> HIDE DEF Goal
<1>6. Goal
  BY <1>1, <1>2, <1>3, <1>4, <1>5 DEF Next, Halted
<1> QED BY <1>6, TokensHandedOut DEF IInv, Goal

LEMMA Invariant == Spec => []IInv
<1>1. DLL_Init => IInv
  BY InitRepresents
<1>2. IInv /\ [Next]_vars => IInv'
  BY Step
<1> QED BY <1>1, <1>2, PTL DEF Spec

(* The list implements the sequence with a cursor: every operation inserts,  *)
(* removes or moves to what structures.h promises.                           *)
THEOREM Refinement == Spec => ImplementsList
<1>1. DLL_Init => Abstract!Init
  BY InitRepresents
<1>2. IInv /\ [Next]_vars => [Abstract!Next]_(Abstract!vars)
  BY Step
<1> QED BY <1>1, <1>2, Invariant, PTL DEF Spec, ImplementsList, Abstract!Spec

(* Every pointer is NULL or points to an allocated element. *)
THEOREM TypesStay == Spec => []TypeOK
<1>1. ASSUME IInv PROVE TypeOK
  <2>1. PICK s, n, j : Represents(s, n, j)
    BY <1>1 DEF IInv
  <2> DEFINE Ptrs == DOMAIN heap \cup {NULL}
  <2>2. {first, last, active} \subseteq Ptrs /\ DOMAIN heap \subseteq Cells
    BY <2>1, Ends
  <2>3. ASSUME NEW c \in DOMAIN heap
        PROVE  heap[c] \in [token : TokenValues, prev : Ptrs, next : Ptrs]
    <3>1. heap[c] \in Elements
      BY <2>1, Ends
    <3>2. PICK i \in 1..n : c = s[i]
      BY <2>1 DEF Represents, Chain
    <3>3. heap[c].next \in Ptrs /\ heap[c].prev \in Ptrs
      BY <2>1, <3>2, Ends
    <3> QED BY <3>1, <3>3 DEF Elements
  <2> QED BY <1>1, <2>2, <2>3 DEF TypeOK, IInv
<1> QED BY <1>1, Invariant, PTL

(* The two chains mirror each other and visit every element exactly once. *)
THEOREM StaysWellLinked == Spec => []WellLinked
<1>1. ASSUME IInv PROVE WellLinked
  <2>1. PICK s, n, j : Represents(s, n, j)
    BY <1>1 DEF IInv
  <2>2. /\ Walk(heap, first, "next") = s
        /\ Walk(heap, last, "prev") = [i \in 1..n |-> s[n - i + 1]]
        /\ Cardinality(DOMAIN heap) = n
    BY <2>1, ChainWalks, ChainIsFinite DEF Represents
  <2>3. n \in Nat /\ s \in [1..n -> Cells] /\ DOMAIN heap = {s[i] : i \in 1..n}
    BY <2>1 DEF Represents, Chain
  <2>4. Len(s) = n /\ DOMAIN s = 1..n
    BY <2>3
  <2>5. Reverse(s) = [i \in 1..n |-> s[n - i + 1]]
    BY <2>3, <2>4 DEF Reverse
  <2>6. ToSet(s) = DOMAIN heap
    BY <2>3, <2>4 DEF ToSet
  <2> QED BY <2>2, <2>4, <2>5, <2>6 DEF WellLinked
<1> QED BY <1>1, Invariant, PTL
=============================================================================

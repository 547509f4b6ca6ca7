---------------------------- MODULE SymTab_proofs ----------------------------
(***************************************************************************)
(* The proofs about the symbol table, for any names, functions, types,     *)
(* buckets and bounds.  TypeOK and TablesWellFormed are inductive together *)
(* (IInv): a chain holds each key once, so that what a lookup finds is the *)
(* only entry with its key, and changing or adding an entry is changing or *)
(* adding an element of a set.  That is how the tables implement Scopes.   *)
(***************************************************************************)
EXTENDS SymTab, NaturalFacts, SequenceTheorems, TLAPS

-----------------------------------------------------------------------------
(* Hash tables.                                                              *)

Keys == Names \cup FuncNames

(* The empty table. *)
LEMMA EmptyTable ==
    ASSUME NEW D
    PROVE  htab_init \in Tables(D) /\ WellFormed(htab_init) /\ Entries(htab_init) = {}
BY DEF htab_init, Tables, WellFormed, Entries

(* What find returns: in a well formed table, the only entry with the key. *)
LEMMA Found ==
    ASSUME NEW D, NEW table \in Tables(D), WellFormed(table), NEW key \in Keys, InTable(table, key)
    PROVE  LET chain == table.item_arr[Hash[key]]
               i == First(Positions(chain, key))
           IN /\ i \in DOMAIN chain /\ chain[i].key = key
              /\ Find(table, key) = chain[i]
              /\ Find(table, key) \in D \cap Entries(table)
<1> DEFINE chain == table.item_arr[Hash[key]]
           i == First(Positions(chain, key))
<1>1. Hash[key] \in Buckets /\ chain \in Seq(D)
  BY HashAssumption DEF Keys, Tables
<1>2. PICK p \in DOMAIN chain : chain[p].key = key
  BY DEF InTable, Positions
<1>3. Positions(chain, key) = {p}
  BY <1>1, <1>2 DEF WellFormed, Positions
<1>4. i = p
  BY <1>1, <1>2, <1>3 DEF First
<1>5. Find(table, key) = chain[i]
  BY DEF Find
<1>6. chain[p] \in D /\ chain[p] \in Entries(table)
  BY <1>1, <1>2 DEF Entries
<1> QED BY <1>2, <1>4, <1>5, <1>6

LEMMA EntriesAreData ==
    ASSUME NEW D, NEW table \in Tables(D)
    PROVE  Entries(table) \subseteq D
<1> SUFFICES ASSUME NEW b \in Buckets, NEW i \in DOMAIN table.item_arr[b]
             PROVE  table.item_arr[b][i] \in D
  BY DEF Entries
<1>1. table.item_arr[b] \in Seq(D)
  BY DEF Tables
<1> QED BY <1>1

(* A key is in the table when it is the key of an entry. *)
LEMMA InTableEntries ==
    ASSUME NEW table, WellFormed(table), NEW key \in Keys
    PROVE  InTable(table, key) <=> \E e \in Entries(table) : e.key = key
<1>1. Hash[key] \in Buckets
  BY HashAssumption DEF Keys
<1>2. ASSUME NEW p \in DOMAIN table.item_arr[Hash[key]], table.item_arr[Hash[key]][p].key = key
      PROVE  \E e \in Entries(table) : e.key = key
  BY <1>1, <1>2 DEF Entries
<1>3. ASSUME NEW e \in Entries(table), e.key = key
      PROVE  Positions(table.item_arr[Hash[key]], key) # {}
  <2>1. PICK b, p : b \in Buckets /\ p \in DOMAIN table.item_arr[b] /\ e = table.item_arr[b][p]
    BY DEF Entries
  <2>2. b = Hash[key]
    BY <1>3, <2>1 DEF WellFormed
  <2> QED BY <1>3, <2>1, <2>2 DEF Positions
<1> QED BY <1>2, <1>3 DEF InTable, Positions

(* A new entry. *)
LEMMA AddedTable ==
    ASSUME NEW D, NEW table \in Tables(D), WellFormed(table),
           NEW data \in D, data.key \in Keys, ~InTable(table, data.key)
    PROVE  /\ Added(table, data) \in Tables(D)
           /\ WellFormed(Added(table, data))
           /\ Entries(Added(table, data)) = Entries(table) \cup {data}
<1> DEFINE h == Hash[data.key]
           chain == table.item_arr[h]
           longer == Append(chain, data)
           new == Added(table, data)
<1>1. /\ h \in Buckets /\ \A b \in Buckets : table.item_arr[b] \in Seq(D)
      /\ table.item_arr \in [Buckets -> Seq(D)] /\ table.size \in Nat
  BY HashAssumption DEF Keys, Tables
<1>2. new.item_arr = [table.item_arr EXCEPT ![h] = longer] /\ new.size = table.size + 1
  BY DEF Added
<1>3. /\ longer \in Seq(D) /\ DOMAIN longer = 1..(Len(chain) + 1)
      /\ DOMAIN chain = 1..Len(chain) /\ Len(chain) \in Nat
      /\ \A i \in 1..Len(chain) : longer[i] = chain[i]
      /\ longer[Len(chain) + 1] = data
  BY <1>1
<1> HIDE DEF longer
<1>4. \A b \in Buckets : new.item_arr[b] = IF b = h THEN longer ELSE table.item_arr[b]
  BY <1>1, <1>2
<1>5. new \in Tables(D)
  <2>1. [table.item_arr EXCEPT ![h] = longer] \in [Buckets -> Seq(D)]
    BY <1>1, <1>3
  <2>2. new = [item_arr |-> [table.item_arr EXCEPT ![h] = longer], size |-> table.size + 1]
    BY DEF Added, longer
  <2> QED BY <1>1, <2>1, <2>2 DEF Tables
<1>6. \A i \in DOMAIN chain : chain[i].key # data.key
  BY DEF InTable, Positions
<1> HIDE DEF new, chain, h
<1>7. WellFormed(new)
  <2> SUFFICES ASSUME NEW b \in Buckets
               PROVE  /\ \A i \in DOMAIN new.item_arr[b] : Hash[new.item_arr[b][i].key] = b
                      /\ \A i, j \in DOMAIN new.item_arr[b] :
                            new.item_arr[b][i].key = new.item_arr[b][j].key => i = j
    BY DEF WellFormed
  <2>1. CASE b # h
    BY <1>4, <2>1 DEF WellFormed
  <2>2. CASE b = h
    <3>1. /\ \A i \in DOMAIN chain : Hash[chain[i].key] = h
          /\ \A i, j \in DOMAIN chain : chain[i].key = chain[j].key => i = j
      BY <1>1 DEF WellFormed, chain
    <3>2. Hash[data.key] = h
      BY DEF h
    <3>3. new.item_arr[b] = longer
      BY <1>4, <2>2
    <3> QED BY <1>3, <1>6, <2>2, <3>1, <3>2, <3>3
  <2> QED BY <2>1, <2>2
<1>8. Entries(new) = Entries(table) \cup {data}
  <2>1. ASSUME NEW e \in Entries(new) PROVE e \in Entries(table) \cup {data}
    <3>1. PICK b, i : b \in Buckets /\ i \in DOMAIN new.item_arr[b] /\ e = new.item_arr[b][i]
      BY DEF Entries
    <3>2. CASE b # h
      BY <1>4, <3>1, <3>2 DEF Entries
    <3>3. CASE b = h
      <4>1. CASE i \in 1..Len(chain)
        BY <1>1, <1>3, <1>4, <3>1, <3>3, <4>1 DEF Entries, chain
      <4>2. CASE i = Len(chain) + 1
        BY <1>3, <1>4, <3>1, <3>3, <4>2
      <4> QED BY <1>3, <1>4, <3>1, <3>3, <4>1, <4>2
    <3> QED BY <3>2, <3>3
  <2>2. ASSUME NEW e \in Entries(table) PROVE e \in Entries(new)
    <3>1. PICK b, i : b \in Buckets /\ i \in DOMAIN table.item_arr[b] /\ e = table.item_arr[b][i]
      BY DEF Entries
    <3>2. i \in DOMAIN new.item_arr[b] /\ e = new.item_arr[b][i]
      BY <1>3, <1>4, <3>1 DEF chain
    <3> QED BY <3>1, <3>2 DEF Entries
  <2>3. data \in Entries(new)
    <3>1. Len(chain) + 1 \in DOMAIN new.item_arr[h] /\ data = new.item_arr[h][Len(chain) + 1]
      BY <1>1, <1>3, <1>4
    <3> QED BY <1>1, <3>1 DEF Entries
  <2> QED BY <2>1, <2>2, <2>3
<1> QED BY <1>5, <1>7, <1>8 DEF new

(* An entry that is changed and keeps its key. *)
LEMMA UpdatedTable ==
    ASSUME NEW D, NEW table \in Tables(D), WellFormed(table),
           NEW key \in Keys, InTable(table, key), NEW data \in D, data.key = key
    PROVE  /\ Updated(table, key, data) \in Tables(D)
           /\ WellFormed(Updated(table, key, data))
           /\ Entries(Updated(table, key, data)) = (Entries(table) \ {Find(table, key)}) \cup {data}
<1> DEFINE h == Hash[key]
           chain == table.item_arr[h]
           p == First(Positions(chain, key))
           new == Updated(table, key, data)
           changed == [chain EXCEPT ![p] = data]
<1>1. /\ h \in Buckets /\ chain \in Seq(D)
      /\ table.item_arr \in [Buckets -> Seq(D)] /\ table.size \in Nat
  BY HashAssumption DEF Keys, Tables
<1>2. p \in DOMAIN chain /\ chain[p].key = key /\ Find(table, key) = chain[p]
  BY Found
<1>3. new = [table EXCEPT !.item_arr = [table.item_arr EXCEPT ![h] = changed]]
  BY DEF Updated
<1> HIDE DEF p
<1>4. /\ changed \in Seq(D) /\ DOMAIN changed = DOMAIN chain
      /\ \A i \in DOMAIN chain : changed[i] = IF i = p THEN data ELSE chain[i]
  BY <1>1, <1>2, ExceptSeq
<1> HIDE DEF changed
<1>5. new \in Tables(D)
  <2>1. [table.item_arr EXCEPT ![h] = changed] \in [Buckets -> Seq(D)]
    BY <1>1, <1>4
  <2> QED BY <1>3, <2>1 DEF Tables
<1>6. \A b \in Buckets : new.item_arr[b] = IF b = h THEN changed ELSE table.item_arr[b]
  BY <1>1, <1>3, <1>4 DEF Tables
<1>7. \A b \in Buckets : /\ DOMAIN new.item_arr[b] = DOMAIN table.item_arr[b]
                         /\ \A i \in DOMAIN table.item_arr[b] :
                               new.item_arr[b][i] = IF b = h /\ i = p THEN data ELSE table.item_arr[b][i]
  BY <1>4, <1>6
<1> HIDE DEF new
<1>8. WellFormed(new)
  <2>1. \A b \in Buckets : \A i \in DOMAIN table.item_arr[b] :
          new.item_arr[b][i].key = table.item_arr[b][i].key
    BY <1>2, <1>7
  <2> QED BY <1>7, <2>1 DEF WellFormed
<1>9. \A b \in Buckets : \A i \in DOMAIN table.item_arr[b] :
          table.item_arr[b][i] = chain[p] => b = h /\ i = p
  BY <1>1, <1>2 DEF WellFormed
<1> HIDE DEF chain, h
<1>10. Entries(new) = (Entries(table) \ {chain[p]}) \cup {data}
  <2>1. ASSUME NEW e \in Entries(new) PROVE e \in (Entries(table) \ {chain[p]}) \cup {data}
    <3>1. PICK b, i : b \in Buckets /\ i \in DOMAIN new.item_arr[b] /\ e = new.item_arr[b][i]
      BY DEF Entries
    <3>2. CASE b = h /\ i = p
      BY <1>7, <3>1, <3>2
    <3>3. CASE ~(b = h /\ i = p)
      BY <1>7, <1>9, <3>1, <3>3 DEF Entries
    <3> QED BY <3>2, <3>3
  <2>2. ASSUME NEW e \in Entries(table), e # chain[p] PROVE e \in Entries(new)
    <3>1. PICK b, i : b \in Buckets /\ i \in DOMAIN table.item_arr[b] /\ e = table.item_arr[b][i]
      BY DEF Entries
    <3>2. ~(b = h /\ i = p)
      BY <2>2, <3>1 DEF chain
    <3> QED BY <1>7, <3>1, <3>2 DEF Entries
  <2>3. data \in Entries(new)
    <3>1. p \in DOMAIN new.item_arr[h] /\ new.item_arr[h][p] = data
      BY <1>1, <1>2, <1>7 DEF chain
    <3> QED BY <1>1, <3>1 DEF Entries
  <2> QED BY <2>1, <2>2, <2>3
<1> QED BY <1>2, <1>5, <1>8, <1>10 DEF new

-----------------------------------------------------------------------------
(* The invariant: types and well formed tables carry each other, since what  *)
(* an entry that find returns is, and where a new one goes, depend on both.  *)

Tidy(D, table) == table \in Tables(D) /\ WellFormed(table)

IInv == TypeOK /\ TablesWellFormed

(* The invariant in parts. *)
LEMMA Parts ==
    IInv <=> /\ alive \in BOOLEAN /\ uid_value \in 0..MaxUid /\ ret \in {-1, 0, 1}
             /\ blocks \in Seq(Tables(VarData)) /\ \A i \in DOMAIN blocks : Tidy(VarData, blocks[i])
             /\ Tidy(FuncData, func_ht)
<1>1. ASSUME blocks \in Seq(Tables(VarData)) PROVE \A i \in DOMAIN blocks : blocks[i] \in Tables(VarData)
  BY <1>1
<1> QED BY <1>1 DEF IInv, TypeOK, TablesWellFormed, Tidy

LEMMA PartsNext ==
    IInv' <=> /\ alive' \in BOOLEAN /\ uid_value' \in 0..MaxUid /\ ret' \in {-1, 0, 1}
              /\ blocks' \in Seq(Tables(VarData)) /\ \A i \in DOMAIN blocks' : Tidy(VarData, blocks'[i])
              /\ Tidy(FuncData, func_ht')
<1>1. ASSUME blocks' \in Seq(Tables(VarData)) PROVE \A i \in DOMAIN blocks' : blocks'[i] \in Tables(VarData)
  BY <1>1
<1> QED BY <1>1 DEF IInv, TypeOK, TablesWellFormed, Tidy

(* With a new item a list of parameters stays one.                           *)
LEMMA Inserted ==
    ASSUME NEW ll \in LLs, NEW type \in Types, NEW pname \in ParamNames \cup {NULL}
    PROVE  LL_insert(ll, type, pname) \in LLs
<1> DEFINE Item == [datatype : Types, name : ParamNames \cup {NULL}]
           n == Len(ll.items)
           item == [datatype |-> type, name |-> pname]
           new == LL_insert(ll, type, pname)
<1>1. ll.items \in Seq(Item) /\ ll.lenght \in Nat /\ item \in Item /\ n \in Nat
  BY DEF LLs
<1> HIDE DEF Item, item
<1>2. CASE n < 3
  <2>1. new = [items |-> Append(ll.items, item), lenght |-> ll.lenght + 1]
    BY <1>2 DEF LL_insert, item
  <2>2. Append(ll.items, item) \in Seq(Item) /\ ll.lenght + 1 \in Nat
    BY <1>1, <2>1
  <2> QED BY <2>1, <2>2 DEF LLs, Item
<1>3. CASE ~(n < 3)
  <2>1. new = [items |-> <<ll.items[1], ll.items[n], item>>, lenght |-> ll.lenght + 1]
    BY <1>3 DEF LL_insert, item
  <2>2. ll.items[1] \in Item /\ ll.items[n] \in Item
    BY <1>1, <1>3
  <2> QED BY <1>1, <2>1, <2>2 DEF LLs, Item
<1> QED BY <1>2, <1>3

LEMMA InitTidy == Init => IInv
<1> SUFFICES ASSUME Init PROVE IInv
  OBVIOUS
<1>1. Tidy(FuncData, htab_init)
  BY EmptyTable DEF Tidy
<1> QED BY <1>1, Parts, BoundsAssumption DEF Init

LEMMA StartBlock == ASSUME IInv, start_block PROVE IInv'
<1>1. Tidy(VarData, htab_init)
  BY EmptyTable DEF Tidy
<1>2. blocks' = Append(blocks, htab_init) \/ UNCHANGED blocks
  BY DEF start_block
<1>3. blocks' \in Seq(Tables(VarData)) /\ \A i \in DOMAIN blocks' : Tidy(VarData, blocks'[i])
  BY <1>1, <1>2, Parts DEF Tidy
<1> QED BY <1>3, Parts, PartsNext DEF start_block

LEMMA EndBlock == ASSUME IInv, end_block PROVE IInv'
<1>1. (blocks # <<>> /\ blocks' = SubSeq(blocks, 1, Len(blocks) - 1)) \/ UNCHANGED blocks
  BY Parts DEF end_block
<1>2. blocks' \in Seq(Tables(VarData)) /\ \A i \in DOMAIN blocks' : Tidy(VarData, blocks'[i])
  BY <1>1, Parts, SubSeqProperties DEF Tidy
<1> QED BY <1>2, Parts, PartsNext DEF end_block

(* A generated uid is one of Uids. *)
LEMMA GeneratedUid ==
    ASSUME IInv, NEW n \in Names
    PROVE  generate_uid(n) \in Uids
<1> DEFINE e == <<n, uid_value>>
<1>1. generate_uid(n) = Uid(n, uid_value)
  BY DEF generate_uid, Uid
<1>2. e \in Names \X (0..MaxUid) /\ e[1] = n /\ e[2] = uid_value
  BY Parts
<1>3. Uid(e[1], e[2]) = generate_uid(n)
  BY <1>1, <1>2, Zenon
<1>4. Uid(e[1], e[2]) \in Uids
  BY <1>2 DEF Uids
<1> QED BY <1>3, <1>4

LEMMA DefineVar ==
    ASSUME IInv, NEW n \in Names, NEW t \in Types, define_var(n, t)
    PROVE  IInv'
<1> DEFINE top == blocks[Len(blocks)]
           data == [key |-> n, type |-> t, uid |-> generate_uid(n)]
<1>1. CASE UNCHANGED <<blocks, uid_value>>
  BY <1>1, Parts, PartsNext DEF define_var
<1>2. CASE ~UNCHANGED <<blocks, uid_value>>
  <2>1. /\ blocks # <<>> /\ ~InTable(top, n) /\ uid_value < MaxUid
        /\ blocks' = [blocks EXCEPT ![Len(blocks)] = Added(top, data)]
        /\ uid_value' = uid_value + 1
    BY <1>2 DEF define_var
  <2>2. Len(blocks) \in DOMAIN blocks /\ Tidy(VarData, top)
    BY <2>1, Parts
  <2>3. data \in VarData /\ data.key = n /\ n \in Keys
    BY GeneratedUid DEF VarData, Keys
  <2> HIDE DEF data
  <2>4. Tidy(VarData, Added(top, data))
    BY <2>1, <2>2, <2>3, AddedTable DEF Tidy
  <2>5. blocks' \in Seq(Tables(VarData))
    BY <2>1, <2>2, <2>4, Parts, ExceptSeq DEF Tidy
  <2>6. \A i \in DOMAIN blocks' : Tidy(VarData, blocks'[i])
    BY <2>1, <2>2, <2>4, Parts
  <2> QED BY <2>1, <2>5, <2>6, Parts, PartsNext, BoundsAssumption DEF define_var
<1> QED BY <1>1, <1>2

LEMMA DeclareFunction ==
    ASSUME IInv, NEW f \in FuncNames, declare_function(f)
    PROVE  IInv'
<1> DEFINE data == [key |-> f, is_defined |-> FALSE, params |-> LL_create, returns |-> LL_create]
<1>1. data \in FuncData /\ data.key = f /\ f \in Keys
  BY DEF FuncData, LLs, LL_create, Keys
<1>2. UNCHANGED func_ht \/ (~InTable(func_ht, f) /\ func_ht' = Added(func_ht, data))
  BY DEF declare_function
<1> HIDE DEF data
<1>3. Tidy(FuncData, func_ht')
  BY <1>1, <1>2, Parts, AddedTable DEF Tidy
<1> QED BY <1>3, Parts, PartsNext DEF declare_function

(* The functions that are declared are FuncData. *)
LEMMA FoundFunction ==
    ASSUME IInv, NEW f \in FuncNames, InTable(func_ht, f)
    PROVE  Find(func_ht, f) \in FuncData /\ Find(func_ht, f).key = f
BY Parts, Found DEF Tidy, Keys

LEMMA DefineFunction ==
    ASSUME IInv, NEW f \in FuncNames, define_function(f)
    PROVE  IInv'
<1> DEFINE data == [Find(func_ht, f) EXCEPT !.is_defined = TRUE]
<1>1. InTable(func_ht, f) => data \in FuncData /\ data.key = f
  BY FoundFunction DEF FuncData
<1>2. UNCHANGED func_ht \/ (InTable(func_ht, f) /\ func_ht' = Updated(func_ht, f, data))
  BY DEF define_function
<1> HIDE DEF data
<1>3. Tidy(FuncData, func_ht')
  BY <1>1, <1>2, Parts, UpdatedTable DEF Tidy, Keys
<1> QED BY <1>3, Parts, PartsNext DEF define_function

LEMMA InsertParamData ==
    ASSUME IInv, NEW f \in FuncNames, NEW t \in Types, NEW pname \in ParamNames \cup {NULL},
           InTable(func_ht, f)
    PROVE  LET data == [Find(func_ht, f) EXCEPT !.params = LL_insert(@, t, pname)]
           IN data \in FuncData /\ data.key = f
<1>1. Find(func_ht, f).params \in LLs
  BY FoundFunction DEF FuncData
<1>2. LL_insert(Find(func_ht, f).params, t, pname) \in LLs
  BY <1>1, Inserted
<1> QED BY <1>2, FoundFunction DEF FuncData

LEMMA InsertsParam ==
    ASSUME IInv, NEW f \in FuncNames, NEW t \in Types, NEW pname \in ParamNames \cup {NULL},
           InsertParam(f, t, pname)
    PROVE  IInv'
<1> DEFINE data == [Find(func_ht, f) EXCEPT !.params = LL_insert(@, t, pname)]
<1>1. InTable(func_ht, f) => data \in FuncData /\ data.key = f
  BY InsertParamData
<1>2. UNCHANGED func_ht \/ (InTable(func_ht, f) /\ func_ht' = Updated(func_ht, f, data))
  BY DEF InsertParam
<1> HIDE DEF data
<1>3. Tidy(FuncData, func_ht')
  BY <1>1, <1>2, Parts, UpdatedTable DEF Tidy, Keys
<1> QED BY <1>3, Parts, PartsNext DEF InsertParam

LEMMA Destroy == ASSUME IInv, symtab_destroy PROVE IInv'
<1>1. Tidy(FuncData, htab_init)
  BY EmptyTable DEF Tidy
<1>2. blocks' \in Seq(Tables(VarData)) /\ \A i \in DOMAIN blocks' : Tidy(VarData, blocks'[i])
  BY DEF symtab_destroy
<1> QED BY <1>1, <1>2, Parts, PartsNext DEF symtab_destroy

LEMMA Stutter == ASSUME IInv, UNCHANGED vars PROVE IInv'
BY Parts, PartsNext DEF vars

LEMMA Invariant == Spec => []IInv
<1>1. Init => IInv
  BY InitTidy
<1>2. IInv /\ [Next]_vars => IInv'
  <2> SUFFICES ASSUME IInv, [Next]_vars PROVE IInv'
    OBVIOUS
  <2>1. CASE start_block
    BY <2>1, StartBlock
  <2>2. CASE end_block
    BY <2>2, EndBlock
  <2>3. CASE symtab_destroy
    BY <2>3, Destroy
  <2>4. ASSUME NEW n \in Names, NEW t \in Types, define_var(n, t) PROVE IInv'
    BY <2>4, DefineVar
  <2>5. ASSUME NEW f \in FuncNames, declare_function(f) \/ define_function(f) PROVE IInv'
    BY <2>5, DeclareFunction, DefineFunction
  <2>6. ASSUME NEW f \in FuncNames, NEW t \in Types, set_return_type(f, t) PROVE IInv'
    BY <2>6, InsertsParam DEF set_return_type
  <2>7. ASSUME NEW f \in FuncNames, NEW t \in Types, NEW p \in ParamNames, set_param(f, t, p) PROVE IInv'
    BY <2>7, InsertsParam DEF set_param
  <2>8. CASE UNCHANGED vars
    BY <2>8, Stutter
  <2> QED BY <2>1, <2>2, <2>3, <2>4, <2>5, <2>6, <2>7, <2>8 DEF Next
<1> QED BY <1>1, <1>2, PTL DEF Spec

(* Every variable keeps its type. *)
THEOREM TypesStay == Spec => []TypeOK
BY Invariant, PTL DEF IInv

(* In every table each entry lies in the chain of its key, and no key lies   *)
(* in two places.                                                            *)
THEOREM TablesStayWellFormed == Spec => []TablesWellFormed
BY Invariant, PTL DEF IInv

-----------------------------------------------------------------------------
(* Lookups.                                                                  *)

(* The walk from the top block downwards stops at the innermost block with   *)
(* the name, or below the last one.  The recursive function of Layer exists  *)
(* (the explicit g satisfies its equation), so it satisfies its equation.    *)
LEMMA LayerIsInnermost ==
    ASSUME NEW T, blocks \in Seq(T), NEW n
    PROVE  /\ Layer(n) \in 0..Len(blocks)
           /\ Layer(n) # 0 => InTable(blocks[Layer(n)], n)
           /\ \A j \in 1..Len(blocks) : j > Layer(n) => ~InTable(blocks[j], n)
<1> DEFINE L == Len(blocks)
           In(j) == InTable(blocks[j], n)
           Last(i, k) == /\ k \in 0..i /\ (k # 0 => In(k))
                         /\ \A j \in 1..i : j > k => ~In(j)
           Eq(h) == h = [i \in 0..L |-> IF i = 0 \/ (i > 0 /\ In(i)) THEN i ELSE h[i - 1]]
           f == CHOOSE h : Eq(h)
           g == [i \in 0..L |-> CHOOSE k \in 0..i : Last(i, k)]
<1>1. L \in Nat
  OBVIOUS
<1>2. Layer(n) = f[L]
  BY DEF Layer
<1> HIDE DEF In, L, f
<1>3. \A i \in 0..L : \E k \in 0..i : Last(i, k)
  <2> DEFINE S == {i \in 0..L : \E k \in 0..i : Last(i, k)}
  <2>1. 0 \in S
    BY <1>1
  <2>2. \A i \in 0..(L - 1) : i \in S => i + 1 \in S
    <3> SUFFICES ASSUME NEW i \in 0..(L - 1), NEW k \in 0..i, Last(i, k)
                 PROVE  \E m \in 0..(i + 1) : Last(i + 1, m)
      BY <1>1
    <3>1. CASE In(i + 1)
      BY <1>1, <3>1
    <3>2. CASE ~In(i + 1)
      <4>1. Last(i + 1, k)
        BY <1>1, <3>2
      <4> QED BY <4>1
    <3> QED BY <3>1, <3>2
  <2> HIDE DEF S
  <2>3. 0..L \subseteq S
    BY <1>1, <2>1, <2>2, UpTo
  <2> QED BY <2>3 DEF S
<1>4. \A i \in 0..L : Last(i, g[i])
  BY <1>3
<1>5. Eq(g)
  <2> SUFFICES ASSUME NEW i \in 0..L
               PROVE  g[i] = IF i = 0 \/ (i > 0 /\ In(i)) THEN i ELSE g[i - 1]
    BY <1>1
  <2>1. CASE i = 0
    BY <1>4, <2>1
  <2>2. CASE i > 0 /\ In(i)
    BY <1>1, <1>4, <2>2
  <2>3. CASE i > 0 /\ ~In(i)
    <3> HIDE DEF g
    <3>1. i - 1 \in 0..L
      BY <1>1, <2>3
    <3>2. Last(i - 1, g[i - 1]) /\ Last(i, g[i])
      BY <1>4, <3>1
    <3> QED BY <1>1, <2>3, <3>1, <3>2
  <2> QED BY <1>1, <2>1, <2>2, <2>3
<1>6. Eq(f)
  BY <1>5 DEF f
<1>7. Last(L, f[L])
  <2> DEFINE S == {i \in 0..L : Last(i, f[i])}
  <2> HIDE DEF g
  <2>0. \A i \in 0..L : f[i] = IF i = 0 \/ (i > 0 /\ In(i)) THEN i ELSE f[i - 1]
    BY <1>6
  <2>1. 0 \in S
    BY <1>1, <2>0
  <2>2. \A i \in 0..(L - 1) : i \in S => i + 1 \in S
    <3> SUFFICES ASSUME NEW i \in 0..(L - 1), Last(i, f[i]) PROVE Last(i + 1, f[i + 1])
      BY <1>1
    <3>1. f[i + 1] = IF In(i + 1) THEN i + 1 ELSE f[i]
      BY <1>1, <2>0
    <3> QED BY <1>1, <3>1
  <2> HIDE DEF S
  <2>3. 0..L \subseteq S
    BY <1>1, <2>1, <2>2, UpTo
  <2> QED BY <1>1, <2>3 DEF S
<1> QED BY <1>2, <1>7 DEF In, L

(* A scope has the names its table has, with the types that find returns.    *)
LEMMA ScopeHas ==
    ASSUME NEW table, Tidy(VarData, table), NEW n \in Names
    PROVE  /\ Abstract!Has(Scope(table), n) <=> InTable(table, n)
           /\ InTable(table, n) => <<n, Find(table, n).type>> \in Scope(table)
<1>1. table \in Tables(VarData) /\ WellFormed(table) /\ n \in Keys
  BY DEF Tidy, Keys
<1>2. Entries(table) \subseteq VarData
  BY <1>1, EntriesAreData
<1>3. Abstract!Has(Scope(table), n) <=> \E e \in Entries(table) : e.key = n
  <2>1. \A e \in Entries(table) : e.type \in Types
    BY <1>2 DEF VarData
  <2>2. \A t : <<n, t>> \in Scope(table) <=> \E e \in Entries(table) : e.key = n /\ e.type = t
    BY DEF Scope
  <2> QED BY <2>1, <2>2 DEF Abstract!Has
<1>4. Abstract!Has(Scope(table), n) <=> InTable(table, n)
  BY <1>1, <1>3, InTableEntries
<1>5. ASSUME InTable(table, n) PROVE <<n, Find(table, n).type>> \in Scope(table)
  <2>1. Find(table, n) \in Entries(table) /\ Find(table, n).key = n
    BY <1>1, <1>5, Found
  <2> QED BY <2>1 DEF Scope
<1> QED BY <1>4, <1>5

(* A lookup returns the innermost definition, or -1 when no open block       *)
(* defines the name.                                                         *)
THEOREM LookupsAreInnermost == Spec => []LookupIsInnermost
<1>1. IInv => LookupIsInnermost
  <2> SUFFICES ASSUME IInv, NEW n \in Names
               PROVE  LET in == {i \in DOMAIN blocks : Abstract!Has(scopes[i], n)} IN
                      IF in = {} THEN get_var_datatype(n) = -1 /\ get_var_uid(n) = NULL
                      ELSE LET i == CHOOSE i \in in : \A j \in in : j <= i
                           IN <<n, get_var_datatype(n)>> \in scopes[i]
    BY DEF LookupIsInnermost
  <2> DEFINE in == {i \in DOMAIN blocks : Abstract!Has(scopes[i], n)}
             k == Layer(n)
             m == CHOOSE i \in in : \A j \in in : j <= i
  <2>1. blocks \in Seq(Tables(VarData)) /\ \A i \in DOMAIN blocks : Tidy(VarData, blocks[i])
    BY Parts
  <2>2. /\ k \in 0..Len(blocks)
        /\ k # 0 => InTable(blocks[k], n)
        /\ \A j \in 1..Len(blocks) : j > k => ~InTable(blocks[j], n)
    BY <2>1, LayerIsInnermost
  <2>3. \A i \in DOMAIN blocks : scopes[i] = Scope(blocks[i])
    BY DEF scopes
  <2>4. in = {i \in 1..Len(blocks) : InTable(blocks[i], n)}
    <3>1. \A i \in DOMAIN blocks : Abstract!Has(scopes[i], n) <=> InTable(blocks[i], n)
      BY <2>1, <2>3, ScopeHas
    <3>2. DOMAIN blocks = 1..Len(blocks)
      BY <2>1
    <3> QED BY <3>1, <3>2
  <2> HIDE DEF in, k
  <2>5. CASE k = 0
    <3>1. in = {}
      BY <2>2, <2>4, <2>5
    <3>2. get_var_datatype(n) = -1 /\ get_var_uid(n) = NULL
      BY <2>5 DEF get_var_datatype, get_var_uid, k
    <3> QED BY <3>1, <3>2 DEF in
  <2>6. CASE k # 0
    <3>1. k \in in /\ \A j \in in : j <= k
      BY <2>2, <2>4, <2>6
    <3>2. m = k
      <4>1. in \in SUBSET Int
        BY <2>4
      <4> QED BY <3>1, <4>1, Greatest
    <3>3. get_var_datatype(n) = Find(blocks[k], n).type
      BY <2>6 DEF get_var_datatype, k
    <3>4. k \in DOMAIN blocks /\ InTable(blocks[k], n)
      BY <2>1, <2>2, <2>6
    <3>5. <<n, get_var_datatype(n)>> \in scopes[k]
      BY <2>1, <2>3, <3>3, <3>4, ScopeHas
    <3> HIDE DEF m
    <3>6. in # {} /\ <<n, get_var_datatype(n)>> \in scopes[m]
      BY <3>1, <3>2, <3>5
    <3> QED BY <3>6 DEF in, m
  <2> QED BY <2>5, <2>6
<1> QED BY <1>1, Invariant, PTL

-----------------------------------------------------------------------------
(* Functions.                                                                *)

(* What an operation on functions does to the table of functions: nothing,   *)
(* a new entry, or another entry for the same key.                           *)
Adds(f, data) ==
    /\ ~InTable(func_ht, f) /\ data \in FuncData /\ data.key = f
    /\ func_ht' = Added(func_ht, data)
Changes(f, data) ==
    /\ InTable(func_ht, f) /\ data \in FuncData /\ data.key = f
    /\ func_ht' = Updated(func_ht, f, data)

LEMMA AddsEntry ==
    ASSUME IInv, NEW f \in FuncNames, NEW data, Adds(f, data)
    PROVE  Entries(func_ht') = Entries(func_ht) \cup {data}
BY Parts, AddedTable DEF Adds, Tidy, Keys

LEMMA ChangesEntry ==
    ASSUME IInv, NEW f \in FuncNames, NEW data, Changes(f, data)
    PROVE  /\ Entries(func_ht') = (Entries(func_ht) \ {Find(func_ht, f)}) \cup {data}
           /\ Find(func_ht, f) \in Entries(func_ht) \cap FuncData
           /\ Find(func_ht, f).key = f
<1>1. func_ht \in Tables(FuncData) /\ WellFormed(func_ht) /\ f \in Keys
  BY Parts DEF Tidy, Keys
<1>2. Entries(func_ht') = (Entries(func_ht) \ {Find(func_ht, f)}) \cup {data}
  BY <1>1, UpdatedTable DEF Changes
<1>3. Find(func_ht, f) \in FuncData \cap Entries(func_ht) /\ Find(func_ht, f).key = f
  BY <1>1, Found DEF Changes
<1> QED BY <1>2, <1>3

LEMMA DeclareFunctionAdds ==
    ASSUME NEW f \in FuncNames, declare_function(f)
    PROVE  \/ UNCHANGED func_ht /\ ret' = -1 /\ InTable(func_ht, f)
           \/ \E data : Adds(f, data) /\ data.is_defined = FALSE /\ ret' = 1
<1> DEFINE data == [key |-> f, is_defined |-> FALSE, params |-> LL_create, returns |-> LL_create]
<1>1. data \in FuncData /\ data.key = f /\ data.is_defined = FALSE
  BY DEF FuncData, LLs, LL_create
<1>2. (UNCHANGED func_ht /\ ret' = -1 /\ InTable(func_ht, f))
      \/ (~InTable(func_ht, f) /\ func_ht' = Added(func_ht, data) /\ ret' = 1)
  BY DEF declare_function
<1> HIDE DEF data
<1> QED BY <1>1, <1>2 DEF Adds

LEMMA DefineFunctionChanges ==
    ASSUME IInv, NEW f \in FuncNames, define_function(f)
    PROVE  \/ UNCHANGED func_ht /\ ret' = 0 /\ ~InTable(func_ht, f)
           \/ \E data : Changes(f, data) /\ data.is_defined = TRUE /\ ret' = 1
<1> DEFINE data == [Find(func_ht, f) EXCEPT !.is_defined = TRUE]
<1>1. InTable(func_ht, f) => data \in FuncData /\ data.key = f /\ data.is_defined = TRUE
  BY FoundFunction DEF FuncData
<1>2. (UNCHANGED func_ht /\ ret' = 0 /\ ~InTable(func_ht, f))
      \/ (InTable(func_ht, f) /\ func_ht' = Updated(func_ht, f, data) /\ ret' = 1)
  BY DEF define_function
<1> HIDE DEF data
<1> QED BY <1>1, <1>2 DEF Changes

LEMMA InsertParamChanges ==
    ASSUME IInv, NEW f \in FuncNames, NEW t \in Types, NEW pname \in ParamNames \cup {NULL},
           InsertParam(f, t, pname)
    PROVE  \/ UNCHANGED func_ht /\ ret' = -1 /\ ~InTable(func_ht, f)
           \/ \E data : /\ Changes(f, data) /\ ret' = 1
                        /\ data = [Find(func_ht, f) EXCEPT !.params = LL_insert(@, t, pname)]
                        /\ data.is_defined = Find(func_ht, f).is_defined
<1> DEFINE data == [Find(func_ht, f) EXCEPT !.params = LL_insert(@, t, pname)]
<1>1. InTable(func_ht, f) => /\ data \in FuncData /\ data.key = f
                             /\ data.is_defined = Find(func_ht, f).is_defined
  <2>1. InTable(func_ht, f) => Find(func_ht, f) \in FuncData
    BY FoundFunction
  <2>2. InTable(func_ht, f) => data.is_defined = Find(func_ht, f).is_defined
    BY <2>1 DEF FuncData
  <2> QED BY <2>2, InsertParamData
<1>2. (UNCHANGED func_ht /\ ret' = -1 /\ ~InTable(func_ht, f))
      \/ (InTable(func_ht, f) /\ func_ht' = Updated(func_ht, f, data) /\ ret' = 1)
  BY DEF InsertParam
<1>3. CASE InTable(func_ht, f) /\ func_ht' = Updated(func_ht, f, data) /\ ret' = 1
  <2>1. Changes(f, data) /\ data.is_defined = Find(func_ht, f).is_defined
    BY <1>1, <1>3 DEF Changes
  <2>2. data = [Find(func_ht, f) EXCEPT !.params = LL_insert(@, t, pname)]
    OBVIOUS
  <2> HIDE DEF data
  <2> QED BY <1>3, <2>1, <2>2
<1> QED BY <1>2, <1>3

(* The sets of declared and of defined functions, in a table. *)
LEMMA FunctionSets ==
    ASSUME NEW table, Tidy(FuncData, table), NEW f \in FuncNames
    PROVE  /\ InTable(table, f) <=> \E e \in Entries(table) : e.key = f
           /\ (InTable(table, f) /\ Find(table, f).is_defined)
                <=> \E e \in Entries(table) : e.key = f /\ e.is_defined
<1>1. table \in Tables(FuncData) /\ WellFormed(table) /\ f \in Keys
  BY DEF Tidy, Keys
<1>2. InTable(table, f) <=> \E e \in Entries(table) : e.key = f
  BY <1>1, InTableEntries
<1>3. \A d, e \in Entries(table) : d.key = e.key => d = e
  BY <1>1 DEF Entries, WellFormed
<1>4. InTable(table, f) => Find(table, f) \in Entries(table) /\ Find(table, f).key = f
  BY <1>1, Found
<1>5. ASSUME NEW e \in Entries(table), e.key = f, e.is_defined
      PROVE  InTable(table, f) /\ Find(table, f).is_defined
  <2>1. InTable(table, f)
    BY <1>2, <1>5
  <2>2. Find(table, f) = e
    BY <1>3, <1>4, <1>5, <2>1
  <2> QED BY <1>5, <2>1, <2>2
<1> QED BY <1>2, <1>4, <1>5

-----------------------------------------------------------------------------
(* The scopes of a stack of tables.                                          *)

ScopesOf(bs) == [i \in DOMAIN bs |-> Scope(bs[i])]

LEMMA ScopesSeq ==
    ASSUME NEW T, NEW bs \in Seq(T)
    PROVE  /\ ScopesOf(bs) \in Seq({Scope(t) : t \in T})
           /\ Len(ScopesOf(bs)) = Len(bs)
           /\ DOMAIN ScopesOf(bs) = 1..Len(bs) /\ DOMAIN bs = 1..Len(bs)
           /\ \A i \in 1..Len(bs) : ScopesOf(bs)[i] = Scope(bs[i])
<1> DEFINE s == ScopesOf(bs)
           U == {Scope(t) : t \in T}
<1>1. DOMAIN bs = 1..Len(bs) /\ Len(bs) \in Nat /\ \A i \in 1..Len(bs) : bs[i] \in T
  OBVIOUS
<1>2. s = [i \in 1..Len(bs) |-> Scope(bs[i])]
  BY <1>1 DEF ScopesOf
<1>3. \A i \in 1..Len(bs) : Scope(bs[i]) \in U
  BY <1>1
<1> HIDE DEF U
<1>4. s \in [1..Len(bs) -> U]
  BY <1>2, <1>3
<1>5. s \in Seq(U) /\ Len(s) = Len(bs)
  BY <1>1, <1>4, SeqDef
<1> QED BY <1>1, <1>2, <1>5 DEF U

LEMMA ScopesAppend ==
    ASSUME NEW T, NEW bs \in Seq(T), NEW t \in T
    PROVE  ScopesOf(Append(bs, t)) = Append(ScopesOf(bs), Scope(t))
<1> DEFINE longer == Append(bs, t)
           U == {Scope(u) : u \in T}
           a == ScopesOf(bs)
           b == ScopesOf(longer)
           c == Append(a, Scope(t))
<1>1. longer \in Seq(T) /\ Len(longer) = Len(bs) + 1 /\ longer[Len(bs) + 1] = t
      /\ Len(bs) \in Nat /\ \A i \in 1..Len(bs) : longer[i] = bs[i]
  OBVIOUS
<1>2. Scope(t) \in U
  OBVIOUS
<1> HIDE DEF longer
<1>3. b \in Seq(U) /\ Len(b) = Len(bs) + 1 /\ \A i \in 1..(Len(bs) + 1) : b[i] = Scope(longer[i])
  BY <1>1, ScopesSeq
<1>4. a \in Seq(U) /\ Len(a) = Len(bs) /\ \A i \in 1..Len(bs) : a[i] = Scope(bs[i])
  BY ScopesSeq
<1> HIDE DEF U, a, b
<1>5. c \in Seq(U) /\ Len(c) = Len(bs) + 1 /\ c[Len(bs) + 1] = Scope(t)
      /\ \A i \in 1..Len(bs) : c[i] = a[i]
  BY <1>1, <1>2, <1>4
<1> HIDE DEF c
<1>6. \A i \in 1..(Len(bs) + 1) : b[i] = c[i]
  BY <1>1, <1>3, <1>4, <1>5
<1>7. b = c
  BY <1>3, <1>5, <1>6, SeqEqual
<1> QED BY <1>7 DEF a, b, c, longer

LEMMA ScopesButLast ==
    ASSUME NEW T, NEW bs \in Seq(T), bs # <<>>
    PROVE  ScopesOf(SubSeq(bs, 1, Len(bs) - 1)) = SubSeq(ScopesOf(bs), 1, Len(bs) - 1)
<1> DEFINE U == {Scope(u) : u \in T}
           n == Len(bs) - 1
           shorter == SubSeq(bs, 1, n)
           a == ScopesOf(bs)
           b == ScopesOf(shorter)
           c == SubSeq(a, 1, n)
<1>0. n \in Nat /\ Len(bs) = n + 1
  BY EmptySeq
<1>1. shorter \in Seq(T) /\ Len(shorter) = n /\ \A i \in 1..n : shorter[i] = bs[i]
  BY <1>0, SubSeqProperties
<1> HIDE DEF shorter
<1>2. b \in Seq(U) /\ Len(b) = n /\ \A i \in 1..n : b[i] = Scope(bs[i])
  BY <1>1, ScopesSeq
<1> HIDE DEF n
<1>3. a \in Seq(U) /\ Len(a) = n + 1 /\ \A i \in 1..n : a[i] = Scope(bs[i])
  <2>1. a \in Seq(U) /\ Len(a) = Len(bs) /\ \A i \in 1..Len(bs) : a[i] = Scope(bs[i])
    BY ScopesSeq
  <2> HIDE DEF U, a
  <2> QED BY <1>0, <2>1
<1> HIDE DEF U, a, b
<1>4. c \in Seq(U) /\ Len(c) = n /\ \A i \in 1..n : c[i] = a[i]
  BY <1>0, <1>3, SubSeqProperties
<1> HIDE DEF c
<1>5. b = c
  BY <1>0, <1>2, <1>3, <1>4, SeqEqual
<1> QED BY <1>5 DEF a, b, c, shorter, n

LEMMA ScopesTop ==
    ASSUME NEW bs, NEW k \in DOMAIN bs, NEW t
    PROVE  ScopesOf([bs EXCEPT ![k] = t]) = [ScopesOf(bs) EXCEPT ![k] = Scope(t)]
BY DEF ScopesOf

(* A new entry adds a pair to its scope. *)
LEMMA ScopeAdded ==
    ASSUME NEW table, Tidy(VarData, table), NEW data \in VarData, ~InTable(table, data.key)
    PROVE  Scope(Added(table, data)) = Scope(table) \cup {<<data.key, data.type>>}
<1>1. data.key \in Keys
  BY DEF VarData, Keys
<1>2. Entries(Added(table, data)) = Entries(table) \cup {data}
  BY <1>1, AddedTable DEF Tidy
<1> QED BY <1>2 DEF Scope

-----------------------------------------------------------------------------
(* Refinement.                                                               *)

LEMMA InitMaps == Init => Abstract!Init
<1> SUFFICES ASSUME Init PROVE Abstract!Init
  OBVIOUS
<1>1. scopes = <<>>
  BY DEF Init, scopes
<1>2. Entries(func_ht) = {}
  BY EmptyTable DEF Init
<1>3. declared = {} /\ defined = {}
  BY <1>2 DEF declared, defined
<1> QED BY <1>1, <1>3 DEF Init, Abstract!Init

(* The mapping depends on the blocks and the functions alone. *)
LEMMA SameScopes == UNCHANGED blocks => UNCHANGED scopes
BY DEF scopes

LEMMA SameFunctions == UNCHANGED func_ht => UNCHANGED <<declared, defined>>
BY DEF declared, defined

LEMMA ScopesAre == scopes = ScopesOf(blocks) /\ scopes' = ScopesOf(blocks')
BY DEF scopes, ScopesOf

LEMMA StartBlockMaps == ASSUME IInv, start_block PROVE Abstract!StartBlock
<1>1. Scope(htab_init) = {} /\ htab_init \in Tables(VarData)
  <2>1. htab_init \in Tables(VarData) /\ Entries(htab_init) = {}
    BY EmptyTable
  <2> QED BY <2>1 DEF Scope
<1>2. CASE alive
  <2>1. blocks' = Append(blocks, htab_init) /\ ret' = 1
    BY <1>2 DEF start_block
  <2>2. scopes' = Append(scopes, {})
    BY <1>1, <2>1, Parts, ScopesAre, ScopesAppend
  <2> QED BY <1>2, <2>1, <2>2, SameFunctions DEF start_block, Abstract!StartBlock
<1>3. CASE ~alive
  BY <1>3, SameScopes, SameFunctions DEF start_block, Abstract!StartBlock
<1> QED BY <1>2, <1>3

LEMMA EndBlockMaps == ASSUME IInv, end_block PROVE Abstract!EndBlock \/ EndBlockWithoutTable
<1>0. /\ blocks \in Seq(Tables(VarData)) /\ Len(scopes) = Len(blocks)
      /\ blocks # <<>> => scopes # <<>>
  <2>1. blocks \in Seq(Tables(VarData))
    BY Parts
  <2>2. Len(scopes) = Len(blocks)
    BY <2>1, ScopesSeq, ScopesAre
  <2> QED BY <2>1, <2>2
<1>1. CASE alive
  <2>1. blocks # <<>> /\ blocks' = SubSeq(blocks, 1, Len(blocks) - 1) /\ ret' = 1
    BY <1>1 DEF end_block
  <2>2. scopes' = SubSeq(scopes, 1, Len(scopes) - 1)
    BY <1>0, <2>1, ScopesAre, ScopesButLast
  <2> QED BY <1>0, <1>1, <2>1, <2>2, SameFunctions DEF end_block, Abstract!EndBlock
<1>2. CASE ~alive
  BY <1>2, SameScopes, SameFunctions DEF end_block, EndBlockWithoutTable
<1> QED BY <1>1, <1>2

LEMMA DefineVarMaps ==
    ASSUME IInv, NEW n \in Names, NEW t \in Types, define_var(n, t)
    PROVE  Abstract!DefineVar(n, t)
<1> DEFINE k == Len(blocks)
           top == blocks[k]
           data == [key |-> n, type |-> t, uid |-> generate_uid(n)]
<1>1. blocks \in Seq(Tables(VarData)) /\ k \in Nat /\ \A i \in 1..k : Tidy(VarData, blocks[i])
  BY Parts
<1>2. Len(scopes) = k /\ \A i \in 1..k : scopes[i] = Scope(blocks[i])
  BY <1>1, ScopesSeq, ScopesAre
<1>3. blocks = <<>> <=> scopes = <<>>
  <2>1. blocks = <<>> <=> k = 0
    BY <1>1
  <2>2. scopes \in Seq({Scope(u) : u \in Tables(VarData)})
    BY <1>1, ScopesSeq, ScopesAre
  <2> HIDE DEF k
  <2>3. scopes = <<>> <=> k = 0
    BY <1>2, <2>2, EmptySeq
  <2> QED BY <2>1, <2>3
<1>4. UNCHANGED <<alive, declared, defined>>
  BY SameFunctions DEF define_var
<1>5. CASE blocks = <<>> \/ InTable(top, n)
  <2>1. ret' = -1 /\ UNCHANGED scopes
    BY <1>5, SameScopes, EmptySeq DEF define_var
  <2>2. CASE blocks = <<>>
    BY <1>3, <1>4, <2>1, <2>2 DEF Abstract!DefineVar
  <2>3. CASE blocks # <<>>
    <3>1. k \in 1..k
      BY <1>1, <2>3, EmptySeq
    <3>2. Abstract!Has(scopes[k], n)
      BY <1>1, <1>2, <1>5, <2>3, <3>1, ScopeHas
    <3> QED BY <1>2, <1>4, <2>1, <3>2 DEF Abstract!DefineVar, Abstract!Top
  <2> QED BY <2>2, <2>3
<1>6. CASE ~(blocks = <<>> \/ InTable(top, n))
  <2>1. blocks' = [blocks EXCEPT ![k] = Added(top, data)] /\ ret' = 1
    BY <1>6 DEF define_var
  <2>2. k \in 1..k
    BY <1>1, <1>6, EmptySeq
  <2>3. data \in VarData /\ data.key = n /\ data.type = t /\ data.key \in Keys
    BY GeneratedUid DEF VarData, Keys
  <2> HIDE DEF data, k
  <2>4. Tidy(VarData, top)
    BY <1>1, <2>2
  <2>5. Added(top, data) \in Tables(VarData) /\ Scope(Added(top, data)) = Scope(top) \cup {<<n, t>>}
    BY <1>6, <2>3, <2>4, AddedTable, ScopeAdded DEF Tidy
  <2>6. scopes' = [scopes EXCEPT ![k] = Scope(Added(top, data))]
    <3> DEFINE new == Added(top, data)
    <3>1. k \in DOMAIN blocks
      BY <1>1, <2>2 DEF k
    <3>2. blocks' = [blocks EXCEPT ![k] = new] /\ new \in Tables(VarData)
      BY <2>1, <2>5
    <3> HIDE DEF new
    <3>3. ScopesOf([blocks EXCEPT ![k] = new]) = [ScopesOf(blocks) EXCEPT ![k] = Scope(new)]
      BY <3>1, ScopesTop
    <3>4. scopes' = [scopes EXCEPT ![k] = Scope(new)]
      BY <3>2, <3>3, ScopesAre
    <3> QED BY <3>4 DEF new
  <2>7. scopes' = [scopes EXCEPT ![k] = @ \cup {<<n, t>>}]
    BY <1>2, <2>2, <2>5, <2>6
  <2>8. ~Abstract!Has(scopes[k], n) /\ scopes # <<>>
    BY <1>2, <1>3, <1>6, <2>2, <2>4, ScopeHas
  <2> QED BY <1>2, <1>4, <2>1, <2>7, <2>8 DEF Abstract!DefineVar, Abstract!Top
<1> QED BY <1>5, <1>6

LEMMA DeclareFunctionMaps ==
    ASSUME IInv, NEW f \in FuncNames, declare_function(f)
    PROVE  Abstract!DeclareFunction(f)
<1>1. f \in declared <=> InTable(func_ht, f)
  BY Parts, FunctionSets DEF declared
<1>2. alive /\ UNCHANGED alive /\ UNCHANGED scopes
  BY SameScopes DEF declare_function
<1>3. CASE UNCHANGED func_ht /\ ret' = -1 /\ InTable(func_ht, f)
  BY <1>1, <1>2, <1>3, SameFunctions DEF Abstract!DeclareFunction
<1>4. ASSUME NEW data, Adds(f, data), data.is_defined = FALSE, ret' = 1
      PROVE  Abstract!DeclareFunction(f)
  <2>1. Entries(func_ht') = Entries(func_ht) \cup {data} /\ data.key = f /\ ~InTable(func_ht, f)
    BY <1>4, AddsEntry DEF Adds
  <2>2. declared' = declared \cup {f}
    BY <2>1 DEF declared
  <2>3. defined' = defined
    BY <1>4, <2>1 DEF defined
  <2> QED BY <1>1, <1>2, <1>4, <2>1, <2>2, <2>3 DEF Abstract!DeclareFunction
<1> QED BY <1>3, <1>4, DeclareFunctionAdds

LEMMA DefineFunctionMaps ==
    ASSUME IInv, NEW f \in FuncNames, define_function(f)
    PROVE  Abstract!DefineFunction(f)
<1>1. f \in declared <=> InTable(func_ht, f)
  BY Parts, FunctionSets DEF declared
<1>2. alive /\ UNCHANGED alive /\ UNCHANGED scopes
  BY SameScopes DEF define_function
<1>3. CASE UNCHANGED func_ht /\ ret' = 0 /\ ~InTable(func_ht, f)
  <2>1. UNCHANGED <<declared, defined>>
    BY <1>3, SameFunctions
  <2> QED BY <1>1, <1>2, <1>3, <2>1 DEF Abstract!DefineFunction
<1>4. ASSUME NEW data, Changes(f, data), data.is_defined = TRUE, ret' = 1
      PROVE  Abstract!DefineFunction(f)
  <2> DEFINE old == Find(func_ht, f)
  <2>1. /\ Entries(func_ht') = (Entries(func_ht) \ {old}) \cup {data}
        /\ old \in Entries(func_ht) /\ old.key = f /\ data.key = f /\ InTable(func_ht, f)
    BY <1>4, ChangesEntry DEF Changes
  <2> HIDE DEF old
  <2>2. declared' = declared
    BY <2>1 DEF declared
  <2>3. defined' = defined \cup {f}
    BY <1>4, <2>1 DEF defined
  <2> QED BY <1>1, <1>2, <1>4, <2>1, <2>2, <2>3 DEF Abstract!DefineFunction
<1> QED BY <1>3, <1>4, DefineFunctionChanges

LEMMA InsertParamMaps ==
    ASSUME IInv, NEW f \in FuncNames, NEW t \in Types, NEW pname \in ParamNames \cup {NULL},
           InsertParam(f, t, pname)
    PROVE  Abstract!Describe(f)
<1>1. f \in declared <=> InTable(func_ht, f)
  BY Parts, FunctionSets DEF declared
<1>2. alive /\ UNCHANGED alive /\ UNCHANGED scopes
  BY SameScopes DEF InsertParam
<1>3. CASE UNCHANGED func_ht /\ ret' = -1 /\ ~InTable(func_ht, f)
  BY <1>1, <1>2, <1>3, SameFunctions DEF Abstract!Describe
<1>4. ASSUME NEW data, Changes(f, data), data.is_defined = Find(func_ht, f).is_defined, ret' = 1
      PROVE  Abstract!Describe(f)
  <2> DEFINE old == Find(func_ht, f)
  <2>1. /\ Entries(func_ht') = (Entries(func_ht) \ {old}) \cup {data}
        /\ old \in Entries(func_ht) /\ old.key = f /\ data.key = f /\ InTable(func_ht, f)
        /\ data.is_defined = old.is_defined
    BY <1>4, ChangesEntry DEF Changes
  <2> HIDE DEF old
  <2>2. declared' = declared
    BY <2>1 DEF declared
  <2>3. defined' = defined
    BY <2>1 DEF defined
  <2> QED BY <1>1, <1>2, <1>4, <2>1, <2>2, <2>3 DEF Abstract!Describe
<1> QED BY <1>3, <1>4, InsertParamChanges

LEMMA DestroyMaps == ASSUME IInv, symtab_destroy PROVE Abstract!Destroy
<1>1. scopes' = <<>>
  BY DEF symtab_destroy, scopes
<1>2. Entries(func_ht') = {}
  BY EmptyTable DEF symtab_destroy
<1>3. declared' = {} /\ defined' = {}
  BY <1>2 DEF declared, defined
<1> QED BY <1>1, <1>3 DEF symtab_destroy, Abstract!Destroy

(* Each operation maps to the one of the same name. *)
LEMMA EachMaps == IInv => EachAsItsOwn
<1> SUFFICES ASSUME IInv PROVE EachAsItsOwn
  OBVIOUS
<1>1. start_block => Abstract!StartBlock
  BY StartBlockMaps
<1>2. end_block => Abstract!EndBlock \/ EndBlockWithoutTable
  BY EndBlockMaps
<1>3. symtab_destroy => Abstract!Destroy
  BY DestroyMaps
<1>4. \A n \in Names, t \in Types : define_var(n, t) => Abstract!DefineVar(n, t)
  BY DefineVarMaps
<1>5. \A f \in FuncNames : /\ declare_function(f) => Abstract!DeclareFunction(f)
                           /\ define_function(f) => Abstract!DefineFunction(f)
  BY DeclareFunctionMaps, DefineFunctionMaps
<1>6. \A f \in FuncNames, t \in Types, p \in ParamNames \cup {NULL} :
        InsertParam(f, t, p) => Abstract!Describe(f)
  BY InsertParamMaps
<1> QED BY <1>1, <1>2, <1>3, <1>4, <1>5, <1>6 DEF EachAsItsOwn

(* So every step of the table is a step of the scopes, the end of a block    *)
(* without a table, or none.                                                 *)
LEMMA StepMaps == IInv /\ [Next]_vars => [Abstract!Next \/ EndBlockWithoutTable]_(Abstract!vars)
<1> SUFFICES ASSUME IInv, [Next]_vars PROVE [Abstract!Next \/ EndBlockWithoutTable]_(Abstract!vars)
  OBVIOUS
<1>1. EachAsItsOwn
  BY EachMaps
<1>2. CASE start_block \/ end_block \/ symtab_destroy
  BY <1>1, <1>2 DEF EachAsItsOwn, Abstract!Next
<1>3. ASSUME NEW n \in Names, NEW t \in Types, define_var(n, t) PROVE Abstract!Next
  BY <1>1, <1>3 DEF EachAsItsOwn, Abstract!Next
<1>4. ASSUME NEW f \in FuncNames, declare_function(f) \/ define_function(f) PROVE Abstract!Next
  BY <1>1, <1>4 DEF EachAsItsOwn, Abstract!Next
<1>5. ASSUME NEW f \in FuncNames, NEW t \in Types, set_return_type(f, t) PROVE Abstract!Next
  BY <1>1, <1>5 DEF EachAsItsOwn, set_return_type, Abstract!Next
<1>6. ASSUME NEW f \in FuncNames, NEW t \in Types, NEW p \in ParamNames, set_param(f, t, p)
      PROVE  Abstract!Next
  BY <1>1, <1>6 DEF EachAsItsOwn, set_param, Abstract!Next
<1>7. CASE UNCHANGED vars
  BY <1>7, SameScopes, SameFunctions DEF vars, Abstract!vars
<1> QED BY <1>2, <1>3, <1>4, <1>5, <1>6, <1>7 DEF Next

(* The symbol table implements the stack of scopes: every operation does     *)
(* what Scopes says of it (ImplementsScopes).                                *)
THEOREM Refinement == Spec => ImplementsScopes
<1>1. Init => Abstract!Init
  BY InitMaps
<1>2. IInv /\ [Next]_vars => [EachAsItsOwn]_vars
  BY EachMaps
<1> QED BY <1>1, <1>2, Invariant, PTL DEF Spec, ImplementsScopes

(* Users who see no more of the table than its scopes and functions see a    *)
(* behaviour of Scopes, but for an end_block after symtab_destroy.           *)
THEOREM BehavesAsScopes ==
    Spec => Abstract!Init /\ [][Abstract!Next \/ EndBlockWithoutTable]_(Abstract!vars)
<1>1. Init => Abstract!Init
  BY InitMaps
<1>2. IInv /\ [Next]_vars => [Abstract!Next \/ EndBlockWithoutTable]_(Abstract!vars)
  BY StepMaps
<1> QED BY <1>1, <1>2, Invariant, PTL DEF Spec

-----------------------------------------------------------------------------
(* What a step may never do.                                                 *)

LEMMA FunctionSetsNow ==
    ASSUME IInv, NEW f \in FuncNames
    PROVE  (is_declared(f) <=> f \in declared) /\ (is_defined(f) <=> f \in defined)
BY Parts, FunctionSets DEF is_declared, is_defined, declared, defined

LEMMA FunctionSetsNext ==
    ASSUME IInv', NEW f \in FuncNames
    PROVE  (is_declared(f)' <=> f \in declared') /\ (is_defined(f)' <=> f \in defined')
BY PartsNext, FunctionSets DEF is_declared, is_defined, declared, defined

(* A declared function stays declared and a defined one defined. *)
THEOREM FunctionsAreKept == Spec => FunctionsStay
<1>1. ASSUME IInv, IInv', [Next]_vars
      PROVE  [alive' => \A f \in FuncNames : /\ is_declared(f) => is_declared(f)'
                                             /\ is_defined(f) => is_defined(f)']_vars
  <2> SUFFICES ASSUME alive', NEW f \in FuncNames
               PROVE  (is_declared(f) => is_declared(f)') /\ (is_defined(f) => is_defined(f)')
    OBVIOUS
  <2>1. [Abstract!Next \/ EndBlockWithoutTable]_(Abstract!vars)
    BY <1>1, StepMaps
  <2>2. declared \subseteq declared' /\ defined \subseteq defined'
    BY <2>1 DEF Abstract!Next, Abstract!vars, Abstract!StartBlock, Abstract!EndBlock,
       Abstract!Destroy, Abstract!DefineVar, Abstract!DeclareFunction, Abstract!DefineFunction,
       Abstract!Describe, EndBlockWithoutTable
  <2> QED BY <1>1, <2>2, FunctionSetsNow, FunctionSetsNext
<1> QED BY <1>1, Invariant, PTL DEF Spec, FunctionsStay
=============================================================================

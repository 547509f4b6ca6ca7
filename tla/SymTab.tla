------------------------------- MODULE SymTab -------------------------------
(***************************************************************************)
(* symtab.c: a stack of hash tables of variables, one per block, and one   *)
(* hash table of functions.  A hash table is an array of chains (linked    *)
(* lists), here a function from buckets to sequences; the top of the stack *)
(* is the last element of blocks.  htab_hash_function(key) % arr_size is   *)
(* the constant Hash (HASH_TABLE_SIZE is 1 in this build: every name falls *)
(* into the same bucket; the model allows any number of buckets).          *)
(*                                                                         *)
(* One action per operation that changes the table; the queries are        *)
(* operators.  Allocation failures (error 99) and the sizes of the         *)
(* allocated buffers are left out.                                         *)
(***************************************************************************)
EXTENDS Integers, Sequences, TLC

CONSTANTS
    Names,      \* names of variables
    FuncNames,  \* names of functions
    ParamNames, \* names of parameters
    Types,      \* datatype_t
    Buckets,    \* 0 .. arr_size - 1
    Hash,       \* name |-> bucket
    MaxBlocks,  \* bound: nesting of blocks
    MaxUid,     \* bound: variables ever defined
    MaxItems    \* bound: parameters of one function

ASSUME HashAssumption == Hash \in [Names \cup FuncNames -> Buckets]
ASSUME BoundsAssumption == MaxBlocks \in Nat /\ MaxUid \in Nat /\ MaxItems \in Nat

NULL == "NULL"                  \* a NULL name
Undefined == "undefined"        \* the outcome of following a NULL pointer

VARIABLES
    alive,      \* FALSE once symtab_destroy has set the pointer to NULL
    blocks,     \* var_symtab: per block [item_arr, size]
    func_ht,    \* the table of functions: [item_arr, size]
    uid_value,  \* the counter behind generate_uid
    ret         \* what the last operation returned

vars == <<alive, blocks, func_ht, uid_value, ret>>

-----------------------------------------------------------------------------
(* Hash tables.                                                            *)

htab_init == [item_arr |-> [b \in Buckets |-> <<>>], size |-> 0]

Positions(chain, key) == {i \in DOMAIN chain : chain[i].key = key}

(* Mutant: only the first node of a chain is compared. *)
InTableFirstOnly(table, key) ==
    LET chain == table.item_arr[Hash[key]] IN chain # <<>> /\ chain[1].key = key

InTable(table, key) == Positions(table.item_arr[Hash[key]], key) # {}

(* var_htab_find and func_htab_find stop at the first match. *)
First(S) == CHOOSE i \in S : \A j \in S : i <= j
Find(table, key) ==
    LET chain == table.item_arr[Hash[key]] IN chain[First(Positions(chain, key))]

(* Mutant: the size shrinks, as in var_htab_erase. *)
AddedShrinks(table, data) ==
    [item_arr |-> [table.item_arr EXCEPT ![Hash[data.key]] = Append(@, data)],
     size |-> table.size - 1]

(* The new node goes to the end of its chain. *)
Added(table, data) ==
    [item_arr |-> [table.item_arr EXCEPT ![Hash[data.key]] = Append(@, data)],
     size |-> table.size + 1]

(* Mutant: the first node of the chain is changed, whatever its key. *)
UpdatedFirst(table, key, data) == [table EXCEPT !.item_arr[Hash[key]][1] = data]

(* A change of the data that find returned a pointer to. *)
Updated(table, key, data) ==
    LET chain == table.item_arr[Hash[key]] IN
    [table EXCEPT !.item_arr[Hash[key]][First(Positions(chain, key))] = data]

(* Mutant: the counter is left out. *)
generate_uidByName(name) == name

generate_uid(name) == name \o ToString(uid_value)

-----------------------------------------------------------------------------
(* Linked lists of parameters and return types.                            *)

LL_create == [items |-> <<>>, lenght |-> 0]

(* The loop that looks for the end of a list of three or more items relinks  *)
(* the first item to the last one on its way.                                *)
LL_insert(ll, type, pname) ==
    LET new == [datatype |-> type, name |-> pname]
        n == Len(ll.items)
    IN [items |-> IF n < 3 THEN Append(ll.items, new)
                  ELSE <<ll.items[1], ll.items[n], new>>,
        lenght |-> ll.lenght + 1]

(* LL_get_item_type, LL_get_item_name: the item at pos, counted from 0. *)
LL_item(ll, pos, field, missing) ==
    IF ll.lenght < pos THEN missing
    ELSE IF pos < Len(ll.items) THEN ll.items[pos + 1][field] ELSE Undefined

-----------------------------------------------------------------------------
(* Operations.                                                             *)

Init ==
    /\ alive = TRUE
    /\ blocks = <<>> /\ func_ht = htab_init
    /\ uid_value = 0 /\ ret = 1

start_block ==
    /\ Len(blocks) < MaxBlocks
    /\ IF alive THEN blocks' = Append(blocks, htab_init) /\ ret' = 1
                ELSE ret' = -1 /\ UNCHANGED blocks
    /\ UNCHANGED <<alive, func_ht, uid_value>>

(* Mutant: the outermost block is removed. *)
end_blockBottom ==
    /\ blocks # <<>> \/ ~alive
    /\ IF alive THEN blocks' = Tail(blocks) /\ ret' = 1
                ELSE ret' = -1 /\ UNCHANGED blocks
    /\ UNCHANGED <<alive, func_ht, uid_value>>

(* With no block left, top is NULL and is dereferenced: no caller does that. *)
end_block ==
    /\ blocks # <<>> \/ ~alive
    /\ IF alive THEN blocks' = SubSeq(blocks, 1, Len(blocks) - 1) /\ ret' = 1
                ELSE ret' = -1 /\ UNCHANGED blocks
    /\ UNCHANGED <<alive, func_ht, uid_value>>

define_var(n, t) ==
    LET top == blocks[Len(blocks)] IN
    /\ uid_value < MaxUid
    /\ IF blocks = <<>> \/ (blocks # <<>> /\ InTable(top, n))
       THEN ret' = -1 /\ UNCHANGED <<blocks, uid_value>>
       ELSE /\ blocks' = [blocks EXCEPT ![Len(blocks)] =
                            Added(@, [key |-> n, type |-> t, uid |-> generate_uid(n)])]
            /\ uid_value' = uid_value + 1
            /\ ret' = 1
    /\ UNCHANGED <<alive, func_ht>>

(* Mutant: a second declaration starts the function anew. *)
declare_functionAgain(f) ==
    LET fresh == [key |-> f, is_defined |-> FALSE, params |-> LL_create, returns |-> LL_create] IN
    /\ alive
    /\ IF InTable(func_ht, f) THEN ret' = -1 /\ func_ht' = Updated(func_ht, f, fresh)
       ELSE func_ht' = Added(func_ht, fresh) /\ ret' = 1
    /\ UNCHANGED <<alive, blocks, uid_value>>

declare_function(f) ==
    /\ alive
    /\ IF InTable(func_ht, f) THEN ret' = -1 /\ UNCHANGED func_ht
       ELSE /\ func_ht' = Added(func_ht, [key |-> f, is_defined |-> FALSE,
                                          params |-> LL_create, returns |-> LL_create])
            /\ ret' = 1
    /\ UNCHANGED <<alive, blocks, uid_value>>

define_function(f) ==
    /\ alive
    /\ IF InTable(func_ht, f)
       THEN /\ func_ht' = Updated(func_ht, f, [Find(func_ht, f) EXCEPT !.is_defined = TRUE])
            /\ ret' = 1
       ELSE ret' = 0 /\ UNCHANGED func_ht
    /\ UNCHANGED <<alive, blocks, uid_value>>

(* set_param and, with a NULL name, set_return_type: both insert into params. *)
InsertParam(f, t, pname) ==
    /\ alive
    /\ IF InTable(func_ht, f)
       THEN LET data == Find(func_ht, f) IN
            /\ data.params.lenght < MaxItems
            /\ func_ht' = Updated(func_ht, f, [data EXCEPT !.params = LL_insert(@, t, pname)])
            /\ ret' = 1
       ELSE ret' = -1 /\ UNCHANGED func_ht
    /\ UNCHANGED <<alive, blocks, uid_value>>

set_param(f, t, pname) == pname # NULL /\ InsertParam(f, t, pname)
set_return_type(f, t) == InsertParam(f, t, NULL)

(* Every block is ended, then the functions and the table are freed. *)
symtab_destroy ==
    /\ alive' = FALSE /\ blocks' = <<>> /\ func_ht' = htab_init
    /\ UNCHANGED <<uid_value, ret>>

Next ==
    \/ start_block \/ end_block \/ symtab_destroy
    \/ \E n \in Names, t \in Types : define_var(n, t)
    \/ \E f \in FuncNames : declare_function(f) \/ define_function(f)
    \/ \E f \in FuncNames, t \in Types : set_return_type(f, t)
    \/ \E f \in FuncNames, t \in Types, p \in ParamNames : set_param(f, t, p)

Spec == Init /\ [][Next]_vars

-----------------------------------------------------------------------------
(* Queries.                                                                *)

(* Mutant: the walk starts at the bottom block. *)
LayerOutermost(n) ==
    LET in == {i \in DOMAIN blocks : InTable(blocks[i], n)} IN
    IF in = {} THEN 0 ELSE First(in)

(* get_var_datatype and get_var_uid walk from the top block downwards. *)
Layer(n) ==
    LET below[i \in 0..Len(blocks)] ==
            IF i = 0 \/ (i > 0 /\ InTable(blocks[i], n)) THEN i ELSE below[i - 1]
    IN below[Len(blocks)]

get_var_datatype(n) == IF Layer(n) = 0 THEN -1 ELSE Find(blocks[Layer(n)], n).type
get_var_uid(n) == IF Layer(n) = 0 THEN NULL ELSE Find(blocks[Layer(n)], n).uid

is_declared(f) == InTable(func_ht, f)
is_defined(f) == InTable(func_ht, f) /\ Find(func_ht, f).is_defined

get_param_count(f) == IF InTable(func_ht, f) THEN Find(func_ht, f).params.lenght ELSE -1
get_return_count(f) == IF InTable(func_ht, f) THEN Find(func_ht, f).returns.lenght ELSE -1

get_param_name(f, pos) ==
    IF pos >= get_param_count(f) THEN NULL ELSE LL_item(Find(func_ht, f).params, pos, "name", NULL)

get_param_type(f, pos) ==
    IF pos >= get_param_count(f) THEN -1 ELSE LL_item(Find(func_ht, f).params, pos, "datatype", "nil")

get_return_type(f, pos) ==
    IF ~InTable(func_ht, f) THEN -1 ELSE LL_item(Find(func_ht, f).returns, pos, "datatype", "nil")

-----------------------------------------------------------------------------
(* Correctness.                                                            *)

Entries(table) == UNION {{table.item_arr[b][i] : i \in DOMAIN table.item_arr[b]} : b \in Buckets}

Uid(name, k) == name \o ToString(k)
Uids == {Uid(e[1], e[2]) : e \in Names \X (0..MaxUid)}

VarData == [key : Names, type : Types, uid : Uids]
LLs == [items : Seq([datatype : Types, name : ParamNames \cup {NULL}]), lenght : Nat]
FuncData == [key : FuncNames, is_defined : BOOLEAN, params : LLs, returns : LLs]
Tables(data) == [item_arr : [Buckets -> Seq(data)], size : Nat]

(* Every variable keeps its type. *)
TypeOK ==
    /\ alive \in BOOLEAN
    /\ blocks \in Seq(Tables(VarData))
    /\ func_ht \in Tables(FuncData)
    /\ uid_value \in 0..MaxUid
    /\ ret \in {-1, 0, 1}

(* A table is well formed when each entry lies in the chain its key hashes   *)
(* to and no key occurs twice: a duplicate, or an entry in a foreign chain,  *)
(* would be invisible to find, and var_htab_clear, which erases by key until *)
(* the chain is empty, would not come to an end.                             *)
WellFormed(table) ==
    \A b \in Buckets : LET chain == table.item_arr[b] IN
        /\ \A i \in DOMAIN chain : Hash[chain[i].key] = b
        /\ \A i, j \in DOMAIN chain : chain[i].key = chain[j].key => i = j

TablesWellFormed == WellFormed(func_ht) /\ \A i \in DOMAIN blocks : WellFormed(blocks[i])

(* The abstract scopes this table represents. *)
Scope(table) == {<<e.key, e.type>> : e \in Entries(table)}
scopes == [i \in DOMAIN blocks |-> Scope(blocks[i])]
declared == {e.key : e \in Entries(func_ht)}
defined == {e.key : e \in {d \in Entries(func_ht) : d.is_defined}}

Abstract == INSTANCE Scopes WITH
    alive <- alive, scopes <- scopes, declared <- declared, defined <- defined, ret <- ret

(* The one place where the code does not return what symtab.h promises:      *)
(* end_block on a table that no longer exists says -1, not 0 (symtab.c:781;  *)
(* no caller does that).                                                     *)
EndBlockWithoutTable ==
    ~alive /\ ret' = -1 /\ UNCHANGED <<alive, scopes, declared, defined>>

(* The table implements the stack of scopes of Scopes: each operation of     *)
(* symtab.c does what Scopes says of that operation, returns what symtab.h   *)
(* documents and changes only the scope or the function it should.           *)
EachAsItsOwn ==
    /\ start_block => Abstract!StartBlock
    /\ end_block => Abstract!EndBlock \/ EndBlockWithoutTable
    /\ symtab_destroy => Abstract!Destroy
    /\ \A n \in Names, t \in Types : define_var(n, t) => Abstract!DefineVar(n, t)
    /\ \A f \in FuncNames : /\ declare_function(f) => Abstract!DeclareFunction(f)
                            /\ define_function(f) => Abstract!DefineFunction(f)
    /\ \A f \in FuncNames, t \in Types, p \in ParamNames \cup {NULL} :
            InsertParam(f, t, p) => Abstract!Describe(f)

ImplementsScopes == Abstract!Init /\ [][EachAsItsOwn]_vars

(* A lookup returns the innermost definition, whatever it shadows, and says  *)
(* -1 only for a name that no open block defines.                            *)
LookupIsInnermost ==
    \A n \in Names : LET in == {i \in DOMAIN blocks : Abstract!Has(scopes[i], n)} IN
        IF in = {} THEN get_var_datatype(n) = -1 /\ get_var_uid(n) = NULL
        ELSE LET i == CHOOSE i \in in : \A j \in in : j <= i
             IN <<n, get_var_datatype(n)>> \in scopes[i]

(* Two variables that are alive at the same time have different uids, for    *)
(* names of which no two counts make one uid ("x1" and "x" can share "x10").  *)
UidsUnique ==
    \A i, j \in DOMAIN blocks : \A d \in Entries(blocks[i]), e \in Entries(blocks[j]) :
        d.uid = e.uid => i = j /\ d = e

(* A function never becomes undeclared or undefined while the table lives.   *)
FunctionsStay ==
    [][alive' => \A f \in FuncNames : /\ is_declared(f) => is_declared(f)'
                                      /\ is_defined(f) => is_defined(f)']_vars

-----------------------------------------------------------------------------
(* A claim of the repository's comments that the code does not keep.       *)

(* symtab.h:99: parameters are inserted one after another, in their order;   *)
(* symtab.h:112, :122: each is read by its position.  So after set_param the *)
(* earlier positions hold what they held and the next one the new parameter. *)
ParametersInOrder ==
    [][\A f \in FuncNames, t \in Types, p \in ParamNames :
        set_param(f, t, p) /\ is_declared(f) =>
            \A pos \in 0..get_param_count(f) :
                IF pos < get_param_count(f)
                THEN /\ get_param_name(f, pos)' = get_param_name(f, pos)
                     /\ get_param_type(f, pos)' = get_param_type(f, pos)
                ELSE get_param_name(f, pos)' = p /\ get_param_type(f, pos)' = t]_vars
=============================================================================

------------------------------ MODULE MCSymTab ------------------------------
(* Three names and two functions in two buckets, so that chains are shared. *)
EXTENDS SymTab

(* No two counts make one uid.  It is true of names that do not end in a    *)
(* digit, such as those of the run; "x1" with 0 and "x" with 10 are "x10".   *)
UidsDistinct ==
    \A d, e \in Names \X (0..MaxUid) : Uid(d[1], d[2]) = Uid(e[1], e[2]) => d[2] = e[2]

ASSUME UidsDistinct

(* The loop of LL_insert, round by round: while a third item follows, the    *)
(* first one is linked past the second.  LL_insert says what comes of it.    *)
Walked[items \in Seq(Names)] ==
    IF Len(items) > 2 THEN Walked[<<items[1]>> \o SubSeq(items, 3, Len(items))] ELSE items

WalkAndInsert(items, p) == IF items = <<>> THEN <<p>> ELSE Append(Walked[items], p)

ASSUME \A n \in 0..5 : \A names \in [1..n -> Names], t \in Types, p \in Names :
    LET Item(name) == [datatype |-> t, name |-> name]
        list == [items |-> [i \in 1..n |-> Item(names[i])], lenght |-> n]
        after == WalkAndInsert(names, p)
    IN LL_insert(list, t, p).items = [i \in DOMAIN after |-> Item(after[i])]

MCBuckets == {0, 1}
MCHash == [n \in {"x", "y", "z", "f", "g"} |-> IF n = "z" THEN 1 ELSE 0]

Params(f) == IF is_declared(f) THEN Find(func_ht, f).params.items ELSE <<>>

(* State constraint: nested blocks and a function, or no block and           *)
(* two functions with four parameters of one type (blocks and functions      *)
(* lie in different tables).                                                 *)
BlocksOrLists ==
    \/ ~is_declared("g") /\ Params("f") = <<>>
    \/ /\ blocks = <<>> /\ uid_value = 0
       /\ Len(Params("f")) + Len(Params("g")) <= 4
       /\ \A f \in FuncNames : \A i \in DOMAIN Params(f) : Params(f)[i].datatype = "integer"

(* State constraint: a table of functions that have parameters only. *)
ParametersOnly ==
    /\ blocks = <<>> /\ uid_value = 0
    /\ \A f \in FuncNames : \A i \in DOMAIN Params(f) : Params(f)[i].name # NULL
=============================================================================

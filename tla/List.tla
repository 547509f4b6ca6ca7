-------------------------------- MODULE List --------------------------------
(***************************************************************************)
(* What structures.h promises: a list is a sequence of tokens with a       *)
(* cursor, the position of the active element (0 when none is active).     *)
(* An operation on the active element does nothing when there is none.     *)
(***************************************************************************)
EXTENDS Integers, Sequences

CONSTANT TokenValues

VARIABLES items, cursor

vars == <<items, cursor>>

Init == items = <<>> /\ cursor = 0

Active == cursor # 0

(* The elements from position i on move by one when t is put at i. *)
InsertAt(i, t) ==
    /\ items' = SubSeq(items, 1, i - 1) \o <<t>> \o SubSeq(items, i, Len(items))
    /\ cursor' = IF cursor >= i THEN cursor + 1 ELSE cursor

(* The cursor is lost with the element it is on. *)
DeleteAt(i) ==
    /\ i \in DOMAIN items
    /\ items' = SubSeq(items, 1, i - 1) \o SubSeq(items, i + 1, Len(items))
    /\ cursor' = IF cursor = i THEN 0 ELSE IF cursor > i THEN cursor - 1 ELSE cursor

InsertFirst(t) == InsertAt(1, t)
InsertLast(t) == InsertAt(Len(items) + 1, t)
InsertAfter(t) == Active /\ InsertAt(cursor + 1, t)
InsertBefore(t) == Active /\ InsertAt(cursor, t)

DeleteFirst == DeleteAt(1)
DeleteLast == DeleteAt(Len(items))
DeleteAfter == Active /\ DeleteAt(cursor + 1)
DeleteBefore == Active /\ DeleteAt(cursor - 1)

Dispose == items' = <<>> /\ cursor' = 0

First == cursor' = (IF items = <<>> THEN 0 ELSE 1) /\ UNCHANGED items
Last == cursor' = Len(items) /\ UNCHANGED items
Forward ==
    /\ Active /\ cursor' = (IF cursor = Len(items) THEN 0 ELSE cursor + 1)
    /\ UNCHANGED items
Backward == Active /\ cursor' = cursor - 1 /\ UNCHANGED items

SetValue(t) == Active /\ items' = [items EXCEPT ![cursor] = t] /\ UNCHANGED cursor

Next ==
    \/ \E t \in TokenValues : InsertFirst(t) \/ InsertLast(t) \/ InsertAfter(t) \/ InsertBefore(t) \/ SetValue(t)
    \/ DeleteFirst \/ DeleteLast \/ DeleteAfter \/ DeleteBefore \/ Dispose
    \/ First \/ Last \/ Forward \/ Backward

Spec == Init /\ [][Next]_vars
=============================================================================

-------------------------------- MODULE DList --------------------------------
(***************************************************************************)
(* structures.c: the doubly linked list of tokens, with its elements in a  *)
(* heap.  An address in DOMAIN heap is allocated; malloc may return any    *)
(* other address, freed ones included, so that a dangling pointer may      *)
(* point to a later element.  The copies of the tokens are part of the     *)
(* elements.  A failing malloc (error 99) is left out.                     *)
(***************************************************************************)
EXTENDS Integers, Sequences, SequencesExt

CONSTANTS
    TokenValues,     \* the values a token may have
    Cells,      \* the addresses malloc may return; their number bounds the list
    NULL

ASSUME CellsAssumption == IsFiniteSet(Cells) /\ NULL \notin Cells

VARIABLES
    heap,       \* address |-> DLLElement
    first, last, active,
    token,      \* what the token parameter of the last Get function points to
    exit_code   \* the argument of error(), 0 while the compiler runs

list == <<heap, first, last, active>>
vars == <<list, token, exit_code>>

-----------------------------------------------------------------------------
(* Memory.                                                                 *)

Malloc(c, element) ==
    [a \in DOMAIN heap \cup {c} |-> IF a = c THEN element ELSE heap[a]]

Free(h, cells) == [a \in DOMAIN h \ cells |-> h[a]]

(* c->field = target, where the code has made sure that c is not NULL. *)
Assign(h, c, field, target) == IF c = NULL THEN h ELSE [h EXCEPT ![c][field] = target]

(* The addresses from start on along a field, as far as a walk gets. *)
Walk(h, start, field) ==
    LET at[n \in 0..Cardinality(Cells)] ==
            IF n = 0 THEN start
            ELSE IF at[n - 1] \in DOMAIN h THEN h[at[n - 1]][field] ELSE NULL
        met == {n \in 1..Cardinality(Cells) : at[n - 1] # NULL}
    IN [n \in 1..Cardinality(met) |-> at[n - 1]]

-----------------------------------------------------------------------------
(* Operations.                                                             *)

DLL_Init ==
    /\ heap = [c \in {} |-> NULL]
    /\ first = NULL /\ last = NULL /\ active = NULL
    /\ token \in TokenValues /\ exit_code = 0

Running == exit_code = 0
Quiet == UNCHANGED <<token, exit_code>>

DLL_InsertFirst(t) ==
    /\ \E new \in Cells \ DOMAIN heap :
          /\ heap' = Assign(Malloc(new, [token |-> t, prev |-> NULL, next |-> first]), first, "prev", new)
          /\ last' = IF first # NULL THEN last ELSE new
          /\ first' = new
    /\ Quiet /\ UNCHANGED active

DLL_InsertLast(t) ==
    /\ \E new \in Cells \ DOMAIN heap :
          /\ heap' = Assign(Malloc(new, [token |-> t, prev |-> last, next |-> NULL]), last, "next", new)
          /\ first' = IF last # NULL THEN first ELSE new
          /\ last' = new
    /\ Quiet /\ UNCHANGED active

DLL_DeleteFirst ==
    /\ first # NULL
    /\ active' = IF active = first THEN NULL ELSE active
    /\ IF first = last
       THEN first' = NULL /\ last' = NULL /\ heap' = Free(heap, {first})
       ELSE /\ first' = heap[first].next
            /\ heap' = Free(Assign(heap, heap[first].next, "prev", NULL), {first})
            /\ UNCHANGED last
    /\ Quiet

(* Mutant: the active element is not looked at. *)
DLL_DeleteLastKeepsActive ==
    /\ last # NULL
    /\ IF first = last
       THEN first' = NULL /\ last' = NULL /\ heap' = Free(heap, {last})
       ELSE /\ last' = heap[last].prev
            /\ heap' = Free(Assign(heap, heap[last].prev, "next", NULL), {last})
            /\ UNCHANGED first
    /\ Quiet /\ UNCHANGED active

DLL_DeleteLast ==
    /\ last # NULL
    /\ active' = IF active = last THEN NULL ELSE active
    /\ IF first = last
       THEN first' = NULL /\ last' = NULL /\ heap' = Free(heap, {last})
       ELSE /\ last' = heap[last].prev
            /\ heap' = Free(Assign(heap, heap[last].prev, "next", NULL), {last})
            /\ UNCHANGED first
    /\ Quiet

DLL_Dispose ==
    /\ heap' = Free(heap, ToSet(Walk(heap, first, "next")))
    /\ first' = NULL /\ last' = NULL /\ active' = NULL
    /\ Quiet

(* Mutant: the end of the list is not moved. *)
DLL_DeleteAfterKeepsLast ==
    /\ active # NULL /\ heap[active].next # NULL
    /\ LET del_element == heap[active].next
           after == heap[del_element].next
       IN heap' = Free(Assign(Assign(heap, active, "next", after), after, "prev", active), {del_element})
    /\ Quiet /\ UNCHANGED <<first, last, active>>

DLL_DeleteAfter ==
    /\ active # NULL /\ heap[active].next # NULL
    /\ LET del_element == heap[active].next
           after == heap[del_element].next
       IN /\ last' = IF del_element = last THEN active ELSE last
          /\ heap' = Free(Assign(Assign(heap, active, "next", after), after, "prev", active), {del_element})
    /\ Quiet /\ UNCHANGED <<first, active>>

DLL_DeleteBefore ==
    /\ active # NULL /\ heap[active].prev # NULL
    /\ LET del_element == heap[active].prev
           before == heap[del_element].prev
       IN /\ first' = IF del_element = first THEN active ELSE first
          /\ heap' = Free(Assign(Assign(heap, active, "prev", before), before, "next", active), {del_element})
    /\ Quiet /\ UNCHANGED <<last, active>>

DLL_InsertAfter(t) ==
    /\ active # NULL
    /\ \E new \in Cells \ DOMAIN heap :
          LET after == heap[active].next
              added == Malloc(new, [token |-> t, prev |-> active, next |-> after])
          IN /\ heap' = Assign(Assign(added, active, "next", new), after, "prev", new)
             /\ last' = IF active = last THEN new ELSE last
    /\ Quiet /\ UNCHANGED <<first, active>>

(* Mutant: the element before the new one keeps pointing to the active one. *)
DLL_InsertBeforeUnlinked(t) ==
    /\ active # NULL
    /\ \E new \in Cells \ DOMAIN heap :
          LET before == heap[active].prev
              added == Malloc(new, [token |-> t, prev |-> before, next |-> active])
          IN /\ heap' = Assign(added, active, "prev", new)
             /\ first' = IF active = first THEN new ELSE first
    /\ Quiet /\ UNCHANGED <<last, active>>

DLL_InsertBefore(t) ==
    /\ active # NULL
    /\ \E new \in Cells \ DOMAIN heap :
          LET before == heap[active].prev
              added == Malloc(new, [token |-> t, prev |-> before, next |-> active])
          IN /\ heap' = Assign(Assign(added, active, "prev", new), before, "next", new)
             /\ first' = IF active = first THEN new ELSE first
    /\ Quiet /\ UNCHANGED <<last, active>>

DLL_First == active' = first /\ Quiet /\ UNCHANGED <<heap, first, last>>
DLL_Last == active' = last /\ Quiet /\ UNCHANGED <<heap, first, last>>

DLL_Next ==
    /\ active # NULL /\ active' = heap[active].next
    /\ Quiet /\ UNCHANGED <<heap, first, last>>

DLL_Previous ==
    /\ active # NULL /\ active' = heap[active].prev
    /\ Quiet /\ UNCHANGED <<heap, first, last>>

DLL_SetValue(t) ==
    /\ active # NULL /\ heap' = Assign(heap, active, "token", t)
    /\ Quiet /\ UNCHANGED <<first, last, active>>

(* The parameter is assigned, not what it points to: the caller sees nothing. *)
DLL_GetFirst ==
    /\ first # NULL
    /\ UNCHANGED <<list, token, exit_code>>

DLL_GetLast ==
    /\ last # NULL /\ token' = heap[last].token
    /\ UNCHANGED <<list, exit_code>>

DLL_GetValue ==
    /\ active # NULL /\ token' = heap[active].token
    /\ UNCHANGED <<list, exit_code>>

(* DLL_GetFirst and DLL_GetLast of an empty list. *)
GetFails ==
    /\ first = NULL \/ last = NULL
    /\ exit_code' = 99 /\ UNCHANGED <<list, token>>

Halted == ~Running /\ UNCHANGED vars

Insert(t) ==
    \/ DLL_InsertFirst(t) \/ DLL_InsertLast(t)
    \/ DLL_InsertAfter(t) \/ DLL_InsertBefore(t) \/ DLL_SetValue(t)
Delete == DLL_DeleteFirst \/ DLL_DeleteLast \/ DLL_DeleteAfter \/ DLL_DeleteBefore \/ DLL_Dispose
Move == DLL_First \/ DLL_Last \/ DLL_Next \/ DLL_Previous
Get == DLL_GetFirst \/ DLL_GetLast \/ DLL_GetValue \/ GetFails

Next ==
    \/ Running /\ ((\E t \in TokenValues : Insert(t)) \/ Delete \/ Move \/ Get)
    \/ Halted

Spec == DLL_Init /\ [][Next]_vars

-----------------------------------------------------------------------------
(* Correctness.                                                            *)

(* Every pointer is NULL or the address of an allocated element.           *)
TypeOK ==
    LET Pointers == DOMAIN heap \cup {NULL}
    IN /\ DOMAIN heap \subseteq Cells
       /\ \A c \in DOMAIN heap : heap[c] \in [token : TokenValues, prev : Pointers, next : Pointers]
       /\ {first, last, active} \subseteq Pointers
       /\ token \in TokenValues
       /\ exit_code \in {0, 99}

(* The walk from last along prev is the mirror image of the walk from first *)
(* along next, and they visit every allocated element exactly once: the     *)
(* insertions and deletions at the ends and around the active element never *)
(* tear the two chains apart, leave a cycle or lose an element.             *)
WellLinked ==
    LET forward == Walk(heap, first, "next") IN
    /\ Walk(heap, last, "prev") = Reverse(forward)
    /\ ToSet(forward) = DOMAIN heap /\ Len(forward) = Cardinality(DOMAIN heap)

(* The sequence and the cursor this heap represents. *)
Items(h, start) == LET forward == Walk(h, start, "next")
                   IN [i \in DOMAIN forward |-> h[forward[i]].token]

Position(h, start, c) ==
    IF c = NULL THEN 0
    ELSE LET forward == Walk(h, start, "next")
         IN IF c \in ToSet(forward) THEN CHOOSE i \in DOMAIN forward : forward[i] = c ELSE -1

items == Items(heap, first)
cursor == Position(heap, first, active)

Abstract == INSTANCE List WITH items <- items, cursor <- cursor

(* The linked list implements the sequence with a cursor of List: every     *)
(* operation puts its token where it should, removes the element it should, *)
(* and the active element stays the same element or is lost with it.        *)
ImplementsList == Abstract!Spec
=============================================================================

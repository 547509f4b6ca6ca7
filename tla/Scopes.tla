------------------------------- MODULE Scopes -------------------------------
(***************************************************************************)
(* What the symbol table promises its users (symtab.h), without tables,    *)
(* chains and pointers: a stack of scopes, each a set of <<name, type>>    *)
(* pairs with one type per name, and the sets of declared and of defined   *)
(* functions.  ret is the value the last operation returned.               *)
(***************************************************************************)
EXTENDS Integers, Sequences

CONSTANTS Names, FuncNames, Types

VARIABLES alive, scopes, declared, defined, ret

vars == <<alive, scopes, declared, defined, ret>>

Init ==
    /\ alive = TRUE /\ scopes = <<>> /\ declared = {} /\ defined = {} /\ ret = 1

Top == scopes[Len(scopes)]

Has(scope, n) == \E t \in Types : <<n, t>> \in scope

(* A new block hides nothing and is empty. *)
StartBlock ==
    /\ IF alive THEN scopes' = Append(scopes, {}) /\ ret' = 1
                ELSE ret' = -1 /\ UNCHANGED scopes
    /\ UNCHANGED <<alive, declared, defined>>

(* symtab.h:30: 0 when there is no table (start_block, symtab.h:25: -1). *)
EndBlock ==
    /\ scopes # <<>> \/ ~alive
    /\ IF alive THEN scopes' = SubSeq(scopes, 1, Len(scopes) - 1) /\ ret' = 1
                ELSE ret' = 0 /\ UNCHANGED scopes
    /\ UNCHANGED <<alive, declared, defined>>

(* The first definition in the innermost scope counts; another one is refused. *)
DefineVar(n, t) ==
    /\ IF scopes = <<>> \/ Has(Top, n)
       THEN ret' = -1 /\ UNCHANGED scopes
       ELSE /\ scopes' = [scopes EXCEPT ![Len(scopes)] = @ \cup {<<n, t>>}]
            /\ ret' = 1
    /\ UNCHANGED <<alive, declared, defined>>

DeclareFunction(f) ==
    /\ alive
    /\ ret' = IF f \in declared THEN -1 ELSE 1
    /\ declared' = declared \cup {f}
    /\ UNCHANGED <<alive, scopes, defined>>

(* Only a declared function becomes defined. *)
DefineFunction(f) ==
    /\ alive
    /\ ret' = IF f \in declared THEN 1 ELSE 0
    /\ defined' = defined \cup ({f} \cap declared)
    /\ UNCHANGED <<alive, scopes, declared>>

(* Parameters and return types are none of this specification's concern. *)
Describe(f) ==
    /\ alive
    /\ ret' = IF f \in declared THEN 1 ELSE -1
    /\ UNCHANGED <<alive, scopes, declared, defined>>

Destroy ==
    /\ alive' = FALSE /\ scopes' = <<>> /\ declared' = {} /\ defined' = {}
    /\ UNCHANGED ret

Next ==
    \/ StartBlock \/ EndBlock \/ Destroy
    \/ \E n \in Names, t \in Types : DefineVar(n, t)
    \/ \E f \in FuncNames : DeclareFunction(f) \/ DefineFunction(f) \/ Describe(f)

Spec == Init /\ [][Next]_vars
=============================================================================

------------------------------ MODULE ExprTree ------------------------------
(***************************************************************************)
(* ast.c: how the postfix list of an expression becomes a tree.  A node is *)
(* its kind, its attribute and its children; the growing child array of a  *)
(* node is a sequence, and the attribute's conversion to a number or to an *)
(* escaped string is left out (the token's own text is kept).              *)
(***************************************************************************)
EXTENDS Tokens, Naturals, Sequences

get_id(t) ==
    CASE t.type = "IDENTIFIER" -> "variable"
      [] t.type = "OPERATOR" -> "operation"
      [] t.type \in Literals \cup {"NIL"} -> "constant"

Node(t, kids) == [id |-> get_id(t), attr |-> t.attr, kids |-> kids]

(* The outcome of DLL_GetLast on an empty list: error(99). *)
InternalError == [ok |-> FALSE]

(* DLL_DeleteLast, on how many tokens of the list are left. *)
DeleteLast(n) == IF n = 0 THEN 0 ELSE n - 1

(* Mutant: one token too many is deleted after a child that is an operator. *)
AST_add_child_rec_expr_skips(dll) ==
    LET child[n \in 0..Len(dll)] ==
            IF n = 0 THEN InternalError
            ELSE IF get_id(dll[n]) # "operation"
                 THEN [ok |-> TRUE, node |-> Node(dll[n], <<>>), left |-> n]
            ELSE LET first == child[DeleteLast(n)]
                     left == IF first.node.id = "operation" THEN DeleteLast(first.left) ELSE first.left
                     second == child[DeleteLast(left)]
                 IN IF ~first.ok THEN first
                    ELSE IF first.node.attr = "#" THEN [first EXCEPT !.node = Node(dll[n], <<@>>)]
                    ELSE IF ~second.ok THEN second
                    ELSE [second EXCEPT !.node = Node(dll[n], <<first.node, @>>)]
    IN child

(* AST_add_child_rec_expr, for each number n of tokens left in dll: the tree  *)
(* of the last of them.  An operator is deleted, its first child is read and, *)
(* unless that child is "#", deleted too and the second one read; a child     *)
(* that is an operator is expanded on the way.  "left" is how much of the     *)
(* list the call leaves to the next one.                                      *)
AST_add_child_rec_expr(dll) ==
    LET child[n \in 0..Len(dll)] ==
            IF n = 0 THEN InternalError
            ELSE IF get_id(dll[n]) # "operation"
                 THEN [ok |-> TRUE, node |-> Node(dll[n], <<>>), left |-> n]
            ELSE LET first == child[DeleteLast(n)]
                     second == child[DeleteLast(first.left)]
                 IN IF ~first.ok THEN first
                    ELSE IF first.node.attr = "#" THEN [first EXCEPT !.node = Node(dll[n], <<@>>)]
                    ELSE IF ~second.ok THEN second
                    ELSE [second EXCEPT !.node = Node(dll[n], <<first.node, @>>)]
    IN child

AST_dll_to_tree(dll) == AST_add_child_rec_expr(dll)[Len(dll)]
=============================================================================

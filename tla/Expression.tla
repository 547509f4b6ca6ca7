----------------------------- MODULE Expression -----------------------------
(***************************************************************************)
(* The callers of DLL_parse in parser.c, composed with the precedence      *)
(* parser and the tree builder: the condition of if_element and            *)
(* while_element, the single item of decl_assign, and the comma-separated  *)
(* items of an assignment or a return (item, items).  "token" of           *)
(* PrecedenceParser is their token_lookahead; "current" is their token.    *)
(***************************************************************************)
EXTENDS ExprCorrect, ExprTree

CONSTANT MaxItems   \* bound: how many times an item list calls DLL_parse

ASSUME MaxItemsAssumption == MaxItems \in Nat \ {0}

VARIABLES
    caller,         \* "if" | "while" | "decl" | "list"
    phase,          \* "call" while DLL_parse runs for the caller, "items" between items, "done"
    current,        \* the caller's token
    parent_node,    \* the children the caller has added
    podezrely_token \* the flag func_body reads: current starts the next statement

callerVars == <<caller, phase, current, parent_node, podezrely_token>>
allVars == <<vars, callerVars>>

ExprInit ==
    /\ Init
    /\ caller \in {"if", "while", "decl", "list"}
    /\ current = IF caller \in Keywords
                 THEN [type |-> "KEYWORD", spec |-> caller, attr |-> caller]
                 ELSE [type |-> "ASSIGNMENT", spec |-> "others", attr |-> "="]
    /\ phase = "call" /\ parent_node = <<>> /\ podezrely_token = FALSE

(* A step of DLL_parse or of parse_expression. *)
ParserStep == phase = "call" /\ pc \notin Outcomes /\ Next /\ UNCHANGED callerVars

Returned == phase = "call" /\ pc = "return"

Fail(code) == error(code) /\ UNCHANGED callerVars

get_token ==
    \E next \in Delivered(Len(got)) : token' = next /\ got' = got \o Record(next)

UNCHANGED_parse == UNCHANGED <<pc, pp_list, stack, element, AST_list, ret_code, exit_code>>

(* The expression ran to the end of the file. *)
NothingReturned == Returned /\ list = <<>> /\ Fail(2)

-----------------------------------------------------------------------------
(* AST_connect_DLL: always for a condition, for an item unless it is a call. *)

Connects == list # <<>> /\ (caller \in {"if", "while"} \/ Len(list) = 1)

Tree == AST_dll_to_tree(AST_list)

ConnectFails == Returned /\ Connects /\ ~Tree.ok /\ Fail(99)

(* if_element and while_element go on only at their own keyword. *)
EndWord == IF caller = "if" THEN "then" ELSE "do"

WrongEnd ==
    /\ Returned /\ Connects /\ Tree.ok
    /\ caller \in {"if", "while"} /\ list[1].spec # EndWord
    /\ Fail(2)

ConnectCondition ==
    /\ Returned /\ Connects /\ Tree.ok
    /\ caller \in {"if", "while"} /\ list[1].spec = EndWord
    /\ parent_node' = Append(parent_node, Tree.node)
    /\ current' = list[1] /\ list' = <<>>
    /\ get_token
    /\ phase' = "done"
    /\ UNCHANGED <<caller, podezrely_token>> /\ UNCHANGED_parse

-----------------------------------------------------------------------------
(* item and items.                                                         *)

AfterItem == IF caller = "decl" THEN "done" ELSE "items"

StartsStatement(t) ==
    t.spec \in {"while", "return", "if", "local"} \/ t.type = "IDENTIFIER"

(* A call: only its name is added; func_body will see the call again. *)
ItemCall ==
    /\ Returned /\ caller \in {"decl", "list"} /\ Len(list) = 2
    /\ parent_node' = Append(parent_node, [id |-> "func_call", attr |-> list[1].attr, kids |-> <<>>])
    /\ current' = list[1] /\ token' = list[2] /\ list' = <<>>
    /\ podezrely_token' = TRUE
    /\ phase' = AfterItem
    /\ UNCHANGED <<caller, got>> /\ UNCHANGED_parse

(* An expression; "end" is kept as the lookahead too. *)
ItemExpression ==
    /\ Returned /\ caller \in {"decl", "list"} /\ Connects /\ Tree.ok
    /\ parent_node' = Append(parent_node, Tree.node)
    /\ current' = list[1] /\ list' = <<>>
    /\ IF list[1].spec = "end" THEN token' = list[1] /\ UNCHANGED got ELSE get_token
    /\ podezrely_token' = (podezrely_token \/ StartsStatement(list[1]))
    /\ phase' = AfterItem
    /\ UNCHANGED caller /\ UNCHANGED_parse

EndsItems == current.type = "KEYWORD" \/ token.spec = "("

(* Mutant: the last item is seen, the loop over the items goes on. *)
ItemsEndLoops == phase = "items" /\ pc = "return" /\ EndsItems /\ UNCHANGED allVars

ItemsEnd ==
    /\ phase = "items" /\ pc = "return" /\ EndsItems
    /\ phase' = "done"
    /\ UNCHANGED <<caller, current, parent_node, podezrely_token, vars>>

ItemsError ==
    /\ phase = "items" /\ pc = "return"
    /\ ~EndsItems /\ current.attr # ","
    /\ Fail(2)

(* Another DLL_parse, which starts from empty lists. *)
NextItem ==
    /\ phase = "items" /\ pc = "return"
    /\ ~EndsItems /\ current.attr = "," /\ Len(parent_node) < MaxItems
    /\ phase' = "call" /\ pc' = "collect"
    /\ pp_list' = <<>> /\ AST_list' = <<>> /\ stack' = <<>> /\ element' = 1
    /\ ret_code' = "UNDEF"
    /\ got' = Record(token)
    /\ UNCHANGED <<token, list, exit_code, caller, current, parent_node, podezrely_token>>

BoundReached ==
    phase = "items" /\ ~EndsItems /\ current.attr = "," /\ Len(parent_node) = MaxItems

(* The caller is done, the compiler has stopped, or the bound is reached. *)
ExprHalted ==
    /\ phase = "done" \/ pc \in {"exit", "undefined"} \/ BoundReached
    /\ UNCHANGED allVars

ExprNext ==
    \/ ParserStep \/ NothingReturned \/ ConnectFails
    \/ WrongEnd \/ ConnectCondition
    \/ ItemCall \/ ItemExpression
    \/ ItemsEnd \/ ItemsError \/ NextItem
    \/ ExprHalted

ExprSpec == ExprInit /\ [][ExprNext]_allVars /\ WF_allVars(ExprNext)

-----------------------------------------------------------------------------
(* Correctness.                                                            *)

(* The tree of a postfix list, as its mirror image: the right operand is the *)
(* first child, in which order the generator expects them.  (ast.h:26 puts   *)
(* the left one first, ast.h:25 keeps relations apart: README, divergence 9.) *)
MirrorTree(postfix) ==
    LET Operand(t) == Node(t, <<>>)
        Length(a) == [id |-> "operation", attr |-> "#", kids |-> <<a>>]
        Binary(op, a, b) == [id |-> "operation", attr |-> op, kids |-> <<b, a>>]
    IN Evaluate(postfix, Operand, Length, Binary)[1]

(* The tree that AST_connect_DLL hangs under the caller's node, built by     *)
(* consuming the postfix list from its end, has the operands and operators   *)
(* of the expression in their places (expressions without "#").              *)
TreeIsExpression ==
    phase \in {"items", "done"} /\ AST_list # <<>> =>
        Last(parent_node) = MirrorTree(AST_list)

(* The caller's work always ends: the condition or the item list is complete, *)
(* or the compiler stops with an error.                                       *)
CallerTerminates == <>(phase = "done" \/ pc \in {"exit", "undefined"} \/ BoundReached)

-----------------------------------------------------------------------------
(* A claim of the repository's comments that the code does not keep.       *)

RECURSIVE Nodes(_)
Nodes(n) == {n} \cup UNION {Nodes(n.kids[i]) : i \in DOMAIN n.kids}

TreeNodes == UNION {Nodes(n) : n \in ToSet(parent_node)}

(* ast.c:220: a unary operator gets no second child.                        *)
HashIsUnary == \A n \in TreeNodes : n.id = "operation" /\ n.attr = "#" => Len(n.kids) = 1
=============================================================================

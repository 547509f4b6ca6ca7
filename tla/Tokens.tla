------------------------------- MODULE Tokens -------------------------------
(***************************************************************************)
(* The tokens the scanner hands to the parsers (scanner.h).  A token is a  *)
(* type, a specification and an attribute.  The line number only feeds the *)
(* wording of an error message and is left out.  The specification of an   *)
(* operator is its own spelling; that of an operand is "i"; a keyword or a *)
(* datatype is its own word.  An attribute keeps what the code compares:   *)
(* "0", ",", "$" and the names of identifiers.                             *)
(***************************************************************************)
EXTENDS Naturals

AddOps == {"+", "-"}
MulOps == {"*", "/", "//"}
RelOps == {"<", "<=", ">", ">=", "==", "~="}

(* The operators that join two operands. *)
BinaryOps == AddOps \cup MulOps \cup RelOps \cup {".."}

(* The symbols that index pp_table: SPEC_PLUS (0) to SPEC_DOLR (16). *)
TableSymbols == BinaryOps \cup {"#", "i", "(", ")", "$"}

Keywords == {"do", "else", "end", "function", "global", "if", "local",
             "require", "return", "then", "while"}

Datatypes == {"number", "integer", "nil", "string"}

Literals == {"INTEGER", "DECIMAL", "STRING"}

(* TokenType; UNDEF is the -1 that get_var_datatype returns. *)
TokenTypes == Literals \cup {"NIL", "BOOL", "OPERATOR", "IDENTIFIER",
                             "KEYWORD", "DATATYPE", "ASSIGNMENT", "EOF", "UNDEF"}

(* Specification; MARK, E and EMPTY exist on the parser's stack only. *)
Specs == TableSymbols \cup Keywords \cup Datatypes \cup {"MARK", "E", "EMPTY", "others"}

(* Attributes are strings; some are written by the parsers themselves.  (The *)
(* provers know no member of STRING, so this is stated for them.)            *)
Attributes == STRING
ASSUME AttributesAssumption == {"", "0", "E", "$", "[<]"} \subseteq Attributes

TokenSet == [type : TokenTypes, spec : Specs, attr : Attributes]

(* What the scanner builds before the end of the file: create_operator_token,  *)
(* create_word_token, string_token, create_num_token, token_operator_sort.     *)
Scanned == {t \in TokenSet :
              \/ t.type \in Literals \cup {"IDENTIFIER"} /\ t.spec = "i"
              \/ t.type = "OPERATOR" /\ t.spec \in TableSymbols \ {"i", "$"} /\ t.attr = t.spec
              \/ t.type = "OPERATOR" /\ t.spec = "others" /\ t.attr \in {":", ","}
              \/ t.type = "KEYWORD" /\ t.spec \in Keywords /\ t.attr = t.spec
              \/ t.type = "DATATYPE" /\ t.spec \in Datatypes /\ t.attr = t.spec
              \/ t.type = "ASSIGNMENT" /\ t.spec = "others" /\ t.attr = "="}

EofToken    == [type |-> "EOF", spec |-> "others", attr |-> ""]
DollarToken == [type |-> "EOF", spec |-> "$", attr |-> "$"]
MarkToken   == [type |-> "UNDEF", spec |-> "MARK", attr |-> "[<]"]
EmptyToken  == [type |-> "UNDEF", spec |-> "EMPTY", attr |-> ""]
=============================================================================

------------------------------ MODULE Scanner ------------------------------
(***************************************************************************)
(* scanner.c: get_token called until the end of the file, on one text.     *)
(*                                                                         *)
(* Strings are sequences of characters.  getchar takes the next one and    *)
(* returns EOF for ever after the last; ungetc gives one back, which here  *)
(* means that it is not taken.  "pc" is the function, or the loop in it,   *)
(* the scanner is in; an action is one round of it, which may look a few   *)
(* characters ahead.  Bytes above 127 are left out; in a string literal     *)
(* they are dropped like Control.                                          *)
(***************************************************************************)
EXTENDS Tokens, Integers, Sequences

CONSTANT Texts      \* the inputs

VARIABLES
    text,       \* the standard input
    pos,        \* the position of the next character
    pc,
    string,     \* the dynamic string
    line,       \* the global line counter
    error_line, \* newlines in the block comment since it, or its last "]", began
    tokens,     \* what get_token has returned, each with its line
    exit_code   \* the argument of error(), 0 while the compiler runs

vars == <<text, pos, pc, string, line, error_line, tokens, exit_code>>

EOF == ""

Digits == {"0", "1", "2", "3", "4", "5", "6", "7", "8", "9"}
Letters == {"_",
    "a", "b", "c", "d", "e", "f", "g", "h", "i", "j", "k", "l", "m",
    "n", "o", "p", "q", "r", "s", "t", "u", "v", "w", "x", "y", "z",
    "A", "B", "C", "D", "E", "F", "G", "H", "I", "J", "K", "L", "M",
    "N", "O", "P", "Q", "R", "S", "T", "U", "V", "W", "X", "Y", "Z"}
Control == {"\t", "\r"}

Ends   == {":", ",", "*", "(", ")", "+", "#"}       \* always one character
Sorted == {"<", ">", "/", "=", "~", "."}            \* one character or two

(* The k-th character from here. *)
Ch(k) == IF pos + k - 1 <= Len(text) THEN SubSeq(text, pos + k - 1, pos + k - 1) ELSE EOF
c == Ch(1)

At(f) == pc = f /\ exit_code = 0

(* n characters taken; the end of the file is never passed. *)
Take(n) == pos' = IF pos + n <= Len(text) THEN pos + n ELSE Len(text) + 1

Goto(f) == pc' = f /\ UNCHANGED <<text, error_line, exit_code>>

Token(type, spec, attr) ==
    /\ tokens' = Append(tokens, [type |-> type, spec |-> spec, attr |-> attr, line |-> line])
    /\ string' = "" /\ Goto("get_token") /\ UNCHANGED line

(* Mutant: ":" and "," get no specification of their own. *)
create_operator_tokenNoDefault(s) == Token("OPERATOR", s, s)

create_operator_token(s) == Token("OPERATOR", IF s \in TableSymbols THEN s ELSE "others", s)

lex_error ==
    /\ exit_code' = 1
    /\ UNCHANGED <<text, pos, pc, string, line, error_line, tokens>>

(* s is added to the dynamic string, in the loop f. *)
Add(s, f) == string' = string \o s /\ Goto(f) /\ UNCHANGED <<line, tokens>>

Init ==
    /\ text \in Texts /\ pos = 1
    /\ pc = "get_token" /\ string = "" /\ line = 1 /\ error_line = 0
    /\ tokens = <<>> /\ exit_code = 0

-----------------------------------------------------------------------------
(* get_token.                                                              *)

EndOfFile ==
    /\ At("get_token") /\ c = EOF
    /\ tokens' = Append(tokens, [type |-> "EOF", spec |-> "others", attr |-> "", line |-> line])
    /\ Goto("eof") /\ UNCHANGED <<pos, string, line>>

(* Blanks, newlines and every character that begins nothing. *)
Blank ==
    /\ At("get_token")
    /\ c \notin {EOF, "-", "\""} \cup Ends \cup Sorted \cup Letters \cup Digits
    /\ Take(1) /\ line' = IF c = "\n" THEN line + 1 ELSE line
    /\ Goto("get_token") /\ UNCHANGED <<string, tokens>>

OneCharacter == At("get_token") /\ c \in Ends /\ Take(1) /\ create_operator_token(c)

Minus == At("get_token") /\ c = "-" /\ Ch(2) # "-" /\ Take(1) /\ create_operator_token("-")

(* Mutant: what follows "=" is not given back. *)
token_operator_sortTakesBoth ==
    LET both == c \o Ch(2) IN
    /\ At("get_token") /\ c \in Sorted
    /\ IF (c = "~" /\ Ch(2) # "=") \/ (c = "." /\ Ch(2) # ".") THEN lex_error
       ELSE IF c = "=" /\ Ch(2) # "=" THEN Take(2) /\ Token("ASSIGNMENT", "others", "=")
       ELSE IF (Ch(2) = "=" /\ c # "/") \/ both \in {"//", ".."}
       THEN Take(2) /\ create_operator_token(both)
       ELSE Take(1) /\ create_operator_token(c)

token_operator_sort ==
    LET both == c \o Ch(2) IN
    /\ At("get_token") /\ c \in Sorted
    /\ IF (c = "~" /\ Ch(2) # "=") \/ (c = "." /\ Ch(2) # ".") THEN lex_error
       ELSE IF c = "=" /\ Ch(2) # "=" THEN Take(1) /\ Token("ASSIGNMENT", "others", "=")
       ELSE IF (Ch(2) = "=" /\ c # "/") \/ both \in {"//", ".."}
       THEN Take(2) /\ create_operator_token(both)
       ELSE Take(1) /\ create_operator_token(c)

-----------------------------------------------------------------------------
(* Words.                                                                  *)

WordBegins == At("get_token") /\ c \in Letters /\ Take(1) /\ Add(c, "create_word_token")

create_word_token ==
    /\ At("create_word_token")
    /\ IF c \in Letters \cup Digits THEN Take(1) /\ Add(c, "create_word_token")
       ELSE /\ UNCHANGED pos
            /\ IF string \in Keywords THEN Token("KEYWORD", string, string)
               ELSE IF string \in Datatypes THEN Token("DATATYPE", string, string)
               ELSE Token("IDENTIFIER", "i", string)

-----------------------------------------------------------------------------
(* Numbers.                                                                *)

NumberBegins == At("get_token") /\ c \in Digits /\ Take(1) /\ Add(c, "create_num_token")

(* After "e" or "E": digits, perhaps with a sign. *)
make_exponent_num ==
    IF Ch(2) \in Digits THEN Take(2) /\ Add(c \o Ch(2), "make_exponent_token")
    ELSE IF Ch(2) \in {"+", "-"} /\ Ch(3) \in Digits
    THEN Take(3) /\ Add(c \o Ch(2) \o Ch(3), "make_exponent_token")
    ELSE lex_error

create_num_token ==
    /\ At("create_num_token")
    /\ IF c \in Digits THEN Take(1) /\ Add(c, "create_num_token")
       ELSE IF c = "." THEN
            IF Ch(2) \in Digits THEN Take(2) /\ Add(c \o Ch(2), "fraction") ELSE lex_error
       ELSE IF c \in {"e", "E"} THEN make_exponent_num
       ELSE UNCHANGED pos /\ Token("INTEGER", "i", string)

Fraction ==
    /\ At("fraction")
    /\ IF c \in Digits THEN Take(1) /\ Add(c, "fraction")
       ELSE IF c \in {"e", "E"} THEN make_exponent_num
       ELSE UNCHANGED pos /\ Token("DECIMAL", "i", string)

make_exponent_token ==
    /\ At("make_exponent_token")
    /\ IF c \in Digits THEN Take(1) /\ Add(c, "make_exponent_token")
       ELSE UNCHANGED pos /\ Token("DECIMAL", "i", string)

-----------------------------------------------------------------------------
(* String literals.                                                        *)

StringBegins == At("get_token") /\ c = "\"" /\ Take(1) /\ Add(c, "string_token")

(* At the end of the file getchar goes on returning EOF, which is dropped as *)
(* a control character.                                                      *)
StringForever == At("string_token") /\ c = EOF /\ UNCHANGED vars

StringCharacter ==
    /\ At("string_token") /\ c \notin {EOF, "\\"}
    /\ IF c = "\n" THEN lex_error
       ELSE /\ Take(1)
            /\ IF c = "\"" THEN Token("STRING", "i", string \o c)
               ELSE Add(IF c \in Control THEN "" ELSE c, "string_token")

Escaped(ch) == CASE ch = "n" -> "\n" [] ch = "t" -> "\t" [] OTHER -> ch

EscapeSequence ==
    /\ At("string_token") /\ c = "\\" /\ Ch(2) \notin {"0", "1", "2"}
    /\ IF Ch(2) \in {"n", "t", "\"", "\\"}
       THEN Take(2) /\ Add(Escaped(Ch(2)), "string_token")
       ELSE lex_error

(* Three digits up to 255. *)
InRange(d1, d2, d3) ==
    /\ d2 \in Digits /\ d3 \in Digits
    /\ d1 = "2" => \/ d2 \in {"0", "1", "2", "3", "4"}
                   \/ d2 = "5" /\ d3 \in {"0", "1", "2", "3", "4", "5"}

(* The digits are kept, the backslash is not. *)
general_sequence ==
    /\ At("string_token") /\ c = "\\" /\ Ch(2) \in {"0", "1", "2"}
    /\ IF InRange(Ch(2), Ch(3), Ch(4))
       THEN Take(4) /\ Add(Ch(2) \o Ch(3) \o Ch(4), "string_token")
       ELSE lex_error

-----------------------------------------------------------------------------
(* Comments.                                                               *)

(* Two characters are read; the second is given back unless both are "[". *)
detect_comment ==
    /\ At("get_token") /\ c = "-" /\ Ch(2) = "-"
    /\ IF Ch(3) = "[" /\ Ch(4) = "["
       THEN Take(4) /\ pc' = "detect_block_comment" /\ error_line' = 0 /\ UNCHANGED line
       ELSE /\ Take(3) /\ UNCHANGED error_line
            /\ IF Ch(3) \in {"\n", EOF} THEN line' = line + 1 /\ pc' = "get_token"
               ELSE pc' = "detect_comment" /\ UNCHANGED line
    /\ UNCHANGED <<text, string, tokens, exit_code>>

(* Mutant: the line that a comment ends is not counted. *)
LineCommentUncounted ==
    /\ At("detect_comment")
    /\ Take(1) /\ UNCHANGED <<line, string, tokens>>
    /\ Goto(IF c \in {"\n", EOF} THEN "get_token" ELSE "detect_comment")

(* The line is counted at the end of the file as well. *)
LineComment ==
    /\ At("detect_comment")
    /\ Take(1) /\ UNCHANGED <<string, tokens>>
    /\ IF c \in {"\n", EOF} THEN line' = line + 1 /\ Goto("get_token")
       ELSE UNCHANGED line /\ Goto("detect_comment")

(* "]" and whatever follows it; unless that is another "]", the function     *)
(* calls itself, with a new error_line.                                      *)
BlockCommentBracket ==
    /\ At("detect_block_comment") /\ c = "]"
    /\ Take(2)
    /\ IF Ch(2) = "]" THEN pc' = "get_token" /\ UNCHANGED error_line
       ELSE error_line' = 0 /\ UNCHANGED pc
    /\ UNCHANGED <<text, string, line, tokens, exit_code>>

BlockComment ==
    /\ At("detect_block_comment") /\ c \notin {"]", EOF}
    /\ Take(1)
    /\ IF c = "\n" THEN line' = line + 1 /\ error_line' = error_line + 1 ELSE UNCHANGED <<line, error_line>>
    /\ UNCHANGED <<text, pc, string, tokens, exit_code>>

(* Mutant: the end of the file is not looked for. *)
BlockCommentEofMissed == At("detect_block_comment") /\ c = EOF /\ UNCHANGED vars

BlockCommentEof ==
    /\ At("detect_block_comment") /\ c = EOF
    /\ line' = line - error_line /\ exit_code' = 1
    /\ UNCHANGED <<text, pos, pc, string, error_line, tokens>>

-----------------------------------------------------------------------------
Stopped == pc = "eof" \/ exit_code # 0
Halted == Stopped /\ UNCHANGED vars

Next ==
    \/ EndOfFile \/ Blank \/ OneCharacter \/ Minus \/ token_operator_sort
    \/ WordBegins \/ create_word_token
    \/ NumberBegins \/ create_num_token \/ Fraction \/ make_exponent_token
    \/ StringBegins \/ StringForever \/ StringCharacter \/ EscapeSequence \/ general_sequence
    \/ detect_comment \/ LineComment \/ BlockCommentBracket \/ BlockComment \/ BlockCommentEof
    \/ Halted

(* One thread; getchar comes back. *)
Spec == Init /\ [][Next]_vars /\ WF_vars(Next)
=============================================================================

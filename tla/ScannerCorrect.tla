--------------------------- MODULE ScannerCorrect ---------------------------
(***************************************************************************)
(* What a text means, stated over whole lexemes instead of characters, and *)
(* the promises of the scanner.                                            *)
(***************************************************************************)
EXTENDS Scanner, FiniteSetsExt

All(s, S) == \A i \in 1..Len(s) : SubSeq(s, i, i) \in S
C(s, i)   == SubSeq(s, i, i)
Upto(s, i) == SubSeq(s, 1, i - 1)
From(s, i) == SubSeq(s, i + 1, Len(s))

-----------------------------------------------------------------------------
(* Lexemes.                                                                *)

Operators == BinaryOps \cup {"#", "(", ")", ":", ","}

Integer(s) == s # "" /\ All(s, Digits)
Fixed(s) == \E i \in 1..Len(s) : C(s, i) = "." /\ Integer(Upto(s, i)) /\ Integer(From(s, i))
Exponent(s) == Integer(s) \/ (s # "" /\ C(s, 1) \in {"+", "-"} /\ Integer(From(s, 1)))
Decimal(s) ==
    \/ Fixed(s)
    \/ \E i \in 1..Len(s) : /\ C(s, i) \in {"e", "E"}
                            /\ Integer(Upto(s, i)) \/ Fixed(Upto(s, i))
                            /\ Exponent(From(s, i))

WordShaped(s) == s # "" /\ All(s, Letters \cup Digits) /\ C(s, 1) \in Letters

(* The numbers 000 to 255. *)
Bytes == {n \in {a \o b \o d : a \in {"0", "1", "2"}, b \in Digits, d \in Digits} :
            ~(C(n, 1) = "2" /\ (C(n, 2) \in {"6", "7", "8", "9"}
                                \/ (C(n, 2) = "5" /\ C(n, 3) \in {"6", "7", "8", "9"})))}

(* What is stored for the rest s of a literal, <<>> when s is no such rest.  *)
RECURSIVE Stored(_)
Stored(s) ==
    LET With(prefix, n) == LET rest == Stored(From(s, n))
                           IN IF rest = <<>> THEN <<>> ELSE <<prefix \o rest[1]>>
    IN CASE s = "" -> <<>>
         [] s = "\"" -> <<s>>
         [] C(s, 1) \in {"\"", "\n"} -> <<>>
         [] C(s, 1) = "\\" ->
              IF Len(s) >= 4 /\ SubSeq(s, 2, 4) \in Bytes THEN With(SubSeq(s, 2, 4), 4)
              ELSE IF Len(s) >= 2 /\ C(s, 2) \in {"n", "t", "\"", "\\"} THEN With(Escaped(C(s, 2)), 2)
              ELSE <<>>
         [] OTHER -> With(IF C(s, 1) \in Control THEN "" ELSE C(s, 1), 1)

Literal(s) == s # "" /\ C(s, 1) = "\"" /\ Stored(From(s, 1)) # <<>>

IsLexeme(s) ==
    s = "=" \/ s \in Operators \/ Integer(s) \/ Decimal(s) \/ WordShaped(s) \/ Literal(s)

Made(type, spec, attr) == [type |-> type, spec |-> spec, attr |-> attr]

TokenOf(s) ==
    CASE s = "=" -> Made("ASSIGNMENT", "others", s)
      [] s \in {":", ","} -> Made("OPERATOR", "others", s)
      [] s \in Operators \ {":", ","} -> Made("OPERATOR", s, s)
      [] Integer(s) -> Made("INTEGER", "i", s)
      [] Decimal(s) -> Made("DECIMAL", "i", s)
      [] s \in Keywords -> Made("KEYWORD", s, s)
      [] s \in Datatypes -> Made("DATATYPE", s, s)
      [] WordShaped(s) /\ s \notin Keywords \cup Datatypes -> Made("IDENTIFIER", "i", s)
      [] Literal(s) -> Made("STRING", "i", "\"" \o Stored(From(s, 1))[1])

(* s can grow into a lexeme. *)
Viable(s) == \E t \in {"", "0", "=", ".", "\"", "n\"", "0\"", "00\""} : IsLexeme(s \o t)

-----------------------------------------------------------------------------
(* Texts.                                                                  *)

Found(s, i, word) == {j \in i..(Len(s) - Len(word) + 1) : SubSeq(s, j, j + Len(word) - 1) = word}
Begins(s, i, word) == i \in Found(s, i, word)

(* The first position from i on that is in no blank or comment; a block      *)
(* comment that does not end gives its own position, negated.                *)
RECURSIVE Solid(_, _)
Solid(s, i) ==
    CASE Begins(s, i, "--[[") ->
             LET ends == Found(s, i + 4, "]]") IN IF ends = {} THEN -i ELSE Solid(s, Min(ends) + 2)
      [] Begins(s, i, "--") /\ ~Begins(s, i, "--[[") ->
             LET ends == Found(s, i + 2, "\n") IN Solid(s, IF ends = {} THEN Len(s) + 1 ELSE Min(ends))
      [] i <= Len(s) /\ ~Begins(s, i, "--") /\ ~Viable(C(s, i)) -> Solid(s, i + 1)
      [] OTHER -> i

(* The longest lexeme, or part of one, at i. *)
Piece(s, i) == SubSeq(s, i, Max({j \in i..Len(s) : Viable(SubSeq(s, i, j))}))

(* The tokens of s from i on, each with its position; the last one is the    *)
(* end of the file or the error.                                             *)
EofHere == Made("EOF", "others", "")
ErrorHere == Made("ERROR", "", "")
RECURSIVE Scan(_, _)
Scan(s, i) ==
    LET at == Solid(s, i) IN
    IF at < 0 THEN <<[token |-> ErrorHere, at |-> -at]>>
    ELSE IF at > Len(s) THEN <<[token |-> EofHere, at |-> at]>>
    ELSE LET piece == Piece(s, at) IN
         IF ~IsLexeme(piece) THEN <<[token |-> ErrorHere, at |-> at]>>
         ELSE <<[token |-> TokenOf(piece), at |-> at]>> \o Scan(s, at + Len(piece))

Meant == Scan(text, 1)

LineOf(s, i) == 1 + Cardinality(Found(Upto(s, i), 1, "\n"))

-----------------------------------------------------------------------------
(* Only what Tokens says the scanner builds (LexemesAssumption of the        *)
(* precedence parser, InputsAssumption of the statements) and, last, the end *)
(* of the file.                                                              *)
Without(t) == Made(t.type, t.spec, t.attr)

TypeOK ==
    /\ pos \in 1..(Len(text) + 1)
    /\ line \in Nat \ {0} /\ error_line \in Nat /\ exit_code \in {0, 1}
    /\ \A i \in DOMAIN tokens :
          Without(tokens[i]) \in Scanned \/ (i = Len(tokens) /\ Without(tokens[i]) = EofHere)

(* The end of the file comes inside a string literal: getchar is called for  *)
(* ever.                                                                     *)
InString == pc = "string_token" /\ c = EOF

(* The tokens are those of the longest-match rule over whole lexemes, in     *)
(* order and with the attribute of their own text (nothing left over in the  *)
(* dynamic string), and error(1) comes exactly where that rule finds a piece *)
(* that is no lexeme or a comment that does not end.                         *)
TokensAreLexemes ==
    Stopped \/ InString =>
        LET meant == Meant IN
        [i \in DOMAIN meant |-> meant[i].token]
        = [i \in DOMAIN tokens |-> Without(tokens[i])]
          \o (IF exit_code = 1 \/ InString THEN <<ErrorHere>> ELSE <<>>)

(* A "]" in a block comment that does not belong to "]]": the newline after  *)
(* it is not counted, and error_line starts again (README, divergences).     *)
LoneBracket ==
    \E i \in 1..Len(text) : /\ C(text, i) = "]"
                            /\ i < Len(text) => C(text, i + 1) # "]"
                            /\ i > 1 => C(text, i - 1) # "]"

(* A token has the line its lexeme begins on, however many comments and      *)
(* newlines were skipped and characters given back; an error is reported on  *)
(* the line where its string, number or block comment began.                 *)
LineNumbers ==
    Stopped /\ ~LoneBracket =>
        LET meant == Meant IN
        /\ \A i \in DOMAIN tokens : tokens[i].type # "EOF" => tokens[i].line = LineOf(text, meant[i].at)
        /\ exit_code = 1 => line = LineOf(text, meant[Len(meant)].at)

(* The scanner comes to the end of the file or an error on every text, except *)
(* when the file ends in a string literal (scanner.c:329).                    *)
ScannerTerminates == <>(Stopped \/ InString)
=============================================================================

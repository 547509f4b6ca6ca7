----------------------------- MODULE MCScanner -----------------------------
(* Texts over one alphabet for each part of the scanner. *)
EXTENDS ScannerCorrect

(* All texts of at most n of the characters S. *)
RECURSIVE Over(_, _)
Over(S, n) == IF n = 0 THEN {""} ELSE {""} \cup {a \o t : a \in S, t \in Over(S, n - 1)}

Prefixed(prefix, texts) == {prefix \o t : t \in texts}

MCTexts ==
    (* numbers, and what may stand next to them *)
    Over({"0", ".", "e", "+", "x"}, 6)
    (* operators of one and two characters *)
    \cup Over({"=", "~", "<", ".", "/", "-", ":"}, 4)
    (* keywords, datatypes, identifiers *)
    \cup Over({"i", "f", "d", "o", "0", " "}, 4) \cup Prefixed("ni", Over({"l", "_", "\n"}, 3))
    (* literals with escapes *)
    \cup Prefixed("\"", Over({"\"", "\\", "n", "x", "\n", "\t"}, 4))
    \cup Prefixed("\"\\", Over({"\"", "1", "2", "5", "6"}, 4))
    (* comments of both kinds *)
    \cup Prefixed("--", Over({"[", "\n", "x", "-"}, 5))
    \cup Prefixed("x--[[", Over({"]", "[", "\n", "x"}, 5))
    (* a bit of everything *)
    \cup Over({"x", "=", "\"", "-", "\n", "1"}, 4)
=============================================================================

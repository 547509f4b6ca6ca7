------------------------------ MODULE IFJcode21 ------------------------------
(***************************************************************************)
(* The machine that runs the generated code: the instructions of IFJcode21 *)
(* that generator.c prints, one action per kind, run one after another.    *)
(* The machine is not part of the repository.                              *)
(*                                                                         *)
(* An instruction is a tuple <<opcode, operands...>>.  Targets and labels  *)
(* are names; a source is <<"var", name>> or a value <<type, v>>, with the *)
(* types int, float, string, bool and nil.  Only local frames (LF) occur.  *)
(* A float is held as twice its value.                                     *)
(***************************************************************************)
EXTENDS Integers, Sequences, SequencesExt, TLC

CONSTANTS
    Codes,      \* a sequence of codes to run, each a sequence of instructions
    Input       \* what is read: a sequence of values

VARIABLES
    run, code,  \* which code is run, and the code
    at,         \* the number of the next instruction
    TF, frames, \* the temporary frame (none or one) and the local frames, innermost last
    stack,      \* the data stack
    calls,      \* where the calls that have not returned were made
    output,     \* what has been written
    taken,      \* how many values have been read
    status      \* Running, or the exit code

machine == <<run, code, at, TF, frames, stack, calls, output, taken, status>>

Running == -1

(* Where a label of the code is. *)
Target(label) == CHOOSE k \in DOMAIN code : code[k] = <<"LABEL", label>>

(* A code is refused (52) when a label is defined twice or not at all. *)
Loads(c) ==
    LET marks == {k \in DOMAIN c : c[k][1] = "LABEL"}
        labels == {c[k][2] : k \in marks}
    IN /\ Cardinality(labels) = Cardinality(marks)
       /\ \A k \in DOMAIN c : c[k][1] \in {"JUMP", "JUMPIFEQ", "JUMPIFNEQ", "CALL"} => c[k][2] \in labels

Init ==
    /\ run \in DOMAIN Codes /\ code = Codes[run] /\ at = 1
    /\ TF = <<>> /\ frames = <<>> /\ stack = <<>> /\ calls = <<>>
    /\ output = <<>> /\ taken = 0
    /\ status = IF Loads(code) THEN Running ELSE 52

-----------------------------------------------------------------------------
(* Values.  A failure is <<"crash", exit code>>; the first one counts.       *)

Crash(exit) == <<"crash", exit>>
Fails(v) == v[1] = "crash"
Bool(b) == <<"bool", b>>
Str(s) == <<"string", s>>
Nil == <<"nil", "nil">>

Empty == <<"", "">>     \* a variable that is defined and holds nothing
Frame == Last(frames)

(* A source operand; TYPE alone accepts an empty variable. *)
Look(o) ==
    CASE o[1] # "var" -> o
      [] o[1] = "var" /\ frames = <<>> -> Crash(55)
      [] o[1] = "var" /\ frames # <<>> -> IF o[2] \in DOMAIN Frame THEN Frame[o[2]] ELSE Crash(54)
Source(o) == IF Look(o) = Empty THEN Crash(56) ELSE Look(o)

(* Characters.  Those outside the alphabet go by their code. *)
Alphabet == "abcdefghijklmnopqrstuvwxyz"
CharOf(n) == IF n \in 97..122 THEN SubSeq(Alphabet, n - 96, n - 96) ELSE ToString(n)
CodeOf(c) == 96 + CHOOSE n \in 1..26 : SubSeq(Alphabet, n, n) = c

(* The integer part of n / d, towards minus infinity or towards zero. *)
Floor(n, d) == IF d > 0 THEN n \div d ELSE (-n) \div (-d)
Towards0(n, d) == IF n >= 0 THEN n \div d ELSE -((-n) \div d)

Arithmetic(op, a, b) ==
    LET t == a[1] IN
    CASE op \in {"ADD", "SUB", "MUL"} /\ t = b[1] /\ t \in {"int", "float"} ->
            <<t, CASE op = "ADD" -> a[2] + b[2] [] op = "SUB" -> a[2] - b[2]
                   [] op = "MUL" -> IF t = "int" THEN a[2] * b[2] ELSE (a[2] * b[2]) \div 2>>
      [] op = "DIV" /\ t = "float" /\ b[1] = "float" ->
            IF b[2] = 0 THEN Crash(57) ELSE <<"float", Floor(a[2] * 2, b[2])>>
      [] op = "IDIV" /\ t = "int" /\ b[1] = "int" ->
            IF b[2] = 0 THEN Crash(57) ELSE <<"int", Floor(a[2], b[2])>>
      [] OTHER -> Crash(53)

(* Strings and truth values are ordered too; no generated code compares them. *)
Relation(op, a, b) ==
    CASE op = "EQ" /\ a[1] = b[1] -> Bool(a[2] = b[2])
      [] op = "EQ" /\ a[1] # b[1] /\ "nil" \in {a[1], b[1]} -> Bool(FALSE)
      [] op \in {"LT", "GT"} /\ a[1] = b[1] /\ a[1] \in {"int", "float"} ->
            Bool(IF op = "LT" THEN a[2] < b[2] ELSE a[2] > b[2])
      [] OTHER -> Crash(53)

OfStrings(op, a, b) ==
    CASE op = "CONCAT" /\ a[1] = "string" /\ b[1] = "string" -> Str(a[2] \o b[2])
      [] op \in {"GETCHAR", "STRI2INT"} /\ a[1] = "string" /\ b[1] = "int" ->
            IF b[2] \notin 0..(Len(a[2]) - 1) THEN Crash(58)
            ELSE LET c == SubSeq(a[2], b[2] + 1, b[2] + 1)
                 IN IF op = "GETCHAR" THEN Str(c) ELSE <<"int", CodeOf(c)>>
      [] OTHER -> Crash(53)

Conversion(op, a) ==
    CASE op = "STRLEN" /\ a[1] = "string" -> <<"int", Len(a[2])>>
      [] op = "INT2FLOAT" /\ a[1] = "int" -> <<"float", 2 * a[2]>>
      [] op = "FLOAT2INT" /\ a[1] = "float" -> <<"int", Towards0(a[2], 2)>>
      [] op = "INT2CHAR" /\ a[1] = "int" -> IF a[2] \in 0..255 THEN Str(CharOf(a[2])) ELSE Crash(58)
      [] OTHER -> Crash(53)

-----------------------------------------------------------------------------
(* Instructions.                                                            *)

(* The instruction to run; past the last one the machine ends. *)
instr == Append(code, <<"END">>)[at]
Is(i, ops) == status = Running /\ i[1] \in ops

Goto(k) == at' = k /\ status' = status
Stop(exit) == status' = exit /\ at' = at
Continue == Goto(at + 1)

(* The instruction's result v goes to variable x. *)
Put(x, v) ==
    /\ IF Fails(v) THEN Stop(v[2]) /\ UNCHANGED frames
       ELSE IF frames = <<>> THEN Stop(55) /\ UNCHANGED frames
       ELSE IF x \notin DOMAIN Frame THEN Stop(54) /\ UNCHANGED frames
       ELSE Continue /\ frames' = [frames EXCEPT ![Len(frames)][x] = v]
    /\ UNCHANGED <<run, code, TF, calls, output>>

Strict1(a, Of(_)) == IF Fails(a) THEN a ELSE Of(a)
Strict2(a, b, Of(_, _)) == IF Fails(a) THEN a ELSE IF Fails(b) THEN b ELSE Of(a, b)

DefineVariable(i) ==
    /\ Is(i, {"DEFVAR"})
    /\ IF frames = <<>> THEN Stop(55) /\ UNCHANGED frames
       ELSE IF i[2] \in DOMAIN Frame THEN Stop(52) /\ UNCHANGED frames
       ELSE Continue /\ frames' = [frames EXCEPT ![Len(frames)] = @ @@ (i[2] :> Empty)]
    /\ UNCHANGED <<run, code, TF, stack, calls, output, taken>>

MoveOrConvert(i) ==
    /\ Is(i, {"MOVE", "TYPE", "STRLEN", "INT2FLOAT", "FLOAT2INT", "INT2CHAR"})
    /\ Put(i[2],
           CASE i[1] = "MOVE" -> Source(i[3])
             [] i[1] = "TYPE" -> Strict1(Look(i[3]), LAMBDA a : Str(a[1]))
             [] OTHER -> Strict1(Source(i[3]), LAMBDA a : Conversion(i[1], a)))
    /\ UNCHANGED <<stack, taken>>

Compute(i) ==
    /\ Is(i, {"ADD", "SUB", "MUL", "DIV", "IDIV", "EQ", "LT", "GT", "CONCAT", "GETCHAR", "STRI2INT"})
    /\ Put(i[2], Strict2(Source(i[3]), Source(i[4]), LAMBDA a, b :
           CASE i[1] \in {"ADD", "SUB", "MUL", "DIV", "IDIV"} -> Arithmetic(i[1], a, b)
             [] i[1] \in {"EQ", "LT", "GT"} -> Relation(i[1], a, b)
             [] OTHER -> OfStrings(i[1], a, b)))
    /\ UNCHANGED <<stack, taken>>

(* What is read is a value of the wanted type, or nil. *)
Read(i) ==
    /\ Is(i, {"READ"})
    /\ LET next == taken + 1 IN
       /\ Put(i[2], IF next \in DOMAIN Input /\ Input[next][1] = i[3]
                        THEN Input[next] ELSE Nil)
       /\ taken' = next
    /\ UNCHANGED stack

Pop(i) ==
    /\ Is(i, {"POPS"})
    /\ Put(i[2], IF stack = <<>> THEN Crash(56) ELSE Last(stack))
    /\ stack' = IF stack = <<>> THEN stack ELSE Front(stack)
    /\ UNCHANGED taken

PushOrWrite(i) ==
    /\ Is(i, {"PUSHS", "WRITE"})
    /\ LET v == Source(i[2]) IN
       IF Fails(v) THEN Stop(v[2]) /\ UNCHANGED <<stack, output>>
       ELSE /\ Continue
            /\ stack' = IF i[1] = "PUSHS" THEN Append(stack, v) ELSE stack
            /\ output' = IF i[1] = "WRITE" THEN Append(output, v) ELSE output
    /\ UNCHANGED <<run, code, TF, frames, calls, taken>>

Label(i) ==
    /\ Is(i, {"LABEL"}) /\ Continue
    /\ UNCHANGED <<run, code, TF, frames, stack, calls, output, taken>>

Jump(i) ==
    /\ Is(i, {"JUMP"}) /\ Goto(Target(i[2]))
    /\ UNCHANGED <<run, code, TF, frames, stack, calls, output, taken>>

JumpWhenEqual(i) ==
    /\ Is(i, {"JUMPIFEQ", "JUMPIFNEQ"})
    /\ LET same == Strict2(Source(i[3]), Source(i[4]), LAMBDA a, b : Relation("EQ", a, b)) IN
       IF Fails(same) THEN Stop(same[2])
       ELSE IF same[2] = (i[1] = "JUMPIFEQ") THEN Goto(Target(i[2])) ELSE Continue
    /\ UNCHANGED <<run, code, TF, frames, stack, calls, output, taken>>

CallLabel(i) ==
    /\ Is(i, {"CALL"}) /\ Goto(Target(i[2]))
    /\ calls' = Append(calls, at)
    /\ UNCHANGED <<run, code, TF, frames, stack, output, taken>>

ReturnFromCall(i) ==
    /\ Is(i, {"RETURN"})
    /\ IF calls = <<>> THEN Stop(56) /\ UNCHANGED calls
       ELSE Goto(Last(calls) + 1) /\ calls' = Front(calls)
    /\ UNCHANGED <<run, code, TF, frames, stack, output, taken>>

CreateFrame(i) ==
    /\ Is(i, {"CREATEFRAME"}) /\ Continue
    /\ TF' = <<<<>>>>
    /\ UNCHANGED <<run, code, frames, stack, calls, output, taken>>

PushFrame(i) ==
    /\ Is(i, {"PUSHFRAME"})
    /\ IF TF = <<>> THEN Stop(55) /\ UNCHANGED <<TF, frames>>
       ELSE Continue /\ frames' = frames \o TF /\ TF' = <<>>
    /\ UNCHANGED <<run, code, stack, calls, output, taken>>

PopFrame(i) ==
    /\ Is(i, {"POPFRAME"})
    /\ IF frames = <<>> THEN Stop(55) /\ UNCHANGED <<TF, frames>>
       ELSE Continue /\ frames' = Front(frames) /\ TF' = <<Frame>>
    /\ UNCHANGED <<run, code, stack, calls, output, taken>>

Exit(i) ==
    /\ Is(i, {"EXIT"}) /\ Stop(i[2][2])
    /\ UNCHANGED <<run, code, TF, frames, stack, calls, output, taken>>

EndOfCode(i) ==
    /\ Is(i, {"END"}) /\ Stop(0)
    /\ UNCHANGED <<run, code, TF, frames, stack, calls, output, taken>>

Halted == status # Running /\ UNCHANGED machine

Next ==
    \/ \E i \in {instr} :
          \/ DefineVariable(i) \/ MoveOrConvert(i) \/ Compute(i) \/ Read(i) \/ Pop(i) \/ PushOrWrite(i)
          \/ Label(i) \/ Jump(i) \/ JumpWhenEqual(i) \/ CallLabel(i) \/ ReturnFromCall(i)
          \/ CreateFrame(i) \/ PushFrame(i) \/ PopFrame(i) \/ Exit(i) \/ EndOfCode(i)
    \/ Halted

(* One thread that keeps running. *)
Spec == Init /\ [][Next]_machine /\ WF_machine(Next)
=============================================================================

-------------------------- MODULE StatementsCorrect --------------------------
(***************************************************************************)
(* What the statement parser owes to its input (the grammar, the names,    *)
(* the whole tree), stated with the reference definitions of               *)
(* ProgramReference.  What it owes to the code generator is in Statements. *)
(***************************************************************************)
EXTENDS Statements, ProgramReference

Whole == source.of # <<>>       \* the input is the text of a program
program == source.of[1]

RECURSIVE Subtree(_)
Subtree(n) ==
    LET kids == SetToSortSeq(KidsOf(nodes, n), <)
    IN Tree(nodes[n].id, nodes[n].attr, [i \in DOMAIN kids |-> Subtree(kids[i])])

-----------------------------------------------------------------------------
(* A program that the parser accepts has its tree, the one of ast.h but for  *)
(* Deviations: nothing is lost, moved into another body or parsed twice that *)
(* Deviations does not name, whatever the flags podezrely_token and          *)
(* from_func_def carried from one function or statement to another.          *)
TreeIsProgram ==
    Accepted /\ Whole /\ Supported(program) => Subtree(1) = ProgramTree(program, Deviations)

(* A program is not rejected (the inputs are well-typed and declare what they *)
(* use).                                                                     *)
ProgramsAreAccepted == Whole /\ Supported(program) => exit_code = 0

(* An "end" that is missing between another "end" and an "else": the check of *)
(* the outer construct is content with the "end" of the inner one (README,    *)
(* divergences).                                                              *)
EndBeforeElse == {k \in 1..(Len(input) - 1) : input[k].spec = "end" /\ input[k + 1].spec = "else"}

(* What is accepted is a program of the grammar, but for such an "end".      *)
AcceptsOnlyPrograms ==
    Accepted => \/ IsProgram(input)
                \/ \E k \in EndBeforeElse : IsProgram(InsertAt(input, k + 1, input[k]))

(* The parser ends with a verdict on every input.                            *)
Terminates == <>(cont = <<>> \/ exit_code # 0)
=============================================================================

# A TLA+ model of the IFJ21 compiler

This directory specifies and verifies parts of the IFJ21 to IFJcode21 compiler of
this repository: a scanner, a recursive-descent parser, an operator-precedence
parser for expressions, a symbol table, a tree builder and a code generator, in C.
The modules are TLA+; TLC checks them on small instances and TLAPS checks the
proofs. Paths such as `symtab.c:238` are relative to `src/`.

## 1. The program and its parts

| Part | State | Operations | Talks to |
|---|---|---|---|
| Scanner (`scanner.c`) | stdin, a line counter, one pushed-back character | `get_token` fills a token; end of file repeats for ever | called by both parsers with a token of the caller |
| Recursive-descent parser (`parser.c`) | `token`, `token_lookahead`, `podezrely_token`, the tree, the C stack | `program`, `func_def`, `func_body`, `if_element`, `while_element`, `decl_element`, `assignment`, `item(s)` | scanner, precedence parser, symbol table, tree |
| Precedence parser (`precedence_parser.c`) | the tape `pp_list`, the linked stack, the postfix list `AST_list`, the list given back | `DLL_parse`, `parse_expression`, `reduce`, the 17 by 17 table | called by the recursive-descent parser; takes tokens from the scanner itself; reads types of variables in the symbol table |
| Doubly linked list (`structures.c`) | `first`, `last`, `active`, heap elements | insert, delete, move, read | carries tokens between the two parsers and the tree |
| Tree (`ast.c`) | nodes with growing arrays of children | `AST_add_child`, `AST_connect_DLL`, `AST_dll_to_tree` | built by the parser, read by the generator |
| Symbol table (`symtab.c`) | a stack of hash tables of variables, a hash table of functions, the uid counter | blocks, `define_var`, functions, parameters, returns, queries | both parsers |
| Code generator (`generator.c`) | label counters | walks the tree, prints IFJcode21 | tree |
| Dynamic string, errors (`dynamic_string.c`, `our_error.c`) | a buffer; nothing | append; `error(code)` ends the process | everyone |

The compiler is one thread and one process. What makes it hard is not concurrency
but **protocols between components that share data**:

* The precedence parser reads ahead. It takes tokens from the scanner until one
  cannot belong to the expression, and by then it has taken one or two too many.
  It hands them back in a list, in an order and number from which the caller infers
  *what* ended the expression (nothing: end of file; one token: a keyword, a comma, a
  datatype, the next statement; two tokens: a call). Meanwhile it overwrites the
  caller's lookahead.
* The automaton, its table, the `<` marks on its stack and the fifteen rules of
  `reduce` work only together. `reduce` pops into an array of three with a loop that
  has no bound but the next mark.
* Types and "this is a known zero" travel bottom-up in fields of stack elements, one
  reduction at a time.
* The tree is rebuilt from the postfix list by consuming it from its end, with
  recursive calls that share the list.
* The statement parser is a set of recursive functions that share two flags and two tokens.
  An expression takes tokens that belong to what follows it: the flag `podezrely_token` tells
  the next `func_body` that its first token is the *current* one, and an `end` is kept as the lookahead. The
  flag `from_func_def` announces a body to the next `func_body`.
* The scanner reads one or two characters too many and gives them back; all tokens share
  one dynamic string.
* The generator addresses the children of a tree node by number and puts names of variables and
  labels together from counters; functions are printed in line and jumped over.
* The symbol table changes data through pointers into chains that several names share,
  and a lookup depends on the order of blocks.
* A parameter list is a singly linked list whose insertion walks, and relinks, the list.

What must be true of each part:

* precedence parser: no stack or tape access out of bounds; exactly the sentences of
  the rules are accepted; the postfix form follows the precedences; types and errors 6
  and 9 are those of the whole expression; no token is lost; it ends;
* tree: it is the tree of the expression; its callers lose no expression and end;
* symbol table: a stack of scopes, with lookups from the inside out; living variables
  have distinct uids; functions do not vanish; parameters stay in their order (the code does not keep this, section 5);
* list: the two chains mirror each other; no dangling pointer; a sequence with a cursor;
* statements: the tree of an accepted program is the program's, whatever the flags carried from
  one statement to the next; programs are accepted and nothing else is; the tree has the children
  the generator addresses; the parser ends;
* scanner: the tokens are the lexemes of the longest-match rule, with the line they begin on;
  an error only where there is no lexeme; it ends;
* generator: the printed code does what the program says; control stays within functions; the functions
  that exist from the start do what their comments document.

The hazards that follow from this, each at its line, are in `PROJECT.json`.

## 2. The modules

| Module | Models | Correspondence |
|---|---|---|
| `Tokens` | `scanner.h`: types, specifications, which combinations the scanner builds | a token is a record `[type, spec, attr]`; line numbers are left out |
| `ExprTape` | the decisions of the collecting loop of `DLL_parse`: which token still belongs to the expression, and what the token that does not belong to it begins | `Cut` is the whole loop on a sequence: the tape, the list given back, how many tokens were taken; shared by `PrecedenceParser` and `Statements` |
| `PrecedenceParser` | one call of `DLL_parse` with `parse_expression` and `reduce` | `pc` is the place in the code; `Collect`, `GiveBack`, `GiveBackCall`, `EndOfFile` are the branches of the collecting loop; `Shift` (`=`), `MarkAndShift` (`<`), the four `Reduce...` actions, `TypeError`, `ZeroDivision`, `NoRule` (`>`), `Accept`, `Reject` are the rounds of the automaton's loop; `OffTable` is the read outside the table |
| `ExprReference` | *not code*: what the rules mean, top-down over whole sequences (`Reading`, a recursive function); documented types; values | the reference the parser is compared with |
| `ExprCall` | *abstract*: a call of `DLL_parse` in one step | from the tokens of the scanner to what is returned, given back and accepted; `PrecedenceParser` is checked to implement it (`ImplementsCall`), and `Statements` uses it |
| `ExprCorrect` | *properties* of the precedence parser against the reference | |
| `PrecedenceParser_proofs` | *proofs*: the automaton and its stack; conservation of tokens | |
| `ExprContract_proofs` | *proofs*: what a call of `DLL_parse` owes its callers | extends `PrecedenceParser_proofs` |
| `ExprReference_proofs` | *proofs*: the reference on its own: `Reading` exists, how the phrases compose, what a sentence looks like | |
| `ExprCorrect_proofs` | *proofs*: the automaton accepts, lists, rejects and types as the reference says; a call implements `ExprCall` | extends `ExprContract_proofs`, `ExprReference_proofs` |
| `ExprTree` | `AST_dll_to_tree`, `AST_add_child_rec_expr` | `kids` is the child array in its order, `rest` the list a call leaves to the next |
| `Expression` | the callers in `parser.c`: conditions of `if` and `while`, the item of a declaration, the items of an assignment or a return | composes `PrecedenceParser` (a `ParserStep` is a step of it) and `ExprTree`; `current` is their `token` |
| `Statements` | `parser.c` below `main`: programs, functions, bodies, statements | one action per function or per part of one between two calls; `cont` is the C stack: what is still to be done, each with its tree node; `token`, `token_lookahead` and both flags as in the code; `nodes` is the tree in the order of creation; the symbol table is a stack of scopes and two sets (`SymTab`); `DLL_parse` is one step |
| `ProgramReference` | *not code*: programs as data, their text, their tree, the grammar of the BNF comments as a recogniser. `ProgramTree` is the tree of `ast.h` but for the deviations it is given; `Deviations` names those of this compiler (section 5) | the reference `Statements` and `Generator` are compared with |
| `StatementsCorrect` | *properties* of the statements that compare them with the reference | what the tree owes to the generator is stated in `Statements` itself |
| `Statements_proofs` | *proofs*: the tree has the children the generator addresses; each step lessens a measure | |
| `Scanner` | `scanner.c`, character by character | `pc` is the function or loop `get_token` is in; an action is one round of it; `Take(n)` takes characters, `ungetc` is not taking one |
| `ScannerCorrect` | *properties* of the scanner, and *not code*: what a text means, by whole lexemes | |
| `Generator` | `generator.c` | one operator per function, from what has been printed and the counters (`g`) to the same after it; instructions are tuples |
| `IFJcode21` | *external*: the machine that runs the printed code | one action per kind of instruction; exit codes of the machine where an operand is missing or has the wrong type |
| `GeneratorCorrect` | *properties* of the generated code, and *not code*: what a program means | an interpreter of `ProgramReference`'s programs |
| `Scopes` | *abstract*: what `symtab.h` promises | a stack of sets of `<<name, type>>`, the declared and the defined functions |
| `SymTab` | `symtab.c` | one action per changing operation, operators for queries; a hash table is a function from buckets to chains; proved to implement `Scopes`, but for one return value (`EndBlockWithoutTable`) |
| `SymTab_proofs` | *proofs*: tables, lookups, refinement, functions | |
| `List` | *abstract*: what `structures.h` promises | a sequence and a cursor |
| `DList` | `structures.c` | a heap from addresses to elements; `malloc` returns any free address, so a dangling pointer could meet a later element; proved to implement `List` |
| `DList_proofs` | *proofs*: the heap represents a sequence; refinement | |
| `NaturalFacts` | *lemmas*: least elements and induction up to a number, for the proof modules | |
| `MCTokens`, `MC*` | constants for TLC | |

Operators whose comment begins with "Mutant:" are plausible bugs of the definition
that follows them; nothing uses them. They are kept to show that each property fails
when the code is changed that way (`PROJECT.json` pairs them).

Abstractions shared by all modules: allocation failures (error 99 by `malloc`) are left
out, texts of messages and line numbers too; attributes keep what the code compares.
In the parsers lists and the linked stack are sequences, which `DList` justifies for the
lists. Undefined behaviour is a choice: `OffTable` may reject or lead to the state
`undefined`, of which nothing is claimed; the value that `DLL_parse` returns for an
empty tape is any type; in `Statements` such a token may lead to any error of an expression or to
`UndefinedBehaviour`. An operation that would follow NULL (`end_block` without a block)
is not enabled, since no caller does it.

## 3. The runs

Each `.cfg` names its module's constants and what is checked. The longest takes about two minutes.

| Run | Checks | Shows |
|---|---|---|
| `expressions` (MCExpressions) | `TypeOK`, `HandleFits`, `PostfixIsReference`, `RejectsOnlyNonSentences`, `TypedAsDocumented`, `ZeroDivisionIsReal`, `LiteralZeroRejected`, `PostfixIsComplete` | three alphabets: an operator of each row of the table; operands of every type under every kind of operator; divisors built from literal zeros. The handle fits the array, the postfix form is complete and the reference's, error 2 means "not a sentence", the type is the one the comments of `reduce` document for the whole, error 6 only for an ill-typed one, error 9 only when the divisor is zero whatever the variables hold, and no division by a literal zero is accepted |
| `collect` (MCCollect) | `TokensConserved`, `ReturnContract`, `ImplementsCall`, `StepsProgress`, `Terminates` | keywords, datatypes, commas, calls, next statements and off-table tokens, up to 4 tokens: what is taken is parsed or handed back in order, in a form the caller can use; the automaton does what the one-step `ExprCall` says; every round lessens a measure; the call ends |
| `items` (MCItems) | `TreeIsExpression`, `NoExpressionDropped`, `CallerTerminates` | conditions and up to two items, with expressions of up to seven tokens in which operators are operands of operators: the tree is that of the expression (without `#`, see run `hash`), no accepted expression is dropped in front of a call, the caller ends |
| `symtab` (MCSymTab) | `TypeOK`, `TablesWellFormed`, `LookupIsInnermost`, `UidsUnique`, `ImplementsScopes`, `FunctionsStay` | three names and two functions in two buckets, three blocks, four parameters: the chains implement a stack of scopes, each operation doing what `Scopes` says of it; functions stay |
| `list` (MCList) | `TypeOK`, `WellLinked`, `ImplementsList` | every order of operations on up to four elements |
| `statements` (MCStatements) | `TreeIsProgram`, `ProgramsAreAccepted`, `AcceptsOnlyPrograms`, `GeneratorContract`, `CallsProgress`, `Terminates` | 3640 inputs: programs, and programs with one token missing; the tree is the program's (that of `ast.h` but for `Deviations`), nothing but programs is accepted (section 5), every step lessens a measure and the parser ends |
| `scanner` (MCScanner) | `TypeOK`, `TokensAreLexemes`, `LineNumbers`, `ScannerTerminates` | all texts of four to six characters over an alphabet for each part of the automaton |
| `generator` (MCGenerator) | `TranslationIsCorrect`, `BuiltinsAsDocumented`, `ControlStaysInFunctions`, `Finishes` | some hundred loop-free programs: the printed code writes, returns and ends as the program says |
| `relation` (MCCompare) | `RelationsAsDocumented` violated | `string < string` is error 6 |
| `hash` (MCClaims) | `HashIsUnary` violated | `#` at the root of an expression gets a second child |
| `parameters` (MCSymTab) | `ParametersInOrder` violated | the fourth parameter of a function removes the second |
| `while` (MCGenerator) | `LoopsAsDocumented` violated | a loop whose condition is false from the start crashes the machine |

### Bounds, and why they are enough

* `MaxTokens` bounds the tokens before the end of the file. A handle has at most three
  elements and the automaton compares two neighbouring operators, so five tokens
  (`a op b op c`) meet every pair of rows and columns; `#` and parentheses fit as well.
  Divisors such as `(0 - 0)` need seven; there the state constraint leaves out tapes with two
  operands or two operators in a row (`Alternating`), which end in error 2. Beyond the bounds the
  proofs of section 4 take over.
* `expressions` keeps a tape within one of its three alphabets (state constraint `Alphabets`) and leaves
  out tapes that compare a string (`StringsNotCompared`, `NoStringOnTheRight`): there the code is known to differ
  (run `relation`).
* The lexemes of a run are one per class the table or the rules distinguish. `*` stands
  for `/` and `//`, `<` for the other relations: they share their row and column classes
  in the table (`Shifts`, `Reduces`); where the rules differ (types) both divisions occur.
* `MaxItems` (items) is 2: one comma and the expression after it. `MaxItems` (symtab)
  is 4: the loop that relinks needs three items before an insertion. `LL_insert` says what that loop
  comes to; `MCSymTab` compares it with the loop, round by round, on up to five items.
* `items` keeps a tape within one of two alphabets (state constraint `Tapes`): everything that can begin,
  separate or end an item around short expressions, up to four tokens; and expressions of the first item of up to seven
  tokens (`MaxTokens` counts the word that ends them too), such as `n - 1 * n - 1`, `(n - 1) * n` and `n * (n - 1)`.
  The recursion that builds the tree calls itself for the first and for the second child, and the list it leaves
  to the second one depends on how much the first took. Of the long tapes the constraint leaves out those with two operands
  or two operators in a row, with more than one pair of parentheses, or without a word at the end: they end
  in error 2. It limits only which token comes next, and the end of the file is always allowed after a word, so that the tapes that
  remain come to their end.
* `Hash` puts all names but one into one bucket. In this build `HASH_TABLE_SIZE` is 1, so
  chains *are* shared. `BlocksOrLists` combines blocks with one function without parameters, and long
  parameter lists with no block: they lie in different tables.
* `MaxBlocks` and `MaxUid` are 3: a name, one that shadows it, and one in between.
* `Cells` has four addresses: an active element with a neighbour on each side, and one more.
* `Inputs` (statements): every statement alone and before every other one, every pair of a nested and a plain
  statement in both orders, nesting two deep; a second function after every body of up to two plain statements and after every
  nested one, so that flags left over by one function meet another; tokens are left out one at a time. Two statements in a row
  are enough because a function hands nothing to the next but the two tokens, the two flags and the
  scopes. What `Supported` of `ProgramReference` excludes is listed in section 5.
* `Texts` (scanner): each loop of the automaton is entered at least twice; escapes need four
  characters after the quote, a block comment with a lone bracket five.
* `Programs` (generator): every operator and relation on smaller, equal and greater operands;
  two operators; `substr` with limits below, at, within and above those of a string of five; branches two deep; functions with equal variable names, calls three deep;
  three statements of every kind in a row, which is what counters, frame and stack carry over.
  `Number` gives the literals their values; a float is held as twice its value, so that halves are exact.

`CHECK_DEADLOCK` is never switched off: where the program has ended the modules have an
explicit stuttering step (`Halted`, `ExprHalted`).

### Fairness

Every liveness property assumes weak fairness of the whole next-state relation only: the
compiler is one thread, it keeps running, and `getchar` and `get_token` come back, the latter returning an end
of file again and again. The same holds for the machine that runs the code. No fairness is needed of single actions.
`ScannerTerminates` shows what `Terminates` of the parsers takes from the scanner, with one
exception: a string literal cut off by the end of the file (`scanner.c:329`), where the loop takes
`EOF` for a character for ever. `Terminates` of the statements takes from the precedence parser that
`DLL_parse` comes back (`Terminates` of run `collect`).

## 4. What is proved

Every theorem holds for all values of the constants that satisfy the named assumptions: any set of
lexemes, any number of tokens, any hash function and number of blocks, a heap of any size, any
program text. The properties are the ones the runs check, unless the table says otherwise.

Assumptions:

* `LexemesAssumption`, `InputsAssumption`: the scanner delivers only what it can build (`Scanned`). The text of
  an operator, keyword or datatype is its name, as `create_operator_token` and `create_word_token` build it;
* `VarTypeAssumption`: each identifier has a type, `UNDEF` included;
* `MaxTokensAssumption`, `BoundsAssumption`: bounds are natural numbers (they may be arbitrarily large);
* `HashAssumption`: the hash function yields a bucket; `CellsAssumption`: the heap is finite and NULL is no cell of it;
* `AttributesAssumption`: a few strings the parsers write are attributes (the provers know no
  member of `STRING`).

### The precedence parser (`PrecedenceParser_proofs`)

| Theorem | Says |
|---|---|
| `TypeCorrect` | `[]TypeOK`: in particular the walk along the tape never leaves it and the stack never becomes empty |
| `HandleAlwaysFits` | `[]HandleFits`: whenever the table says `>`, a mark lies on the stack with one to three elements above it, so the unbounded pop loop of `reduce` stays within its array |
| `AcceptsOnlyOneExpression` | `[]AcceptsOneExpression` (no run): acceptance happens with exactly `$ E` on the stack, so the returned type is an expression's |
| `TokensAreConserved` | `[]TokensConserved`: no token is lost, duplicated or handed back out of order |

None of the first three is inductive. The invariant is `Inv == TypeOK /\ CollectInv /\ ParseInv`:

* `CollectInv`: while tokens are collected, the tape holds lexemes (with `nil` retagged);
* `TapeInv`: while the automaton runs, the tape ends with its only `$` and the current
  element is on it;
* `StackInv`, whose heart is `StackShape`: the stack starts with `$`; `Adjacent` says which
  symbol may lie on which; a mark is never on top; an inner `E` lies on a mark unless it is
  enclosed in parentheses; an `E` on top does not lie on a mark. In addition, with an `E` on
  top the input is no operand, `(` or `#`, and only at the first token is the stack just `$`.

`StackShape` is what bounds the handle: above the topmost mark there is an operator, an operand or
an `E`, which determines the next symbols, and at most three fit before the top. The clause about the input is
needed because the table would otherwise allow `E i` on the stack. The proof has a
lemma for each change of the stack (`StackMark`, `MarkAndShiftShape`, `ShiftShape`,
`ReducedShape`) and one per action (`ShiftInv`, ..., `BeginExpressionInv`); `NextInv` combines
them. `TokensAreConserved` uses `Inv` and a second invariant, `Conserved`: the property itself and
that nothing is given back while tokens are still collected.

### A call of `DLL_parse` (`ExprContract_proofs`)

| Theorem | Says | Invariant besides `Inv` and `Conserved` |
|---|---|---|
| `EveryStepProgresses` | `StepsProgress`: every step lessens a bounded measure | `Bounded`: no more than `MaxTokens` tokens are taken |
| `ReturnsAsAgreed` | `[]ReturnContract`: the list given back has the form the callers infer the next construct from | `Given`: that form from the moment the list is filled, and no token that ends an expression on the tape |
| `NothingIsDropped` | `[]NoExpressionDropped`: in front of a call no expression is accepted | `CallInv`: the tape in front of a call is empty or ends with an operator, on which the automaton fails when it meets `$` |
| `NoLiteralZeroDivides` | `[]LiteralZeroRejected`: no accepted expression divides by a literal zero | `ZeroInv`: a literal zero that ends the postfix list is the value of the topmost `E`, and the list so far contains no such division |
| `PostfixComplete` | `[]PostfixIsComplete`: the postfix list is one complete expression | `PostInv`: the list leaves as many values as there are `E` on the stack |
| `TapeIsCut` | `[]CutAsCalled` (no run): the collecting loop does what `Cut` of `ExprTape` says of the whole input, so that `Statements`, which uses `Cut`, takes the same tokens | `CutInv`: the property with the tokens taken so far, each of which belongs to the expression |

The measure of `StepsProgress` is the phase of the call and, within it, `Work`: the tokens not taken yet
while collecting, three times the tape not read yet plus the height of the stack while parsing. `PostInv` counts the `E` on the
stack (`Count`) and says that some function of heights witnesses that every operator of the list so far finds its
operands and that as many values remain (`Complete`); lemmas say what each reduction does to both. That the
recursive function in the property is that witness follows by induction along the list.

### The automaton and the reference (`ExprReference_proofs`, `ExprCorrect_proofs`)

| Theorem | Says |
|---|---|
| `AcceptsAsReferenceReads` | `[]PostfixIsReference`: what is accepted is a sentence of the rules, and the list is its postfix form under the declared precedences and associativities |
| `RejectsWhatReferenceRejects` | `[]RejectsOnlyNonSentences`: error 2 is raised only for a tape that is no sentence |
| `ZeroDivisionsAreReal` | `[]ZeroDivisionIsReal`: when error 9 ends the call, the divisor on the stack is zero or has no value, whatever the variables hold |
| `TypesAsDocumented` | `[]TypedAsDocumented` if `[]ComparesAsDocumented`: the type returned is the documented type of the expression, and error 6 is raised only for an expression without a type |
| `CallIsOneStep` | `ImplementsCall` if `[]ComparesAsDocumented`: a whole call of `DLL_parse` is one step of `ExprCall`, which `Statements` uses in its place |
| `CallWithoutStringComparisons` | both without a condition on the run, if no lexeme is a relational operator or no operand is a string |

Together: for a tape of any length, the 17 by 17 table with its marks and the handles of `reduce` decides the language
of the rules and writes its postfix form. Neither the table nor the code contains a grammar, so the invariant has to
supply what the stack *means*. Besides `Inv`, `Conserved` and `ZeroInv` it is

* `Chart`: there are positions on the tape and in the postfix list at which each stack element begins, and
  each element stands for what lies between its own and the next (`Stand`): `$` and the marks for
  nothing, a terminal for its token and nothing of the list, an `E` for a piece of the tape that the rule belonging to the row it lies on
  (`Phrase`: an operand of a multiplication is read by another rule than one of `..`) reads with exactly that piece of the list. Each operator of
  the piece that is outside all parentheses is one that the row shifts and that the symbol above reduces (`Covers`):
  this is what precedence and associativity come down to;
* `Shifted`: each mark was set for a symbol which its row shifts.

`ChartShift`, `ChartMark` and `ChartReplaced` say what a shift, a mark and a reduction do to a chart; the rules themselves are
lemmas about `Yields` in `ExprReference_proofs` (where the last operator of the lowest precedence lies in a phrase put
together from two, for instance). At acceptance the only `E` stands for the whole tape.

For rejection the other direction is needed: what a sentence looks like from the left. `Readable` collects it: neighbouring
tokens may follow each other, parentheses balance and never close too early, and no `..` has as its operand what the rules do not
admit there (`Clash`). That every sentence is `Readable` is shown by induction over phrases, and with the chart every
empty cell of the table, every token without a column and every handle that no rule fits (`Unfit`)
contradicts it (`RejectImpossible`, `OffTableImpossible`, `NoRuleImpossible`).

**Values and types.** `reduce` knows of an expression only the type and the attribute of the `E` that replaces it. The
reference evaluates the whole postfix list, to types (`TypesOf`) or, for each value of the variables, to fractions (`ValuesOf`).
`HoldsValues(m)` connects the two: in what the list so far evaluates to (`Feed`, fed token by token), the j-th value belongs to the j-th `E` of
the stack, in the sense of `Means`; for types that is equality, for values it is "an `E` whose attribute is "0" is zero or nothing".
Each reduction takes the last values and puts one in their place, just as it does with the symbols (`RuleCounts`).
`ZeroReal` keeps what error 9 has seen.

Error 6 needs more, since the call stops at once while the property is about the whole tape. A type
error is contagious (`NoneSpreads`, `SpoiledStays`), so it is to be shown that the expression around it goes on to contain it. The
argument is about the automaton freed of the types (`Standing`): whatever happens after the error, from a stack that stands for what was read of a *sentence* it always
has a next step (`FourCells`, with the lemmas for rejection), each lessens a measure (`CarriesOn`), and so it comes to the end with the postfix list of the
whole tape (`CarriesToTheEnd`). By `Reading` that list is the reference's, and the operand without a type is in it.

The condition `ComparesAsDocumented` says that where `reduce` reduces a relation, the type it gives is the one its comment names. That is a
condition on the code at fault (section 5, run `relation`), not on the input, and it concerns relations only: for every other operator
agreement is proved (`NontBinary` against `DocType`). `StringsAside` proves it for a relation of which no operand is a string, so
`CallWithoutStringComparisons` needs a condition on the lexemes only. The states of the run `expressions`, some of which
compare strings, also satisfy it.

**The call in one step.** `NextCalls` has a case for each action: collecting and reducing are stutters of `ExprCall`, and the
step that ends the call is its `Next`. What is taken and given back is `TapeIsCut`; that a tape is accepted or rejected rightly, with which list and
which type, are the theorems above.

`Reading` is defined by recursion over phrases. That such a function exists is proved (it is the limit of
the functions defined up to a length), not assumed.

### The symbol table (`SymTab_proofs`)

| Theorem | Says |
|---|---|
| `TypesStay`, `TablesStayWellFormed` | `[]TypeOK`, `[]TablesWellFormed`: in every table an entry lies in the chain of its key and no key lies twice |
| `LookupsAreInnermost` | `[]LookupIsInnermost` |
| `Refinement` | `Spec => ImplementsScopes`: every operation does to the represented scopes and functions what `Scopes` says of the operation of the same name, and returns the same, but for `end_block` on a table that no longer exists (section 5) |
| `BehavesAsScopes` | the same for a user who sees only scopes, functions and returned values (no run): a behaviour of `SymTab` is one of `Scopes`, but for that step |
| `FunctionsAreKept` | `FunctionsStay`: no step loses a declaration or definition, also of another function in the same chain |

`IInv == TypeOK /\ TablesWellFormed` is inductive, and neither part is without the other: what `find`
returns, and where a new entry goes, depend on both.

That living variables have distinct uids (`UidsUnique`) is no theorem: a uid is the name with the count after it, and
`x1` with 0 is `x` with 10. The run `symtab` checks it for names that do not end in a digit; its module says so
as an assumption on them (`UidsDistinct` of `MCSymTab`).

### The list (`DList_proofs`)

| Theorem | Says |
|---|---|
| `Refinement` | `Spec => ImplementsList`: every operation on pointers does to the represented sequence what `structures.h` promises |
| `TypesStay` | `[]TypeOK`: no pointer dangles |
| `StaysWellLinked` | `[]WellLinked`: the chains mirror each other and hold every allocated element once |

The invariant `IInv` says that *some* sequence of distinct cells is represented (`Chain`): the heap is exactly
those cells, the next and previous pointers are the neighbours in it, `first` and `last` its ends, and `active`
a place in it or NULL. `TypeOK` and `WellLinked` follow from it. `WellLinked` follows chains by recursive functions, and so does the refinement mapping;
that these find the sequence is shown by induction along it. Each operation has one
lemma that names the sequence after it.

### The statements (`Statements_proofs`)

| Theorem | Says |
|---|---|
| `TreeServesGenerator` | `[]GeneratorContract`: in the tree of an accepted program a branch has an expression and two bodies, a loop an expression and a body, an assignment variables and then what is assigned, and so on: what `generator.c` addresses by number without looking |
| `StatementsProgress` | `CallsProgress`, and that its measure consists of natural numbers: each step that is no error reads a token, or deals with the suspicious token, or calls an item, or leaves less to be done; so the functions of `parser.c` cannot call one another for ever, on any input and beyond its end |

`GeneratorContract` is about the accepted tree only. The invariant `Good` describes the tree while functions
still work on it, and what may be on the C stack with it:

* `IsTree`: a parent is older than its child;
* `IsStack`: a function is given a node of its kind (`Given`), functions further down work on older nodes, and only
  the pairs of `Later` share a node (a body and then the `else`, an item and then the other items);
* `Announces`: `from_func_def` is set only when the next thing to do is a `func_body`, so it can only reach the body it
  announces;
* `BodiesOpen`: any other `func_body` under way finds as the last child of its node the body it adds to;
* `Shape`: the children of a node of each kind, in terms of what is still open on the stack.

`NextInv` has one lemma per action. Those rest on lemmas for the ways an action may change the tree and the stack
(`OneNodeStep`, `TwoNodesStep`, `QuietStep`, `ReturnOpen`), which come down to `GoodStep`: a new child
disturbs the shape of its parent only.

`CallsProgress` compares `Left` before and after a step: four numbers, the first of them that differs must be smaller.
The first is the number of tokens left (`Rest`). A step that reads none may clear `podezrely_token` (`func_body`,
which then starts at the token read before), call an item, or put functions on the C stack that together weigh less
(`Weight`) than the one that called them. Reading lessens the first number because the lookahead is the end of the file
only when every token was delivered (`Reads`); `DLL_parse` takes at least one token that it does not give back, since an item or condition
that returns has a tape and a token behind it (`CutFacts`, `ParsedReads`). `Begun` adds that `program` is called once.
There is a lemma `...Advances` for each action, and they rest on one for each way to lessen the measure (`ReadAdvances`,
`ReturnAdvances`, `ItemGoes`) and on `LoadOfCall`, which counts the weight of a stack.

### How the proofs go about induction

The library's induction theorems take a predicate as a parameter, which the provers installed here cannot
instantiate. `NaturalFacts` has the same for *sets* of numbers (`Least`, `UpTo`), which suffices where the
induction is over the length of a stack, a chain or a list.

**Only model-checked**:

* liveness (`Terminates`, `CallerTerminates`, `ScannerTerminates`, `Finishes`): out of the prover's reach.
  `EveryStepProgresses` and `StatementsProgress` prove the part of `Terminates` that fairness does not supply;
* the types of expressions in which strings are compared: `TypedAsDocumented` is no theorem of these, since `reduce` gives
  some another type than its comments name (section 5). The run `expressions` leaves most of them out;
* `TreeIsExpression`, `TreeIsProgram`, `ProgramsAreAccepted`, `AcceptsOnlyPrograms`: a tree is what a recursive definition makes of a list, and that
  it does so for every list needs induction over lists; `ProgramReference` consists of recursive operators over programs, with which a
  module cannot contain theorems;
* the scanner: its tokens are put together character by character from strings, of which the provers know nothing, and are compared with a
  recursive reading of the text;
* the generator: recursive operators from trees to instructions, and a machine that interprets them.

## 5. Divergences found

With a run:

1. `precedence_parser.c:266`: a comparison tests the left operand for an integer where it
   means a string; the comment at `:261` allows `string < string` (`relation`).
2. `ast.c:220`: whether an operator is unary is decided by looking at its *child*, so `#`
   at the root asks for a second operand (`hash`).
3. `symtab.c:237`: the loop of `LL_insert` assigns `tmp->next` where it should move `tmp`: from the fourth insertion on,
   the items between the first and the last are lost, while the count grows. `symtab.h:99` says that parameters are
   inserted in their order, and `symtab.h:112` and `:122` that they are read by position (`parameters`).
4. `generator.c:794`: the variables of a loop's condition are defined after the body: the first
   check of the condition finds them undefined, the third defines them again (`while`).

Modelled as the code does it, without a run of their own. Expressions, symbol table, list:

5. `precedence_parser.c:285`: the same slip as 1 for `==` and `~=`; the comment at `:280` allows
   two strings.
6. `precedence_parser.c:336`: a lone undeclared variable is accepted with type -1; the list of
   codes in `our_error.h:15` makes it error 3. Inside an operation it is error 6.
7. `precedence_parser.c:467`: `:` and `=` stay on the tape and index the table with 35
   (`OffTable`); the comment at `precedence_parser.h:24` says tokens that do not belong to an
   expression are removed.
8. `ast.c:259`: a condition without an expression ends in error 99, which
   `our_error.h:22` reserves for failures of the compiler itself (`ConnectFails`).
9. `ast.c:215`: the first child is the right operand; `ast.h:26` says left. A relation is an operation; `ast.h:25` has
   conditions of their own.
10. `symtab.c:781`: `end_block` on a table that no longer exists returns -1; `symtab.h:30` and the comment above
    the function say 0 (`EndBlockWithoutTable`; no caller does that).
11. `symtab.c:1050`: `set_return_type` inserts into the parameters (the function has no caller).
12. `structures.c:68`: `DLL_GetFirst` assigns its parameter, so the caller's token stays as it was
    (the function has no caller).

Statements (`Supported` of `ProgramReference` leaves 13 to 19 out of the properties):

13. `parser.c:677`: `items()` raises error 2 for the identifier that begins the next assignment,
    which `DLL_parse` hands back for exactly that purpose (`precedence_parser.c:562`).
14. `parser.c:643`: after an expression that ends a `then` part the token after `else` is read on, and
    `else` is lost: error 2.
15. `parser.c:369`: an expression followed by a `return` without values loses the `return` and leaves
    `podezrely_token` set for what comes next.
16. `parser.c:590`: a bare `return` followed by an identifier takes it for its value; `return nil`, `return (x)` and
    `return #s` are rejected.
17. `parser.c:626`: a call is accepted only as the last item.
18. `parser.c:306`: a function without statements gets no body node, which `generator.c:618` addresses (as child -1).
19. `parser.c:340`: parameters after the first become children of the first, and none is defined as a variable, so
    that a call with a parameter as an argument is error 3 (`parser.c:534`).
20. `parser.c:498`: where an inner construct ends directly before `else`, the missing `end` of the construct around it is
    not noticed (`EndBeforeElse`).
21. `parser.c:534`: `nil` is no argument; undeclared targets of assignments and undefined functions in calls within
    functions are accepted (errors 3 in `our_error.h:15`); variables stay visible in later functions, since no block ends.
22. `parser.c:361`: every statement starts a block of its own and none is ended, so a redefinition, error 3 in
    `our_error.h:15`, is never found.
23. The tree is not that of `ast.h` in five places, `Deviations` of `ProgramReference`. `TreeIsProgram` says that it is in all
    others; it does not say that these five are right:
    * `ast.h:22`: a `func_def` has no child for the returns and none for the parameters; its children are the variables of the parameters and
      the body (`parser.c:221`, `:320`; `generator.c:608` reads them so, but see 30);
    * `ast.h:29`: a call among items has its name only; it follows once more, with its arguments, as a statement (`parser.c:626`, `:646`);
    * `ast.h:29`: a call without arguments within a function has an empty body for a child (`parser.c:514`);
    * `ast.h:27`: a `var_declare` has the value of the variable as a child where the table lists none;
    * `ast.h:28`: an `assign` has no count (`parser.c:735`).

Scanner:

24. `scanner.c:329`: a string literal cut off by the end of the file is read for ever (`InString`).
25. `scanner.c:503`: a newline directly after a lone `]` in a block comment is not counted, and the line to report starts
    again at a lone `]` (`LoneBracket`).
26. `scanner.c:275`: `\ddd` loses its backslash and stays as three digits; control characters and bytes above
    127 are dropped.

Generator (the meaning of such programs is `Unknown` or `Lost` in `GeneratorCorrect`, which then claims nothing):

27. `generator.c:443`: with an integer on the left and a float on the right the converted operand has another name than the one used.
28. `generator.c:408`: `#` and `..` compare the operand itself, not its type, with "string": error 6.
29. `generator.c:413`: `/` on integers ends with the machine's 53; a division by zero with its 57, since nothing
    jumps to the label of error 9 (`our_error.h:21`); an operand `nil` with 53 where error 8 is documented (`our_error.h:20`); a relation
    within an expression prints nothing.
30. `generator.c:565`: an argument is pushed under the name of the called function, and parameters are not
    popped, since the last *two* children are taken for the body (`generator.c:613`); a call without arguments within a function
    pushes one value too many (its empty body).
31. `generator.c:590`: the number of targets of a call is half of the others, so `x = f()` assigns nothing; the call itself is
    made again as a statement; a parallel assignment is done one after another.
32. `generator.c:680`: a condition that is no relation reads a variable that is never defined; `generator.c:738`: `<=` in a
    loop jumps to a label that does not exist.
33. `generator.c:608`: a function named `_integrated` meets a label of the generator's own.
34. `generator.c:133`: the comments give `substr` the bounds `1 < i < j < #s` (`:138` and `:159` repeat `j < #s` and `i < j`); the code counts
    the limits in and returns a character or more for `i = 1`, `i = j` and `j = #s`, as the comment at `:153`, by which `i` minus
    one is the 0th index at least, has it. `BuiltinsAsDocumented` claims the documented value but at these limits (`AtALimit`).

## 6. Not modelled, and what is left

* A composition of `Scanner`, `Statements` and `Generator` from text to output: each is checked against the
  reference that the next one starts from (`Scanned`, `Text`, `ProgramTree`), so that a
  composition would repeat them on far smaller instances.
* Loops in the generated code are only checked to be wrong (run `while`); with the definitions in
  place `TranslationIsCorrect` would cover them.

Left out for good: the growing of the dynamic string and of the array of children (allocation
only), the spelling of numbers and escapes in the output, the debug printers and the uncalled test driver of the
precedence parser, `declare_function2` (no caller).

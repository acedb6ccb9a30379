# Verification of yog

yog (`src/`, C) compiles and runs programs of a small imperative language. One
process reads a source file, parses it, analyses the tree, and interprets the
three-address code it has emitted when no error was found. This directory
holds TLA+ models of its parts, the runs that check them with TLC, and proofs
that TLAPS checks.

- `tlc -workers 2 -config X.cfg M` runs a configuration `X.cfg` of module `M`
  (`PROJECT.json` lists the pairs),
- `tlapm M.tla` checks the proofs of `ScannerProofs`, `ParserProofs`,
  `SymbolTableProofs`, `ErrorListProofs`, `SemanterProofs`,
  `TranslationProofs`, `InterpreterProofs` and `YogProofs`.

Paths below are relative to the repository (`src/parser.c` is the parser).

## The system

Everything runs in one thread. `main` (`src/yog.c`) drives the phases one
after the other; they share the symbol table and the error list.

| Component | State | Operations | Talks to |
| --- | --- | --- | --- |
| main (`yog.c`) | the locals of `main` | parse, analyse, run or show errors, clean up | all |
| scanner (`scanner.c`) | lookahead character, location | `lex` | interns identifiers in the symbol table, reports to the error list; called by the parser |
| parser (`parser.c`) | lookahead token, the C stack | `parse`, one function per nonterminal, three error recoveries | calls `lex`, builds the tree, reports errors |
| tree (`ast.c`) | nodes on the heap | make, add a child, clear | built by the parser, read by the analyser, freed by main |
| symbol table (`symtable.c`) | buckets of linked symbols, a count | init, find, add (and rehash), clear | symbols are shared by pointer with tokens, tree, code |
| analyser (`semanter.c`) | instruction list, temporaries counter, the C stack | one `analyse_` function per nonterminal | types symbols, reports errors, emits code |
| instruction list (`instruction.c`) | a block that is reallocated as it grows | add, clear | filled by the analyser, read by the interpreter |
| interpreter (`interpreter.c`) | program counter, temporaries, the values in the symbols | one `execute_` function per instruction | standard input and output |
| error list (`error.c`) | a linked list with a tail | add, show, clear | written by scanner, parser, analyser; decides whether the program runs |
| helpers (`common.c`) | none | allocation that succeeds or ends the process, assertion | all |

There is no concurrency, no persistence and no message passing, so crashes,
lost messages and races are not among the hazards. What makes the behaviour
hard:

- **Recovery.** The parser never stops at an error: it invents tokens
  (`replace_token`), skips tokens, and builds a tree in any case. The analyser
  runs on that tree too, and follows its children by position without a check.
- **Lookahead.** Scanner and parser each hold one symbol more than they have
  used. What ends a token begins the next one, unless the token is invalid.
- **Pointers that outlive their target.** The analyser holds pointers into the
  instruction list while nested statements make it grow and move. Tokens and
  tree hold symbols while the table rehashes.
- **Code that is trusted.** The interpreter checks nothing but a zero divisor:
  operands, labels and the life of temporaries must be right by construction.
- **Errors as control.** The list of errors is what keeps a broken program from
  being run. An error that is not reported is a program that runs.
- **Numbers.** 64-bit arithmetic, literals through `atoi`, tokens of at most
  31 characters, rows and columns that wrap around.

What makes each part correct:

- scanner: each character belongs to one token, error, comment or blank, and
  each token is at the row and column that it names;
- parser: accepts exactly the grammar; returns on every input; leaves a tree
  that the analyser can walk and `ast_clear` can free; reports whatever it
  repairs, in source order;
- symbol table: one symbol per identifier, for ever, whatever is rehashed;
- analyser: accepts exactly the programs whose variables are declared once;
  emits code that the interpreter can run, with every jump resolved;
- interpreter: stays inside its code and its temporaries, and does what the
  source program means;
- error list: holds what was reported, in order; main: runs a program exactly
  when nothing was.

## The modules

| Module | What it is |
| --- | --- |
| `Scanner` | `scanner.c`, one action per way through the loop of `lex` |
| `ScannerProps` | its properties, with the lexemes of a text defined without an automaton |
| `TokenStream` | what the parser takes the scanner for |
| `ScannerProofs` | its inductive invariant and theorems |
| `Ast` | tokens, the tree as a heap of nodes, `Readable` and `Analysable` (what `semanter.c` takes for granted of a node, of a tree), `Orderly` (where it finds the names and the subtrees) and `Cleared` (what `ast_clear` frees) |
| `Parser` | `parser.c`, one action per parse function |
| `ParserProps` | its properties |
| `Grammar`, `ParserGrammar` | the grammar of `include/parser.h` by leftmost derivations, and the parser compared with it |
| `ParserInv`, `ParserProofs` | the inductive invariants and the theorems: the functions on the stack, the tree as a whole, the grammar |
| `SymbolTable` | `symtable.c` at the level of pointers, one step per symbol visited |
| `Interner` | what the symbol table promises, in one action |
| `SymbolTableProps`, `SymbolTableProofs` | its properties and the refinement mapping, its inductive invariant and theorems |
| `Code` | the three-address code, and `Executable`: what makes a code one that can be run unchecked |
| `Semanter` | `semanter.c` with `instruction.c`, one action per analyse function |
| `SemanterProps` | its properties |
| `SemanterInv`, `SemanterProofs` | the inductive invariants (code and labels, names, control flow), what a step of the analyser may do, and the theorems about code, labels and names |
| `Translation`, `TranslationProofs` | what the code of each kind of node is; the theorems about what the code is and where control goes |
| `Interpreter` | `interpreter.c`, one action per kind of instruction |
| `InterpreterProps`, `InterpreterProofs` | its properties, its inductive invariant and theorems |
| `ErrorList` | `error.c` at the level of pointers, one step per error visited |
| `ErrorLog` | what the error list promises |
| `ErrorListProps`, `ErrorListProofs` | its properties and refinement mapping, its inductive invariant and theorems |
| `Meaning` | what a source program means: no code, no temporaries, no jumps |
| `Yog` | `main`: composes `Semanter` and `Interpreter` over the shared instruction list |
| `YogProps` | its properties, the refinement of `Meaning` among them |
| `YogProofs` | theorems about the whole: analyser and interpreter put together, and that yog implements `Meaning` |
| `MCParser`, `MCGrammar`, `MCTrees`, `MCSemanter`, `MCInterpreter`, `MCYog` | the tokens, trees and codes of the TLC instances |

Three interfaces tie the modules together. `TokenStream` is refined by the
scanner and is the environment of the parser. `Analysable` and `Orderly` are
proved of every tree that the parser returns, and are all that the analyser
assumes of its trees: the first says which children its functions find at the
positions that they dereference, the second that there are no names and no
subtrees at any other positions, and that the links lead forward and part. `Executable` is proved of every code that the analyser hands to the
interpreter from a list that has stayed in place, and is the assumption of the
theorems about the interpreter.

### Scanner

One step is one way through the body of the loop in `lex`: `Advance` goes on,
`ReportInvalid` and `ReportTooLong` report an error and go on, `Deliver` and
`DeliverEof` return. `NextState` is `Transition_Table`, `Class` is
`identify_char`, `Enter` is the end of the loop with its cursor, buffer and
`fgetc`. The file is read lazily: `fgetc` delivers any character of `Chars`,
or the end; the byte 255 becomes the end too, since both are -1 in a `char`.
The null character stands for an empty lookahead as it does in C, and may
occur in the source. `source`, `from` and `out` are history: what was read,
where the text began, and everything that was reported or returned.

`Atoi` is nondeterministic where C leaves the result undefined. Rows and
columns are taken modulo `Sizes`, the number of values of a `size_t`.

`FindsTheLexemes` compares the outcome with `Lexemes`, a definition by longest
match: where the longest lexeme ends, whether it clashes with the character
behind it, and how far an invalid text goes. It is a function of the source
alone and knows no states, so that the two can disagree.

### Parser

The C call stack is the variable `stack`: an activation is the node that a
function is building and the step it will execute next. A call pushes an
activation with a new node; a return pops it and adds the finished node to the
caller's, which is `ast_add_child(tree, parse_x(ctx))`. The functions that run
straight through are written as scripts (`BranchScript` is the body of
`parse_branch`, in order) interpreted by one action `ParseScript`; those with
loops and choices have actions of their own. `ExpectToken`, `AcceptToken`,
`ReplaceToken` and `SkipToken` are the C functions and the recovery in the
loops.

The scanner is the environment. `NextToken` delivers any token of `Alphabet`
after any number of lexical errors of `LexicalErrors`, and EOF for ever at the
end. A location is the place of the token in the order of the source: the
lexical errors in front of a token have places of their own. That the scanner
delivers nothing else is `ScannerProps!ImplementsTokenStream`. A token that the
recovery invents carries the location of the lookahead token and a null
symbol; through the union of `token.h` it is a literal 0.

### Symbol table

`heap` is the sequence of the allocated symbols, a pointer its index, 0 the
null pointer. The loops of `find`, `rehash` and `clear` make one step per
symbol, with the locals of the C functions in `tmp`, `i`, `sym`, `fresh`.
`Find` is the call from `make_token_word`, which adds the symbol when it was
not found. `hash` is any function from identifiers to hash values: the table
of `hash_str` is not modelled, and nothing depends on it. `held` (the tokens
returned), `freed` and `arrays` record what the environment sees.

`Interner` is the abstract specification: an identifier gets a symbol that
nobody has, once, and keeps it. `SymbolTableProps!ImplementsInterner` maps it
to `held`, that is, to what has been handed out, and not to the chains.
Identifiers stand for their symbols in the other modules. That is what this
refinement allows.

### Semantic analyser

The same picture as the parser's: an activation has the node, the step, the
operands that its calls have returned, its pointers into the instruction list
and the start label of a loop. `declared` is the type and the location of each
symbol in one (0 is `SYMBOL_UNKNOW`). A field that the C code leaves unset
holds `Unset`.

The instruction list has an address, `block`. `Enlarge` is the reallocation in
`instruction_list_add`: the address changes or stays, a choice of `Moves`.
`Patched` is the write through a pointer: it reaches the list only when the
block is still where the pointer was taken. (In C a write to the old block is
undefined. That the list does not get the label is the least that happens.)

### Interpreter

One step per instruction; `ExecuteArithmetic`, `ExecuteSign` and
`ExecuteCompare` stand for the functions that differ in their operator only.
An `int64_t` is `-MaxInt - 1 .. MaxInt`, for any `MaxInt`. Overflow of a sum,
difference, product or negation wraps around, which is what the instructions
do that these undefined operations compile to; the quotient that does not fit
kills the process where `DivTraps` holds (x86) and wraps around elsewhere. A
temporary is `Uninit` until it is computed, and reading one then yields any of
`Garbage`; so do the variables at the start. A failed `scanf` leaves the
variable as it was. It may consume a lone sign, and the next call then may find
a number; but what cannot begin a number stays, as does the end of the input,
and every later call fails too: a failed read leaves `input` open, or sticks for
ever. `output` keeps the last number and
a parity, which makes a missing or a doubled `write` visible in a finite state.

### Error list

Errors on a heap, linked; `tail` as in C, so that it dangles while
`error_list_clear` runs. The loop that names the expected tokens makes one
step per bit of the mask, up to `TypeMax`; the mask is the number of its bit.
That the shift does not overflow is not modelled, and needs no model:
`token_type_t` has 64 bits, and `TOKEN_TYPE_MAX` is `1ull << 28`. `ErrorLog` is the abstract
specification: a log that is shown from its beginning, in order, and released
as a whole before it is used again. The other modules use the list as that
log: `errs` is a sequence, its emptiness what `main` tests.

### Main, and the meaning of a program

`Yog` has the variables of `Semanter` and of `Interpreter`, which share
`instrs` and `tmp_cnt`, and the place of `main`. Analysing and executing are
actions of the two instances; `Open`, `Start`, `Refuse`, `Shown` and `Cleanup`
are what `main` does between them. Scanner and parser come in through their
result: a tree, and the number of errors in the text (`parsed`), which is not
0 when the tree was repaired.

`Meaning` gives a tree its meaning statement by statement and decision by
decision. An expression has an outcome, a number or a way to end the process,
defined on the tree; the rest of the execution is a sequence of statements,
`todo`. `Yog` carries `todo` as a history variable that follows the
instructions (`Followed`): an assignment, a read or a write completes a
statement, a branch decides one, everything else is a stutter. `turn` flips with
every decision, in `Meaning` and in `Yog`: a loop with an empty body would
otherwise go on without a change, and could not be told from a process that
hangs. Under this
mapping `ImplementsMeaning` says that the code computes each number, takes
each decision and ends as the source says; `NeverStuck` that it goes on doing
so. The abstract machine shares no
definition with the code: it wraps around by congruence and divides by
remainder, where the interpreter uses the formulas.

## The runs

| Run | Instance | Shows |
| --- | --- | --- |
| `scanner` | sources of up to four characters out of fifteen, a buffer of three | the lexemes, texts and locations are right; `lex` returns; implements `TokenStream` |
| `literal_wrap` | literals of two digits, an `int` of five bits | *violation*: a literal beyond the range of `int` has another value, though its field has 64 bits |
| `recovery` | every token of the language, sources of up to five places, up to one lexical error per call of `lex` | the tree is readable, linked, finite and freed once; a null symbol occurs in `read` only; errors are in source order; the parser returns |
| `grammar` | one token per syntactic class in sources of up to eight, control structures up to fourteen, stop at the first error | a source is accepted exactly when it is a program, and the tree then holds exactly its tokens |
| `trailing_tokens` | the same, six tokens | *violation*: tokens behind the last `end` are ignored |
| `symbol_table` | four identifiers, all functions to three hash values, 2 to 8 buckets | no symbol is lost or doubled through two rehashes; load, clear, termination; implements `Interner` |
| `array_leak` | the same | *violation*: a rehash leaks the old bucket array |
| `semanter` | short programs with five declaration parts, good and bad, with recovered nodes; control structures two deep and in sequence; the list may move | errors are reported when and where they should; accepted code has its operands; as long as the list stays in place, labels are resolved, temporaries local to straight-line code, code connected |
| `dangling_label` | a `while` with eight `write`s | *violation*: the label of the loop is lost when the list moves |
| `interpreter` | the executable codes of up to four instructions out of a list of some twenty, three bits | the interpreter stays in its bounds and reads no temporary that was not computed |
| `error_list` | up to three errors of two kinds, every set of three expected tokens | all errors are shown in order, each is freed once, calls return; implements `ErrorLog` |
| `yog` | programs of one to four statements over one variable, in three bits; refused programs | only trusted code is run; implements `Meaning`, and never stops half-way |

Bounds, and why they are enough:

- `Scanner`: the longest way of the automaton from one token to the next is an
  invalid text, the character that ends it, and the first character of the
  next token, so that four characters hold every pair of a state and a class.
  `TextSize = 3` (32 in C) lets a text reach, and pass, the end of its buffer;
  the source is then at its end, so that no token follows the character that is
  dropped with the text (`LexemesAlwaysFound` covers what follows).
  `Sizes = 3` makes rows and columns wrap around. `MaxEofs = 2` calls `lex`
  once more after the end. The theorems have none of
  these bounds.
- `MaxTokens` ends the source of the parser. An error is local to one parse
  function and one lookahead token, and the recovery has no state but the C
  stack, so that the five tokens of `recovery`, which include every pair of an
  expectation and a token, show every repair. The theorems have no such bound.
  `grammar` needs fourteen tokens for a control structure inside another; only
  sources of the control structures get longer than `MaxMixed`.
- `MaxErrors = 0` makes the source end after the first error: from then on it
  is refused whatever follows. In `recovery` it is larger than the number of
  errors that can occur.
- The symbol table starts with 2 buckets and stops at 8, in place of 4 and
  256. Two rehashes happen at the second and the fourth symbol, and the table
  is then at its maximum, with no identifier left: that growth stops there is
  never put to the test by TLC, but `LoadAlwaysBounded` is proved for any number
  of identifiers. The three hash values 0, 2 and 7 collide in two
  buckets and part in four; equal ones collide for ever.
- The trees of `semanter` contain every kind of node, both orders of nesting
  of any two control structures, and the empty body. The code grows up to 21
  instructions, past two reallocations at the `Growth` of 8 of the source.
- Four instructions are enough for a loop with an exit around the definition
  and the use of a temporary. Each operation of the interpreter that differs in
  its operator only is represented by one or two. The theorems hold for every
  code.
- The programs of `yog` use every operator, comparison and statement, every
  two simple statements in sequence, and every control structure around
  another. In three bits (`MaxInt = 3`) sums, products, the negation of the
  least number and its division by -1 overflow; the user enters a number that
  fits, one that does not, or none, once or for ever. Bodies may be empty:
  `while (a < 1) begin end` goes on for ever with its decision alone.
- Three errors have a first, a last and one in between, and `error_list` makes
  three in any grouping by shows and clears.

Deadlock is not checked in `interpreter` and `yog`: the process ends, and a
division that cannot be done ends it too. What may not happen there, that it
stops in between, is `NeverStuck`.

Fairness. `FairSpec` of the parser, scanner, symbol table and error list
assumes that a function that can go on does: the program is sequential and
waits for nothing but the file. Nothing is assumed about calls that the
environment may or may not make. `Yog!Spec` assumes that the process runs, and
that the user answers or ends the input; then an execution goes on for ever or
ends (`Progress` of `Meaning`). The runs without a liveness property use the
specification without fairness.

## What is proved

For every value of the constants, under the assumptions named in the modules.
Each property was checked by TLC on a small instance before it was proved, and so
were the invariants, but for `GrammarInv`, which speaks of all sources, and
`CourseInv` with `TranslationInv`, which speak of some translation of the tree.

`ParserProofs`, for every choice of identifiers, literals, `Alphabet`,
`LexicalErrors` and bounds, from `AttrAssumption` (attributes are told apart)
and `ParserAssumption` (the alphabet consists of tokens):

- `TypeCorrect`: `Spec => []TypeOK`;
- `TreeAlwaysReadable`: `Spec => []TreeReadable`, every node that a parse
  function has returned has the children that the analyser dereferences, so
  that the missing checks of `semanter.c` are justified for every source file;
- `ErrorsAlwaysInSourceOrder`: `Spec => []ErrorsInSourceOrder`.

`TreeReadable` speaks of finished nodes only, and is not inductive: whether a
node is complete when its function returns depends on what it had at each step
before. The invariant `ParserInv!IInv` says, for every activation on the
stack, which children its node has before step k (`FramesProgress`, one
predicate per kind of function). A caller's step counts the call as done while
the callee still runs, so that its node is looked at with the callee's pending
node as one more child (`Pending`). `StackOrdered` (a callee's node is younger
than its caller's) makes the nodes on the stack distinct, hence one step
changes only one of them. The proof has a lemma for each primitive (`CallStep`,
`ReturnStep`, `AcceptStep`, `ReplaceStep`, `SkipStep`) and one for each action
that applies them. The order of the errors needs that every error so far is at
or before the lookahead token.

The second half of `ParserProofs`, under the same assumptions:

- `TreeAlwaysLinked`: `Spec => []TreeLinked`, every finished node but the root
  is the child of one node, with a higher address than that node and of the
  kind that the link says, so that the heap is a tree and not a graph;
- `NullSymbolsOnlyInRead`: `Spec => []NullSymbolOnlyInRead`;
- `TreeAlwaysAnalysable` and `TreeAlwaysOrderly`: the tree that `parse`
  returns is `Analysable` and `Orderly`, the second interface above;
- `TreeAlwaysFreedOnce`: `Spec => []TreeFreedOnce`, `ast_clear` frees every
  node, and none twice, however the tree was repaired;
- `TreeAlwaysExact`: `Spec => []ExactUnlessReported`, a tree that was built
  without an error holds exactly the tokens of the source, in their order.

`NextHeap` first reduces every action to what it does to the heap and the
stack: it adds a terminal, begins a node, finishes one, begins the root, or
keeps both (`HeapStep`). The invariant `TreeInv` then needs to be shown for
these five only. That a finished node is not linked twice rests on
`StackOrdered`, which keeps the nodes on the stack apart. That an assignment
never invents its variable rests on `AssignAtIdentifier`: `parse_assign` is
called at an identifier, and its first step finds the same token.

`Cleared` is a recursion over the tree. What it computes is found by a
counterexample that is as small as possible, in place of an induction
(`Smallest`): since links lead to higher addresses, the node with the highest
address for which the function does not return what it should has children
for which it does. That the recursive function exists at all, which is what
its definition by `CHOOSE` leaves open, is shown in the same way (`Iterated`).

`TreeAlwaysExact` is about another recursion, `Fringe`. Its invariant
(`SpellInv`) holds until the first error is reported: every node has a span,
from its first place to the place behind its last; the spans of the children of
a node lie side by side (`Abuts`); and the span of the node that is being built
ends at the lookahead (`Onward`), so that nothing was read which no node
holds. That `Fringe` of a node is the stretch of places of its span then follows
from the last node to the first (`NodeSpells`, `TreeSpells`), again by way of a
smallest counterexample.

The last part of `ParserProofs` is about `ParserGrammar`, under the same
assumptions:

- `ParserDecidesTheGrammar`: `GrammarSpec => []ParsesTheGrammar`, for every
  stream of tokens `parse` ends without an error exactly when `lex` reported
  none and the tokens consumed are a program of the grammar.

`Grammar` defines by leftmost derivations which tokens a form, a sequence of
terminals and nonterminals, stands for. It is a recursive function that tries
every rule, and no automaton; nothing in it looks ahead or chooses a rule by
the next token. Why choosing so is right, which is what LL(1) means, is the
content of the proof:

- `AfterFacts`: the function exists. Its recursion does not descend (a rule may
  be longer than what it replaces), so that the equation is solved by its least
  solution, the meet of all those that are closed under the rules.
- `Reads(w, i, xs)`: from place i on, w is of the form xs to its end. One
  lemma for each rule says which rule the token at i leaves
  (`ReadsVariables`, `ReadsStatements`, `ReadsChain`, `ReadsFactor`,
  `ReadsScript`).
- `Rest(nt, k)` is the form that an activation of nt still reads before its
  step k, and `Follow` the tokens that may stand behind it. `Bounded` says
  that whatever a caller still expects begins with one of those; this is where
  a repetition may end without looking at its caller.
- `ScriptMoves`, `VariablesMoves`, `StatementsMoves`, `ChainMoves` and
  `FactorMoves`: each parse function shifts a token, fails, calls or returns,
  and which of the four it does agrees with the grammar. `NextMove` finds one
  of the four in every step of the parser.

The invariant is `GrammarInv`. A source agrees with what was read (`Agrees`)
if it begins with the tokens consumed and then ends or has the lookahead next.
Until the first error (`Viable`) such a source is a program exactly if it goes
on, from the lookahead, with what the activations on the stack still read, the
youngest first (`AheadUpTo`). From the first syntactic error on (`Refuted`)
no such source is a program.
The second is what makes the equivalence hold for the parser that goes on after
an error: whatever it skips, invents and consumes later, the tokens consumed
are no program.

`SymbolTableProofs`, for any finite set of identifiers (`TableAssumption`; the
scanner's are shorter than 32 characters), any hash function into a byte and
any sizes of the array:

- `TableAlwaysTyped`, `LoadAlwaysBounded`, `SymbolsFreedOnce`;
- `SymbolsAlwaysInTheirChains`: `Spec => []EachSymbolInItsChain`;
- `TableImplementsInterner`: the table refines `Interner`.

A chain is the least set of symbols that holds its first one and is closed
under the links (`Chain`), so that no induction along the links is needed: a
symbol is shown to stay on a chain by turning every set that is closed after
the step into one that was closed before. The invariant says of the pointers
that count (`Heads`, and the links of the symbols not freed) that no two lead to
one symbol (`LinksApart`) and none to a freed one (`LinksLive`), and that each
symbol is filed where a search for it begins (`Filed`). From `LinksApart` it
follows that chains are disjoint (`ChainsApart`) and that the symbol which a
loop has reached is on no other chain, which is why writing its link changes
none. A search that has reached the null pointer has looked at all there is
(`Ahead`), so that an identifier never gets a second symbol.

`ScannerProofs`, for any characters, buffer size, widths, and sources of any
length:

- `TypeCorrect`, with the text inside its buffer;
- `TextsAlwaysInPlace`: what is put out has its text exactly where it says,
  and begins behind what was put out before;
- `LocationsAlwaysExact`: row and column of a token are those of its first
  character, for sources that are longer than the numbers are wide;
- `StreamImplemented`: the scanner refines `TokenStream`, when the byte 255 is
  not among the characters. With it the refinement is false: `lex` returns EOF
  in the middle of the source, and goes on behind it in the next call;
- `LexemesAlwaysFound`, under the same condition: up to the first EOF `lex`
  puts out exactly the `Lexemes` of the source, by longest match, the valid
  ones as tokens and the others as errors.

The invariant says of which place the loop holds the character, that the text
is the source from `from` to there unless the buffer is full, that the
lookahead between two calls is the character behind the token, and that
nothing beyond the `Frontier` has been put out. For the locations it says that
the cursor is where the character in the loop is; the row of a place counts the
newlines before it (`RowOf`), its column the places behind the last of them
(`RowBegins`), and both are carried over from one place to the next. For the
stream it says that once the end was returned there is nothing but the end to
come.

For the lexemes (`LexInv`) it looks ahead: for every source that the one read
so far may become (`Extends`), the lexemes are those that have been put out and
then those from the place where the scanner goes on (`Resumes`: the beginning
of the text, or behind the comment). `ReadAs` says for each of the 14 states of
a token which texts lead to it, `TokenLongest` that a token which does not go
on is the longest lexeme, and `TokenRefused` that an entry `FSA_ERROR` of the
transition table is a lexeme that clashes with the character behind it, no more
and no less. `Lexemes` is a recursive function over the places of the source,
and `Recurrent` proves that it exists, by induction over its length: the proof
that the parser's module has, repeated here since the two share no module.

`ErrorListProofs`, for any number of errors and token types:

- `TypeCorrect`, `AlwaysShowsAll`, `AlwaysFreedOnce`;
- `Implements`: the list refines `ErrorLog`.

The invariant pins the pointers down: the errors in use are the last ones
allocated, each linked to the next; the freed ones are a prefix; head and tail
are the ends; and the cursor of `error_list_show` is as far as what was shown.

`SemanterProofs` and `TranslationProofs`, for every tree that is `Analysable`,
any names and literals, any growth of the list, and whether it moves or not:

- `TypeCorrect`;
- `OperandsAlwaysReady`: without an error no operand is unset or undeclared;
- `LabelsAlwaysResolved`: every jump has its label, while the list stays;
- `TemporariesAlwaysStraight`: no jump separates a temporary from its use, even
  when labels are lost;
- `AcceptedIsExecutable`: the third interface above, while the list stays;
- `AcceptedAlwaysDeclared`: a program without an error declares each variable
  that it names, and once;
- `ErrorsAlwaysJustified`: an error is at a use of a variable that is declared
  nowhere, or at a second declaration and then names the first; no two are at
  one place;
- `CodeAlwaysConnected`: every instruction is reached from the first, and the
  end from every one, while the list stays;
- `CodeAlwaysTranslates`: the code of a program without an error is the
  translation of its tree, while the list stays.

What these say of finished code is not inductive: the code under way has jumps
without labels, and the operands of its next instruction are locals of the
functions on the stack. `SemanterProofs` first reduces each analyse
function to an `AnalyserStep`: what it does to the stack (it calls, goes on or
returns, perhaps with an operand that is `Fresh`), to the code (at most one
instruction is added, at most one label written) and to the errors, and shows
that every function stays at a step that fits the operands it has (`Fit`). The
invariant `SemanterInv!LabelInv` then needs to be shown for these steps only:

- no operand is held while a statement is analysed (`NoneKept`), and those held
  are set and declared, or an error was reported (`HeldSound`);
- a temporary that is held reaches the end of the code: nothing jumps, and
  nothing is going to jump, between where it was computed and here. `Marks`
  are the labels in the code, and those that the loops on the stack hold;
  a label is taken, or a jump added, only by a statement, when nothing is held
  (`Settles`);
- pointers lead to jumps, and a jump without a label is one that a function on
  the stack is going to patch (`JumpsAwaited`), or the list has moved.

Which errors there are depends on the walk over the tree, of which the stack
shows only the path to where it is. `NamesInv` therefore says that there is a
set of nodes `done` whose calls have returned, and ties it to the stack: the
functions on the stack call one another along the tree (`Chained`); a child is
in `done` when its parent has gone past the call for it, unless it is on the
stack (`Visited`). A variable is declared where the first of its declarations
is that the walk has passed (`FirstsDeclared`), and the errors are those of
the places that were looked at (`Accounted`). A node whose call returned early
because of an error leaves its children out of `done`, but then there is an
error. At the end, without an error, `done` is the whole tree, since it holds
the root, and with a node its children. Each function is shown to take a
`WalkStep`; the invariant is shown for these. That the walk comes to a place
once rests on `Orderly`: no node is linked twice.

Connected code needs more than resolved labels, and during the analysis the
paths are not there yet. `FlowInv` says what makes them: a jump that is awaited
is awaited by one function, and has no label; behind a loop's start there is
no goto up to the one that follows its test (`LoopsFall`); in front of every
goto something jumps to the place behind it (`GotosPassed`), which is how the
code that the goto separates is entered; and a goto that leads back jumps over
a goto which leads out, with nothing but straight-line code and branches
before (`LoopsLeft`). From these no step is missing: the first place
that is not reached would be reached from the one before it, or from the jump
in front of it, and from the last place that is reached there would be a way
on (`AllReached`, `EndReached`). `ReachedFrom` is a recursion, of as many
rounds as there are instructions; that its result is closed under one more
follows from counting: a round that adds nothing closes it, and there are no
more places than rounds (`SpreadCloses`).

A translation (`Translation`) gives each node the place where its code begins,
the place where it ends, and the operand that its call has returned. `Translates`
says, for each kind of node, what stands between the two: where the codes of the
children begin and end, one behind the other in the order of emission, and
which instructions stand between them, with their operands and labels.
`CodeTranslates` asks for a translation under which this holds of every node,
from the first instruction to the last. `TranslationInv` is the same of a code
under way: the nodes of `done` are translated, and each function on the stack
has done so much (`Waits`) of what its node asks for, with pointers that lead to
the jumps whose labels are not written yet. A finished node stays translated
since a later step leaves the code as it is, but for the label that it writes, and
that was awaited by a function on the stack (`CodeKept`). The first step of a
call chooses where the code of its node begins, and the last one where it ends
and what its operand is (`GrowsDown`, `GrowsUp`): the translation is built
with the code.

`InterpreterProofs`, for every width of the numbers, any input and whatever
memory holds at the start, and for every code that is `Executable`:

- `TypeCorrect`: the interpreter stays inside its code, temporaries and bits;
- `AlwaysComputed`: it never reads a temporary that was not computed.

The invariant adds `Ready`: wherever the program counter is in a straight
stretch behind the definition of a temporary, that temporary has been
computed. `StraightFrom` makes it inductive, since no jump enters or leaves
such a stretch.

`YogProofs` puts the two together in the composition `Yog`, under the
assumptions of both (`YogAssumption`):

- `CodeAlwaysTrusted`: `Spec => [](block = 0 => CodeTrusted)`, main lets no
  code of an erroneous program through, and what it runs is executable, unless
  the instruction list has moved;
- `RunsAlwaysSafe`: what `InterpreterProofs` says of executable code holds of
  every run of yog;
- `MainTypeCorrect`: `Spec => [](block = 0 => TypeOK)`;
- `YogImplementsMeaning`: `Spec /\ [](block = 0) => ImplementsMeaning`, the
  compiler is correct.

The analyser's invariant holds until main clears the list, the interpreter's
from `interpreter_init` on. The modules are instantiated a second time with
their proofs (`Run` the interpreter, `Sem` the analyser, `Trans` what `Sem` says
of translations), and the `Same...` lemmas say that the instances agree. The
condition `block = 0` cannot be dropped: `dangling_label` shows a label that is
lost when the list moves.

That yog implements the meaning of its source is a simulation. Its invariant,
`CourseInv`, says where the interpreter is in the translation `t` of the tree,
as seen from the statements that the source has still to execute (`todo`):

- The code is a translation (`Compiled`), which `CodeAlwaysTranslates` provides
  when `main` starts the interpreter. Which instructions that makes of each kind
  of node is spelled out once, in the lemmas about `LaidList` to `LaidFactor`.
- From one place control `Leads` to another if gotos and nothing else are
  between them: every set of places that the gotos do not enter from outside
  holds the first if it holds the second. So defined it needs no induction
  along the gotos.
- A sequence of statements is a `Path` from one place to another if each leads
  to the code of the next, the repeats to their conditions. `AllPaved`: the code
  of a body is a path through what `Unrolled` makes of it, whatever is nested.
- The execution is `OnCourse`: `pc` leads along such a path through `todo` to
  the end of the code; or it is inside the code of the first statement
  (`Amid`), everything from the entry of that code to `pc` has been executed,
  and from behind it the path goes on through the rest.

Inside a statement the question is what the temporaries hold. An instruction
is `Settled` if the equation between its operands and its result is true now.
`Done` says so of a stretch of the code, and it stays true as the stretch grows,
since a temporary is computed in one place (`ComputedOnce` of the analyser) and no
variable changes before the statement is complete. From the equations follows the
outcome of every expression whose code has been executed, from the leaves up
(`AllEvaluated`), and from an instruction that ends
the process, that the expression, and each one around it, has this end for its
outcome (`AllFail`). That an operation of the interpreter is the one of the
source is arithmetic: `WrappedIsCongruent` and `QuotientIsTruncated` say that
the formulas have the properties by which `Meaning` defines its numbers, and
that no other number has them. A step of `main` then is a step of the source
or a stutter (`NextCourse`). `AcceptedHasMeaning` ties the errors to the source:
the analyser accepts the tree, and the parser's errors are none, exactly if each
variable is declared, and once.

`Outcome`, `Unrolled` and `Cleared` are recursions over the tree whose equations
need proofs that they can be solved. A child has a greater address than its
parent (`Orderly`), so that the values can be found from the last node to the
first: `Descend` does this for any recursion that looks above only, and
`RunsExist` for the one along the children of a node.

Checked by TLC only:

- termination and every other liveness property, `NeverStuck` among them: the
  prover has no rules for fairness and `ENABLED`.

## What was found

- `src/semanter.c:177,186,205,212`: pointers into the instruction list are
  used after the list may have moved (`dangling_label`). With the usual
  allocators the block often grows in place, since nothing else is allocated
  in between, which is why the examples run.
- `src/symtable.c:171`: the old bucket array is never freed (`array_leak`).
- `src/parser.c:118`: the end of the file is not expected (`trailing_tokens`).
- `src/scanner.c:146`: literals are converted to `int` (`literal_wrap`).

What the models follow and a reader may not expect:

- `include/parser.h:42` writes assignments with `=`; scanner and parser take
  `:=`, as the README of the repository and the examples do.
- `repeat ... until (c)` repeats while `c` holds (`analyse_repeat` jumps back
  when the condition is true), and the example `size.yog` needs that.
- A word may not be followed by an operator without a blank: `a+b` and `a*b`
  are lexical errors, and the error takes everything up to the next blank.
  `1+2` and `1 -1` are two literals, since a sign begins a literal.
- The character behind a token that is too long is dropped, whatever it is.
- A comment that is not closed is accepted, and the byte 255 ends the source.
- `main` returns 0 when the program was refused.
- `ast_clear` frees the nodes, and no array of children.
- A variable that is read before it is assigned has the value that `malloc`
  left; a `read` without a number leaves the variable as it was.

## What is left

`Yog` from the characters on: scanner and parser in the composition, in place
of the tree and the number of errors that they return. The interfaces are proved
on both sides (`StreamImplemented`, `TreeAlwaysAnalysable`,
`TreeAlwaysOrderly`); what is missing is one state space that holds them all.

## Not modelled

- `symbol_table_show` and `instruction_list_empty` are never called, and
  `token_type_str` is a table of names.
- A failed allocation ends the process at once (`ymalloc`, `yrealloc`), and
  nothing outlives the process.
- The text of identifiers and the hash function are data that no property
  tells apart; the wording of the messages is not modelled either.
- The prebuilt binary, the build files and the examples are no code of the
  system.

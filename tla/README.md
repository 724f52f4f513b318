# Meg: a verification project

The repository holds two programs in C that share an author and an idea, and no
code:

- **megc** (`src/megc`), the first compiler of the Meg language: a character-level
  lexer, a string pool, and a precedence-climbing parser that builds a tree.
- **libprotocols** (`src/libprotocols`), the library behind "Orbita": memory
  allocators, a lexer with indentation, a parser that drives a semantic analysis,
  scopes, an AST and its builder, control-flow analysis, code generation and a
  bytecode machine.

Both are sequential. What makes them hard is not concurrency but *pieces of state
that must agree over a long sequence of legal calls*: hash tables that grow while
pointers into them are kept, lists threaded through buckets that move, a token
window of which one slot doubles as a flag, a read head that is moved by five
pieces of code, free lists that lose their elements, three stacks in a lexer, a parser and a
semantic analysis that nobody compares. The models below take the
loops of the code one iteration at a time wherever an intermediate state matters.

The tools are TLC (`MC*.tla` with `*.cfg`) and the TLA+ proof system
(`*Proofs.tla`). `PROJECT.json` lists the runs, the mutants that show each
property can fail, the source lines behind every definition, the hazards and the
findings.

## 1. Inventory

Every entry: *state* / *operations* / *who calls it* / *what is hard* / *what makes
it correct*.

### megc

| part | state | operations | hard | correct when |
|---|---|---|---|---|
| string pool `strpool.c` | open-addressing table of (hash, size, pointer), count | `mstrpool_insert`, growth by 3, `mstrpool_del` | the load is tested *before* an insertion; the table is rebuilt while callers keep pointers; probes have no bound of their own | one pointer per string for ever; every probe finds a free slot; everything is freed once |
| lexer `lexer.c` | head (offset, line, column), two fixed buffers | `mlexer_lex` and its helpers | `getch` does not move at the end of the text, `ungetch` always may; line and column are kept beside the offset; skipping loops; buffers at their limit | a token is where it says it is, every token advances, bad input is reported, the text is read to the end |
| parser `parser.c` | two-token window, tree, error flag | `parse_unit` and below, `parse_expr` with tables of handlers | `snd.kind = INVAL` means "not read"; error recovery skips tokens; assertions on user input | an accepted text was read completely, and grouped by the table of precedences; a skipped token was reported; it stops |
| AST `ast.c`, tokens `token.c` | tree nodes | printing | – | – |
| driver `main.c`, `diagno.c` | – | reading the file, messages | – | – |

The parser pulls tokens from the lexer one at a time, the lexer interns every name
and literal in the string pool, the tree keeps the pool's pointers.

### libprotocols

| part | state | operations | hard | correct when |
|---|---|---|---|---|
| slab allocator `Utilities.c` | blocks, pages, slabs; intrusive doubly linked lists per class and of blocks | `prosAllocator_alloc`, `_free`, `_del` | removal from a list is told which list by its caller, and empties the list when it removes the head | no slot has two owners, nothing in use is unmapped, the counters agree with the lists |
| arena `Utilities.c` | chain of blocks, fill level, exclusive blocks | `prosArena_alloc`, `_del` | rounding happens on one path only; the chain is kept from its end | allocations are disjoint and aligned, everything is freed |
| vector `Utilities.c` | buffer, size, capacity, deleter | push, pop, insert, erase | elements move when it grows | the sequence it holds; a deleter runs once per element |
| identifier table `IdTable.c` | hash table of identifiers | `prosIdTable_pushId` | growth, end of the array | one `prosId` per identifier (`Interning`, as for the string pool) |
| scope table `Scope.c` | Robin Hood table, list threaded through its buckets | `prosScope_pushDecl`, `_findDecl`, `_del` | insertion moves buckets that are links of the list; the search stops early on the strength of an ordering | what was declared is found, once (`Declarations`); the list visits every declaration once |
| source, lexer `Source.c`, `Lexer.c` | buffer, stack of indentation, tokens of the line not taken yet | `prosLexer_getLine` | one line may close several blocks; a broken line is read again with the stack already changed; a call forgets the tokens that are left | blocks are where the indentation says |
| parser `Parser.c` | tokens of the line, one activation of `parserParseOperationScope` per block, a bonsai per expression | one function per construct | calls the semantic analysis while parsing; INDENT and DEDENT are skipped where a block must begin; handlers of operators that fail leave what they pushed | an accepted text is the tree its indentation and its operators give; it stops |
| semantic analysis `Semantics.c` | stack of scopes, AST builder | one action per declaration and statement, type evaluation | a refused statement leaves the cursor where it was; an `or` finds its `if` through the last statement; break and continue search the stack | scopes, cursor and calls of the parser agree; an expression has the type its operands and declarations say |
| AST `AST/*.c` | tree of circular lists, cursor (`ASTContext`), builder | add a node, traverse up and down | the cursor must return to where it started | a statement goes to the operation it is in |
| control flow `CFG.c` | – | walk over a function body | chains of ifs are statements as well; breaks in ifs | a missing return is reported, and nothing else |
| code generation `Gen.c` | registers with ages, value stack, basic blocks | load, spill, generate | a register handed out for one operand may be taken for the next | a value is read from where it was put |
| LittleSenna `Bytecode.c`, `LSMachine.c` | code buffer; registers, stack, pc | emit, execute | widths, jumps, bounds | what is emitted is executed |
| output, VM front end `Output.c`, `VirtualMachine.c`, `Orbita.c` | – | glue and messages | – | – |

The parser asks the lexer for a line when it has taken the tokens of the last, and
calls the semantic analysis for every statement. That asks its scopes for
declarations, keeps them in memory of the slab allocator, adds nodes through the
builder's cursor, and when a block is closed hands the function to the
control-flow analysis and to the code generator. The allocator keeps its own tables in an arena, the builder its nodes.

The hazards of this code are listed with their lines in `PROJECT.json`.

## 2. Modules

| module | models | kind |
|---|---|---|
| `Interning` | what a string pool promises | abstract specification |
| `StrPool` | `megc/src/strpool.c` | state machine, one step per loop iteration; implements `Interning` |
| `StrPoolProofs` | – | proofs about `StrPool` |
| `MegcLexer` | `megc/src/lexer.c` | state machine, one step per character |
| `MegcParser` | `megc/src/parser.c` | state machine, one step per handler call, with an explicit stack of frames |
| `MegcLexerProofs` | – | proofs about `MegcLexer` |
| `MegcParserProofs` | – | proofs about `MegcParser` |
| `MegcParserTrees` | – | reference grammar: the property of `MegcParser` that speaks of the tree's shape |
| `Declarations` | what one scope promises | abstract specification |
| `ScopeTable` | `Code/Semantic/Scope.c` | state machine, one step per loop iteration; implements `Declarations` |
| `ScopeTableProofs` | – | proofs about `ScopeTable` |
| `Allocator` | the slab allocator of `Utilities.c` | state machine, one step per operation, every link of the lists |
| `AllocatorProofs` | – | proofs about `Allocator` |
| `SyntaxTree` | `Code/AST/*.c` | the tree and every function of the builder as operators on it |
| `FlowAnalysis` | `Code/Analysis/CFG.c` | the analysis, and a reference definition of the ways through a function |
| `SyntaxTreeProofs` | – | lemmas about `SyntaxTree`, theorems about `FlowAnalysis` |
| `OffsideLexer` | of `Lexer.c` the indentation and the tokens of a line | operators on the lexer's state |
| `FrontEnd` | `Parser.c` down to statements, `Semantics.c`; composes `OffsideLexer`, `SyntaxTree` and `FlowAnalysis` | state machine, one step per line read, statement, begin and end of a block |
| `FrontEndProofs` | – | proofs about `FrontEnd` |
| `Expressions` | expressions of `Parser.c`, `Semantics.c` and `ASTBuilder.c`; composes `SyntaxTree` | the parser and the evaluation as operators, checked over a set of texts |
| `CodeGen` | `Code/Gen/Gen.c`, and of `LSMachine.c` what the emitted instructions do | state machine, one step per node of the syntax tree and per instruction |
| `CodeGenProofs` | – | proofs about `CodeGen` |
| `MC*` | – | small instances for TLC |

How state and actions correspond to the code:

- **StrPool.** `entries`, `size`, `count` are the fields of the pool; `mem` is the
  sequence of allocations ever made, a pointer is an index into it, 0 is NULL;
  `oldp`, `olds`, `i` are the locals of `check_table_size`; `pos` the slot under
  the probe; `freed` counts `free` per allocation. `CallFits`/`CallGrows` are the
  entry of `mstrpool_insert` with the load test, `ScanSkip`/`ScanTake`/`ScanDone`
  and `PlaceAdvance`/`PlacePut` the two loops of a growth, `ProbeFound`/
  `ProbeAdvance`/`ProbeStore` those of `insert`, `Del` is `mstrpool_del`. Strings
  are values with a hash and a size; the hash function is any function.
- **MegcLexer.** `buf` is a sequence of characters, one representative for each
  class the code distinguishes; the head is the code's offset, line and column;
  `at` says in which loop the code is. `getch` and `ungetch` are operators on the
  head and translate the two functions, end-of-text and column-1 cases included.
  The buffers of string and number literals are lengths with the bounds `StrMax` and
  `NumMax`. `getstr` looks at its bound; `getnum` does not (`lexer.c:223`), so that the
  character after the last place is undefined behaviour: `Overrun` ends the model
  there, at "overrun", and nothing is said of what follows.
- **MegcParser.** The text is a sequence of token kinds; `fst`/`snd` are the
  window with its "not read" flag; `stack` holds one frame per activation of
  `parse_expr` and its handlers with their locals. A tree is a nested record. An
  assertion, `madeus` or a null dereference ends the model in a state that says so.
- **ScopeTable.** `table`, `list`, `count`, `size` are the scope's fields; `next`
  pointers are slot numbers, -1 is nullptr; `old`, `i` are the locals of
  `scopeDoRehash`, `new` the bucket on its way in `scopeInsertDecl`. The caller,
  `semanticsHasDeclWithId` followed by `prosScope_pushDecl` when nothing was found,
  is part of the model.
- **Allocator.** `blocks` and `slabs` are the doubly linked lists with head, prev
  and next of every node, `Add` and `Remove` the four functions on them; `pages`
  and `free` the free lists (singly linked, modelled as sequences); `live` the
  slots clients hold. Clients free only what they hold, once. Reading the header
  of a returned block ends the model.
- **SyntaxTree.** A node is a record, a pointer to it its index; the circular list
  of children (`prosAST_addNode` and the code in every builder function) is a
  sequence. `cursor` is `ASTContext`'s stack. A builder function that panics
  returns `Panicked`.
- **FlowAnalysis.** `Analysis` gives for every node what its branches come to:
  "returns", "falls", "panic" or "crash". It is a recursive function over the nodes
  where the code calls itself, and `AnalyzeOperation` chooses the first statement
  that does not fall through where the code has a loop. The reference, `FallsThrough`,
  is written from what the statements mean.
- **OffsideLexer.** A line is its indentation, what follows, and whether it ends
  with a newline. `Indent` is `lexerGetIndentation`, `Reads` and `ReadsEnd` are the
  two ways `prosLexer_getLine` returns. What a statement's tokens are is no
  question here: they are one token. A blank line is passed over in the same call,
  but for one that mixes tabs and spaces, which is reported and returned. The `data`
  of a token matters because the end of a
  block compares it with the indentation of the scope (`Semantics.c:153`).
- **FrontEnd.** `frames` are the activations of `parserParseOperationScope`, each
  with the data of its `tok`; `scopes` is `scopeStack`; `tree` the builder. `pc` is
  "indent" while `parserExpectationMatch` looks for an INDENT. The statements are
  actions named like the functions of the parser, with the operator
  `ActOn...` for the function of the semantic analysis each calls. A statement that
  is refused leaves the tree as the code leaves it, cursor included. The text is
  chosen line by line while it is read, from a *menu* of lines. `Evaluate` is the
  contract of `Expressions`: a type, or none and a cursor left below.
- **Expressions.** `parser` has the tokens of the line as a position in the text,
  and the bonsai; one operator per handler. A handler that fails, one that panics
  and one that succeeds differ in `ok` and `stop`, as the return values and
  `pros_panic` do in the code. Literals are digits, and `Power` keeps the eight bits
  of its base. `GetLine` begins the same line again when an unknown character ended
  it, as the offset is still at its beginning (`Lexer.c:542`); a line that begins with
  one is read for ever (`Endless`), which the model ends as it ends a panic. The node
  of an argument has the type of the parameter from its creation
  (`Semantics.c:677`), whatever becomes of the argument.
- **CodeGen.** `vals` is `ctx->valStack`, `owner` and `prior` are `ctx->regs`;
  `todo` holds the pending calls of `genGenExpression` and the code after them. The
  body is chosen node by node while it is generated: it is one straight block, so
  the machine may execute each instruction as it is emitted. `held` says, for each
  register of the machine, whose result is really in it, `cell` the same for the
  place a value was spilled to. An instruction that reads a register which does not
  hold its operand makes a wrong result. The loads of an instruction's operands are
  arguments of one C call: `Emits` takes them in every order. What `held` and `cell`
  follow is the `val->size` low bytes of a result (`LowBytes`), 4 for an int: a spill
  stores no others (`Gen.c:241`), and the load clears the others of the 64-bit
  register (`LSMachine.c:256`), so that a negative int comes back as another 64-bit
  number. Of the instructions that are emitted, only DIV computes other low bytes of
  it than before; its quotient is not modelled.

## 3. What the runs check

| run | instance | shows |
|---|---|---|
| `strpool` | 5 strings, initial capacity 2; hashes collide, wrap, and coincide for different lengths | the table through two growths: `LoadExact`, `ChainUnbroken`, `Owned`, `CallReturns`, and `ImplementsInterning` |
| `lexer` | all texts up to 3 characters over 23 classes, up to 4 over those of numbers, up to 5 over those of strings with a buffer of 2; a buffer of 3 for numbers | `Located` (head and tokens are where they say), `LineBreaksAccounted` (every line break before the head is in a token that may hold it), `InvalReported`, `DigitsKept`, `Terminates` |
| `lexer_exponent` | texts of numbers | finding 1 |
| `parser` | a header and all expressions up to 5 tokens over 6 kinds and up to 3 over all; argument lists with arguments missing; texts up to 3 tokens over all kinds; all 5 tokens after `id(`, up to 4 if another function follows | `FunctionsMatchText`, `NothingLost`, `CrashReported`, and `Terminates` but for the one known loop |
| `parser_no_params` | texts of functions | finding 2 |
| `scope_table` | 6 declarations, two of one identifier, 2 buckets growing to 8 | `SearchReaches` (Robin Hood order), `FreedOnce` (the list), `CallReturns`, `ImplementsDeclarations` |
| `allocator` | 2 blocks of 2 pages, 2 classes of 2 and 3 slots, up to 5 slots held | `SlotsAccounted`, `PagesAccounted`, `PartialServes`, although lists lose elements |
| `allocator_destroy` | the same | finding 3 |
| `code_gen` | registers R06 to R11, every body of weight 8 (a statement weighs 1, an operator 2) | with more values than registers, in every order of evaluation, `ValuesKept` (the low bytes of a result are where the generator looks for them), `RegistersAgree`, `StackBalanced` |
| `front_end` | seven menus of lines, texts of 4 to 9 lines (below) | `CursorFollowsScopes`, `NestsByIndentation`, `TreeIsChained`, `ReturnsFound`, `GoodTextAccepted`, `Terminates` |
| `front_end_returns` | the menu of chains of ifs | finding 4 |
| `expressions` | six sets of texts (below) | `TextAccountedFor`, `EvaluationFollowsTypes`, `LiteralExact` |

**Why these bounds.** The pool starts with a table of 4 in the code, which is
full when it grows, as is the table of 2 in the run; both then grow to tables that
have free slots when they grow again (12 in the code, at the eleventh string, 6 in
the run), and the proofs hold for every initial capacity. The
scope table grows twice with five identifiers, so every loop runs in the
middle of a rebuild. In megc's lexer every loop has left its first iteration after
two characters and the string buffer is at its limit after two; no construct of
the language looks further ahead than one character. The number buffer of three
overruns at the fourth character of a literal without separator, in every part of
`getnum`, and is large enough for all that `DigitsKept` tells apart. The window of megc's parser is
two tokens; five tokens hold two operators of different precedence with their
operands, a call with two arguments, or a call within parentheses. In the
allocator two pages are the least with which a block can be partial and full, two
and three slots the least with which a slab is partial and full, and two blocks
and two classes the least that exchange pages; five slots fill both classes.
`MaxLive` bounds what clients hold. A function body spills from
its seventh live value on; weight 8 gives up to eight declarations, six statements
of which the last has an operator (eight values at once), or three nested
operators. The blocks are symmetric: nothing compares
addresses.

The menus of `MCFrontEnd`, each with a fixed beginning and then every sequence of its
lines: `Ways` (what an if goes on with, 7 lines), `Chains` (three and four members,
9 lines), `Control` (while, loop, if, break, continue, return in one another,
6 lines), `Nesting` (ifs, expressions and comments at three levels, 6 lines),
`Errors` (statements that are refused, and what follows them, 5 lines), `Layout` (any
line at any of four levels: blank, comment, unknown characters, mixed tabs and
spaces, no newline at the end, 4 lines), `Module` (functions, parameters, names
twice, statements outside a function, 5 lines). Levels are 0 to 3: a stack of three
can lose two at once, and a broken indentation needs two levels and a line between.

The sets of `MCExpressions`: every text of up to five tokens over two operands and
four operators of three precedences, and of seven with three operators; calls of
five names (values, functions with none, one and two parameters, a name not
declared) with four tokens behind the parenthesis; types of up to four tokens;
texts over a line end, INDENT, DEDENT or an unknown character; up to three tokens of
all kinds; literals of up to five characters, the first length with a wrong value.

**Premises.** `NestsByIndentation` and the part of `TreeIsChained` on loops speak of
texts of which nothing was reported, with functions at the margin (`FuncsAtMargin`)
and comments indented like what follows them (`CommentsFit`): a line of only a
comment has INDENT and DEDENT tokens like any other, so one at another level really
opens or closes a block. `CursorFollowsScopes` holds after errors too in its first
part, its second part is the exact place without any. `ReturnsFound` compares
verdict and reference in both directions when there is no `or`, in one when there
is; the other one is finding 4. `GoodTextAccepted` takes texts that are
`WellLaidOut`; it excepts a break in an if, which panics. `TextAccountedFor` takes expressions nothing was
reported of, by the parser or by the lexer.

**Fairness.** The specifications of `StrPool` and `ScopeTable` assume only that a
call that has been entered keeps executing (weak fairness of the steps *inside* a
call); nobody is obliged to make a call. Those of `MegcLexer`, `MegcParser` and
`FrontEnd` assume weak fairness of their whole next step: one thread reads one text and does
nothing else. `CallReturns` and `Terminates` are about loops the code
itself does not bound. In `FrontEnd` the exceptions are named by `Stuck`: a token no
statement begins with is reported for ever (`Parser.c:1271`), and so is an unknown
character where a block must begin; in `MegcParser` it is a comma where an
argument should start (`parser.c:233`).

**Deadlock** is not checked where the program really stops: a closed pool or
scope, a text read to its end, a deleted or crashed allocator, a generated function.

## 4. What is proved

Each module of proofs about a state machine states `Invariance` (its `IInv`, or
`Inv`, holds in every reachable state) and takes the rest from it. Every safety
invariant that the runs check of these seven state machines is a theorem, but for
`FunctionsMatchText` of megc's parser and `GoodTextAccepted` of the front end; both
refinements are theorems too.

| module | for every | theorems |
|---|---|---|
| `StrPoolProofs` | set of strings, hash and size function, initial capacity above zero | `TypeCorrect`, `LoadIsExact`, `TableSound`, `CopiesFreedOnce`, `AnswersArgument`, `PointersAreStable`, `Implements` |
| `MegcLexerProofs` | set of texts, size of the buffers of `getstr` and `getnum` | `TypeCorrect`, `TokensLocated`, `BreaksAccounted`, `InvalidReported`, `NumbersKeepDigits` |
| `MegcParserProofs` | text | `TypeCorrect`, `CrashesAreReported`, `NothingIsLost` |
| `ScopeTableProofs` | set of declarations, hash, initial size | `TypeCorrect`, `SearchesReach`, `DeclarationsFreedOnce`, `Implements` |
| `AllocatorProofs` | memory, number of pages and capacities from two on, set of classes | `TypeCorrect`, `SlotsAreAccounted`, `PagesAreAccounted`, `PartialSlabsServe` |
| `SyntaxTreeProofs` | tree that the builder can make, and each of its functions | `AnalysisAgrees`, `AnalysisStops` |
| `FrontEndProofs` | text, of whatever length and depth | `TypesAreKept`, `CursorIsKept`, `ReturnsAreFound`, `NestInvariance`, `NestingIsSeen`, `ChainsAreKept` |
| `CodeGenProofs` | body, of whatever length and depth, and at least six temporary registers | `TypeCorrect`, `RegistersStayPaired`, `ResultsKept`, `StackIsBalanced` |

**Assumptions.** Each module names those about its constants. `LexAssumption`: texts
are of the characters `MegcLexer` names, and the number buffer has a place, as every
array in C. `HashAssumption` of
`StrPool`: strings of one length have different hashes, since the code compares
nothing else. `ScopeAssumption`: no hash is 0, which marks a free bucket, and
`NoDecl`, the null pointer, is no declaration and no hash. `AllocAssumption`: `Nil`,
the null pointer, is no block, slab or class; a block has two pages and a slab two
slots at least, because the code does not test a block or a slab for fullness
after its first allocation. `SixRegisters`: the code has R06 to R11, and the
argument needs all six; with fewer than five the statements are false, see `Gen.c:264`
in section 5. `MenusAssumption` of `FrontEnd` says that menus are made of lines as
`OffsideLexer` describes them, with indentations up to `Address` (1000): the model
puts a pointer in the data of a token at that number, which no smaller indentation
reaches, as addresses are. The theorems hold for every sequence of menus, and so for
one whose lines are all of these.

**String pool.** `ChainUnbroken` (no free slot between an entry's home and the
entry) is not inductive: whether storing an entry keeps it depends on what the
running probe has walked over, and on the entries a growth has yet to move. `IInv`
adds `Walked` (all slots between home and `pos` are used and hold other strings),
`PendingFresh` (entries not yet moved have keys of their own), `Bounds` (a growth has
moved at most one entry per scanned slot into a table three times larger, so it
never fills), `CountInv` and `Described` (a pointer names an allocation that holds
what the slot says). `PathGrows` and `PathTotal` are the two facts about circular
paths everything rests on. The refinement maps the allocations of a string to the
abstract pool's pointer for it. `AnswersArgument` and `PointersAreStable` are
action properties no run states; they follow from what the refinement rests on,
and the run checks the refinement. `CopiesFreedOnce` adds `Kept`: every allocation
belongs to a slot of the table or to one not yet moved. That it belongs to no two
follows from their keys being different.

**megc's lexer.** `getch` and `ungetch` keep line and column those of the
offset, the line breaks before it counted. Tokens need more than the head: `InHand` (the character in hand is the one
before the head, or the end), `Beginning` (what has been read of the token so far,
per place in the code) and `Numbers` (the digits counted are those of the text from
the beginning of the token to the character in hand). `Gaps` says that the characters
between two tokens, and between the last token and the one being read, are no line
breaks, which is what `LineBreaksAccounted` needs. The theorems are about a run up to
the number that overruns `getnum`'s buffer: `NumbersKeepDigits` says what is kept of
an integer that fits. `Numbers` has one odd case: a
zero that ends the text, where `getch` does not move, so that `ungetch` gives the zero
itself back and it is read again as a digit.

**megc's parser.** The functions that skip tokens are walks: they follow
`Advance` until a set of windows is reached. A recursive function is known to have
a value only when one proves so; `WalkExists` does, from a measure (twice the text
left behind the second token, and one if the first is within it) that falls with
every step they take, and
`WalkStays` shows that such a walk does not leave `Ahead`, the windows within the
text and in order. The stack is alternating frames of `parse_expr` and its handlers,
so that the parity of its length says what may be running (`Shape`).
`CrashReported` becomes inductive as: either something was reported, or no frame
lacks an argument or a value so far (`Clean`). `NothingLost` is inductive with the
declaration being parsed: what is in front of its first token (`Begun`) is in those
parsed before or was reported (`Accounted`). A declaration holds the positions from
its first token to the one it stopped at, so that no tree is walked; that the tree
built from them is theirs stays with `FunctionsMatchText`.

**Scope table.** `RobinHood`: the distance stored in a bucket is its distance from
home, and the slots it was pushed past are used by buckets at least as far as the
probe was when it passed. The same is said of the bucket on its way in
(`Inserting`) and of the search (`Finding`), and what a search has passed is not
what it looks for. This is what allows it to stop early. An insertion
ends because a free slot exists, a rehash leaves the new table half empty
(`Growing`). The list that runs through the buckets is the sequence of slots
`Listed` says exists: when a bucket is displaced only one of its members changes
place. `prosScope_del` unwinds it. The refinement maps `Stored`, the buckets of both
tables and the one in hand, to the set of declarations.

**Allocator.** Lists lose elements (`Utilities.c:532`), so that no invariant can say
that a list holds all slabs of a kind. `Linked` says what is left: links are
symmetric and join only slabs of one class that are both partial or both full, and a
head is such a slab without a predecessor; nothing is said of what a head does not
lead to. `SlotsOf` and `PagesOf` partition the slots of a slab and the pages of a
block, through the destruction of a block and its reuse. But for
the type invariant and what clients hold, the theorems are about the states with
`status = "running"`: reading the header of a returned block ends the model.

**Code generation.** What is proved of results is about their low bytes, those that
STR stores. `RegistersAgree` is nearly inductive (`Sound`). `ValuesKept` is
not: it depends on what may be spilled while the operands of one instruction are
loaded, in any order, and so on how old the registers of the operands can be.
`Orderly` adds the heights of the stack at which each pending item of `todo` begins,
what those items still compute, and two facts about ages. `TwoNew`: between two items
at most two registers in use are of age zero. `Young`: before a binary operator the
right operand is in a register, and of the others at most three are younger than
two turns. The search takes a free register or one at most one turn younger than
the oldest; with six registers that one is neither R00 nor an operand already
loaded. The closest case is `Calculate`, with three different operands: for the
first to be spilled by the third, each of the six registers would have to belong to
one of five values. That `Victim`, `Operands` and `Return`, defined by recursive functions,
have values is shown by least counterexample.

**Syntax tree and flow analysis.** `Linked` says that nodes point only to nodes made
after them. It is what makes the tree finite and `Analysis`, `FallsThrough` and the
end of a chain (`ChainEnd`) have values: all three are recursive functions, known to
have a value from the last node to the first (`Exists` lemmas, by a greatest
counterexample). `AnalysisAgrees` then compares verdict and meaning node by node,
for a tree in which every if has its operations (`Complete`). `AnalysisStops` finds, by
the same counterexample, the operation at which the analysis stopped the program: one
without statements, or one with a break or continue that belongs to an if or a
function. It is what `GoodTextAccepted` rests on below the parser.

**Front end.** Two invariants, one for any text and one for as long as nothing was
reported.

`Inv` is `Values` (types), `Reading` (the lines read, what the lexer has left of the
last, an end of line or of the text behind every statement) and `Building`. The last
is what `CursorFollowsScopes` lacks to be inductive: the tree is `Sound` (linked, the
cursor's places in it), scopes have an owner and a node of the tree, and there is one
activation for every scope but that of the module. A statement that is refused
leaves the cursor below its operation; then the only thing to count on is that the
cursor has two places for every scope, which every statement, refused or not, keeps
because it never goes up. Closing a block goes up two, and so stays within.
`ReturnsFound` follows from `AnalysisAgrees`: what is built without an error is
`CompleteBut` for the if whose block is still missing.

`Nest` is about three stacks that the code never compares. `LexedIn`: the tokens left
of a line are DEDENTs that close blocks, or one INDENT, then the statement. `Laid`,
for the two values of `pc`: the lexer's levels are the indentations of the scopes
(`Match`), but for those that the DEDENTs still to be taken will close; a scope has
begun if its header is less indented than it and everything behind the header is
not (`Deeper`); where a block must begin it is missing, not there yet, or there
(`Missing`, `NotYet`, `There`). With these a statement is in the block of the last
line above it that is less indented (`NestedIn`), and what leaves a loop is deeper
than its header (`LoopsIn`, with `OwnersAt`). `ChainedIn`: every statement is in one
place of one operation, an if that is continued has the next one directly behind it,
an else has an operation of its own. `Fits` is the premise of `NestsByIndentation`
on the text so far; once it fails it fails for ever, so that the invariant may
assume it.

**Only model-checked.**

- Liveness (`CallReturns`, `Terminates`): beyond the prover. That of megc's lexer ends
  with the text or with the number that overruns its buffer.
- `FunctionsMatchText` of megc's parser and the three invariants of `Expressions`: they
  compare what recursive operators compute (a reference grammar, the handlers of
  expressions, their evaluation), in whose presence the prover has no arithmetic.
  What those compute for every input would need induction over data, which the
  prover does not have.
- `GoodTextAccepted` of the front end: of a text that is `WellLaidOut` and of which
  nothing is reported, that neither parser nor analysis stops at it. An invariant for it
  must say at every line which of the conditions of the whole text hold so far, and which
  blocks are still empty.
- The abstract specifications `Interning` and `Declarations` have no theorems of
  their own.

## 5. Findings

Shown by runs:

1. `lexer.c:303`: `1E9` at the end of the text is reported to have no digits, and
   its 9 becomes a token of its own.
2. `parser.c:575`: a function without parameters loses the `:` after its
   parentheses and is rejected.
3. `Utilities.c:691`: a block destroyed while full stays the head of the full
   list, which then points to freed memory.
4. `CFG.c:192`: the if behind an `or` is a statement of the operation as well as
   the rest of the chain, so a function whose first `if` falls through is taken to
   return when its `or` and `else` do.

Seen while modelling, without a run of their own:

- `parser.c:216`: calling anything but a name (`1(x)`, `(f)(x)`, `f(x)(y)`) fails an
  assertion on user input.
- `lexer.c:300`: an exponent at the end of a line gives back the line break, but
  `ungetch` does nothing in column 1.
- `lexer.c:223`: `getnum` writes the characters of a literal, digits, point, E and
  sign, into an array of 1024 without looking at its size.
- `lexer.c:166`: the end of an unterminated string is looked for at a single quote.
- `lexer.c:218`: the zero of a literal like `0;` is read as a possible prefix, and
  given back.
- `parser.c:231`: a call without arguments leaves its `)` to whatever encloses it,
  so `(f()` is accepted.
- `parser.c:233`: a comma where an argument should start is reported for ever;
  `Terminates` exempts exactly this loop.
- `parser.c:363`: `&`, `^`, `|`, `&&`, `||` and unary `&` are in the tables of
  operators and abort in the handler.
- `Utilities.c:532`, `:586`: removing the head of a list empties the list; slabs
  and blocks behind it are not used again until something puts them back. The
  allocator stays safe (run `allocator`), it wastes memory.
- `Utilities.c:411`: an arena keeps the newest block and links the older ones
  *to* it, so only the newest is freed.
- `IdTable.c:41`, `:69`: a growth copies `tableSize` bytes, not buckets, and does
  not rehash; probing does not wrap.
- `Gen.c:357`, `:395`: an assignment changes the temporary its left operand was
  copied to, never the variable.
- `Gen.c:435`, `:450`: unary `-` and `!` emit a NOT, which the machine does not know
  (`LSMachine.c:315` aborts).
- `Gen.c:264`: register R00 would be taken if all temporary registers were of age
  zero; with six of them that does not happen, and with fewer than five loading an
  operand would spill another of the same instruction.
- `Gen.c:241`, `:331`: a spill stores 4 bytes of an int and the load clears the upper
  ones of the register: a negative int that was spilled is another number to DIV.
- `Gen.c:471`: a literal is cut to the 20 bits of the instruction.
- `Gen.c:40`: cells of spilled values are not used again, and the machine's stack
  has 1024 bytes (`Semantics.c:168`).
- `Semantics.c:1332`: break and continue take the *outermost* enclosing while, and
  do not count plain loops, though the hint at `:1350` names them
  (`RETURN_STATEMENT` stands where the simple loop should).
- `CFG.c:213`: a break in an if panics: only the branch of the loop itself accepts
  it. A block without statements is a null pointer.
- `Parser.c:1271`: what no statement begins with is reported for ever;
  in the module `Parser.c:1322` gives up at the first such token.
- `src/libprotocols/README.md:17`: the example `func f(x: int):` with
  `return y` is rejected, as a function without a type returns nothing; and the
  generator stops at any statement but a declaration or an expression.
- `Parser.c:692`: assignments bind more tightly than `+` and `*`, so that `a = b + c`
  is `(a = b) + c`, and to the left; anything can be assigned to, and the name of a
  function is a value of the type it returns.
- `Parser.c:749`: an operator whose handler fails ends the expression without undoing
  what it pushed; an error has always been reported by then (`TextAccountedFor`).
- `Semantics.c:476`: the base of `semanticsPower` has eight bits, so a digit counts 16
  where it should count 10000, and no literal of a sensible length reaches the check
  for the largest one.
- `Semantics.c:502`: `0u` is refused for its prefix; the suffix `u` changes nothing.

## 6. Not modelled, and why

- Formatting and output (`Output.c`, `diagno.c`, `ast.c`, `token.c`, printing in
  `AST.c`), the drivers (`main.c`, `VirtualMachine.c`, `Orbita.c`) and reading files
  are I/O.
- Failing `malloc` is never handled by the code: it would follow a null pointer at
  once. XXH3 is external and stands for an arbitrary function.
- What `getnum` does once it has left its buffer: the memory behind it is whatever
  the compiler put there.
- The bytes of a register above `val->size`, and so the quotients of negative ints
  that were spilled; numbers are not modelled in `CodeGen` at all.
- In `Expressions`, a line that has an unknown character behind a call's arguments and
  begins with a comma: it gives its arguments again and again, no set of texts has one.
- The rounding of request sizes to classes in `prosAllocator_alloc`.
- Of libprotocols' lexer, which characters make which token, and line and column
  numbers; of its parser, the errors within the head of a statement (a missing
  name, type, `=` or colon), whose recovery only skips tokens; of its semantic
  analysis, user-defined types, which no text can declare, and the difference
  between kinds of declaration in a scope.
- `FrontEnd` knows an expression by what it uses and how deep; `Expressions` has the
  expressions themselves, in one statement. The two meet in what `Evaluate` says and
  `EvaluationFollowsTypes` shows: a type and the cursor back, or none and the cursor
  below.
- The identifier table probes and grows out of its own memory: no state behind that
  is defined. The arena is a bump allocator whose clients never free. The vector is
  the sequence it stands for.
- Branches, comparisons, pairs and system calls of the LittleSenna machine: the
  generator emits none of them.

## 7. Plan

Done: the pool, megc's lexer and parser, scopes, allocator, code generation and the
front end of libprotocols, each with its proofs; expressions of libprotocols,
model-checked. Left, most useful first:

1. `GoodTextAccepted` as a theorem, from `Nest` and a part for each condition of
   `WellLaidOut`.
2. The recovery within the heads of statements.
3. `TextAccountedFor` as an invariant of a machine that keeps the yield of what it has
   parsed as a variable, with one step per handler, as `MegcParser` has.

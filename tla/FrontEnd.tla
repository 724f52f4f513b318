------------------------------ MODULE FrontEnd ------------------------------
(***************************************************************************)
(* The front end of libprotocols at the level of lines and statements: the *)
(* lexer's indentation, the loops of the parser over the lines of the      *)
(* module and of operations (Code/Parse/Parser.c), and what the semantic   *)
(* analysis (Code/Semantic/Semantics.c) does with every statement: its     *)
(* stack of scopes, the syntax tree and the builder's cursor in it, the    *)
(* control-flow analysis when a function is closed.                        *)
(*                                                                         *)
(* The text is chosen while it is read. A statement is well formed up to   *)
(* the end of its line; its expression is known by what it uses, its type  *)
(* and how many operators are above the use (see Expressions).             *)
(***************************************************************************)
EXTENDS OffsideLexer, FlowAnalysis, FiniteSets

CONSTANT Menus  \* a sequence of kinds of texts: [begin: lines they begin with,
                \* lines: the lines that may follow, max: how many lines in all]

VARIABLES menu,     \* the kind of text, an index of Menus
          text,     \* the lines read so far
          lex,      \* the lexer
          pc,       \* "statement", or "indent" where a block must begin
          frames,   \* activations of parserParseOperationScope: the data of `tok`
          scopes,   \* self->scopeStack, the last one is the current scope
          tree,     \* self->builder
          reported, \* an error has been reported
          status    \* "running", "done", "rejected", or how the program stopped

vars == <<menu, text, lex, pc, frames, scopes, tree, reported, status>>

Body_ == Last(text).body
Here  == Len(text)

\* The statements of an operation, and what no statement begins with.
SimpleKinds == {"obj", "expr", "return", "break", "continue"}
BlockKinds  == {"if", "or", "else", "while", "loop"}
StrayKinds  == {"func", "stray"}

IsStatement(l) == l.body.kind \in SimpleKinds \cup BlockKinds \cup StrayKinds

TextLine(l) == /\ DOMAIN l = {"ind", "body", "nl"}
               /\ l.ind \in Mixed .. Address /\ l.nl \in BOOLEAN
               /\ IsStatement(l) \/ l.body.kind \in {"blank", "comment", "bad"}
               /\ l.body.params \in Seq(STRING) /\ l.body.expr.depth \in Nat

ASSUME MenusAssumption ==
  \A m \in DOMAIN Menus :
    /\ Menus[m].begin \in Seq(ToSet(Menus[m].begin))
    /\ \A l \in ToSet(Menus[m].begin) \cup Menus[m].lines : TextLine(l)

-----------------------------------------------------------------------------
(* The lexer reads. *)

Running == status = "running"

\* The lines the text can go on with.
NextLines == IF Len(text) < Len(Menus[menu].begin) THEN {Menus[menu].begin[Here + 1]}
             ELSE IF Here < Menus[menu].max THEN Menus[menu].lines ELSE {}

MayEnd == lex.at = "end" \/ (lex.at = "fresh" /\ Here >= Len(Menus[menu].begin))

Read(l) == /\ lex' = Reads(lex, l)
           /\ reported' = (reported \/ Complains(lex, l))

PassOverBlank ==
  /\ Running /\ lex.reading /\ lex.at = "fresh"
  /\ \E l \in NextLines : /\ PassesOver(lex, l)
                          /\ text' = Append(text, l)
                          /\ lex' = [lex EXCEPT !.indented = Indented(lex, l.ind)]
  /\ UNCHANGED <<menu, pc, frames, scopes, tree, reported, status>>

ReadLine ==
  /\ Running /\ lex.reading /\ lex.at = "fresh"
  /\ \E l \in NextLines : /\ ~PassesOver(lex, l)
                          /\ text' = Append(text, l)
                          /\ Read(l)
  /\ UNCHANGED <<menu, pc, frames, scopes, tree, status>>

\* What was left of the last line.
ReadAgain ==
  /\ Running /\ lex.reading
  /\ \/ lex.at = "again"  /\ Read(Last(text))
     \/ lex.at = "inside" /\ Read(RestOf(Last(text)))
  /\ UNCHANGED <<menu, text, pc, frames, scopes, tree, status>>

ReadEnd ==
  /\ Running /\ lex.reading /\ MayEnd
  /\ lex' = ReadsEnd(lex)
  /\ UNCHANGED <<menu, text, pc, frames, scopes, tree, reported, status>>

-----------------------------------------------------------------------------
(* What the parser sees. *)

InModule    == frames = <<>>
NoToken     == Running /\ ~lex.reading /\ lex.toks = <<>>
Sees(tok)   == /\ Running /\ ~lex.reading /\ lex.toks # <<>>
               /\ Head(lex.toks).tok = tok
Parsing     == pc = "statement"
Statement(kinds) == Parsing /\ Sees("STATEMENT") /\ Body_.kind \in kinds

Take(n) == lex' = Taken(lex, n)

\* The program stops: pros_panic, a null pointer, ... An error may have been
\* reported before.
StopAfter(error, how) ==
  /\ status' = how /\ reported' = (reported \/ error)
  /\ UNCHANGED <<menu, text, lex, pc, frames, scopes, tree>>

Stop(how) == StopAfter(FALSE, how)

-----------------------------------------------------------------------------
(* Scopes. *)

Scope(owner, node, decls) ==
  [owner |-> owner, node |-> node, ind |-> Unset, decls |-> decls]

CurrentScope == Last(scopes)

\* The type a name is declared with in scopes ss, "none" if it is not.
HasDeclWithId(ss, name) ==
  IF \E i \in DOMAIN ss : \E d \in ss[i].decls : d.name = name
  THEN LET i == CHOOSE i \in DOMAIN ss :
                  /\ \E d \in ss[i].decls : d.name = name
                  /\ \A j \in i + 1 .. Len(ss) : \A d \in ss[j].decls : d.name # name
       IN (CHOOSE d \in ss[i].decls : d.name = name).type
  ELSE "none"

Shallow(ss) == <<Last(ss)>>

\* Evaluates an expression below the current node of t. One that uses what is not
\* declared, or what is not of the type of the other operands, is reported, and
\* the cursor stays at the operators above the use.
Evaluate(t, e) ==
  LET used == HasDeclWithId(scopes, e.use)
      type == CASE e.use = "" -> e.type
                [] e.use # "" -> IF e.depth > 0 /\ used # e.type THEN "none" ELSE used
      left == IF type = "none" THEN [i \in 1 .. e.depth |-> 0] ELSE <<>>
  IN [type |-> type,
      tree |-> [t EXCEPT !.cursor = @ \o left,
                         !.nodes[Newest(t)].val = IF type = "none" THEN "bad" ELSE "good"]]

\* mutant: the cursor stays at the expression
ActOnExpressionBonsaiStays(t, e) == Evaluate(AddExpression(t), e)

ActOnExpressionBonsai(t, e) ==
  LET v == Evaluate(AddExpression(t), e)
  IN IF v.type = "none" THEN v ELSE [v EXCEPT !.tree = TraverseUp(@)]

\* The data of the token seen is that of the activation's `tok`.
Seen == IF InModule THEN frames
        ELSE [frames EXCEPT ![Len(frames)] = Head(lex.toks).data]

CreateScope(t) == AddOperationNode(t, Here)

\* A block is to be parsed next, for the operation t is at. Its scope is on top of
\* the scopes ss.
Opens(t, owner, ss, decls, error) ==
  IF t = Panicked THEN Stop("panic")
  ELSE /\ tree' = t
       /\ scopes' = Append(ss, Scope(owner, CurrentId(t), decls))
       /\ frames' = Append(Seen, 0)
       /\ pc' = "indent"
       /\ reported' = (reported \/ error)
       /\ Take(1)
       /\ UNCHANGED <<menu, text, status>>

\* The statement is done, or was reported; n tokens of its line are taken.
Goes(t, error, n) ==
  /\ tree' = t /\ reported' = (reported \/ error) /\ Take(n)
  /\ frames' = Seen
  /\ UNCHANGED <<menu, text, pc, scopes, status>>

Refuse == Goes(tree, TRUE, 1)

-----------------------------------------------------------------------------
(* The begin of a block: parserExpectationMatch(INDENT). *)

Expecting == pc = "indent"

\* `while (lex->tokCount)` of the operation finds no token behind the indentation
\* when an unknown character follows it.
BlockBegins ==
  /\ Expecting /\ Sees("INDENT")
  /\ IF Len(lex.toks) = 1 THEN Stop("panic")
     ELSE /\ scopes' = [scopes EXCEPT ![Len(scopes)].ind = Head(lex.toks).data]
          /\ pc' = "statement"
          /\ Take(1)
          /\ UNCHANGED <<menu, text, frames, tree, reported, status>>

BlockAwaited ==
  /\ Expecting
  /\ \/ (NoToken \/ Sees("EOL")) /\ lex' = Call(lex)
     \/ Sees("DEDENT") /\ Take(1)
  /\ UNCHANGED <<menu, text, pc, frames, scopes, tree, reported, status>>

-----------------------------------------------------------------------------
(* The end of a block: prosSemantics_actOnOperationScope. *)

\* What the code generator knows in the body of a function: declarations and
\* expression statements, all evaluated.
Generates(t, f) ==
  \A i \in ToSet(t.nodes[t.nodes[f].block].kids) :
    /\ t.nodes[i].kind \in {"DECL_OBJECT", "EXPRESSION_STATEMENT"}
    /\ t.nodes[i].val = "good"

IsFunc(id) == tree.nodes[id].kind = "DECL_FUNC"

\* prosScope_del: up from the operation and from its owner.
DelScope(t) == TraverseUp(TraverseUp(t))

\* The innermost block ends at a token with data d, and the parser goes on with
\* lexer next. An error has been reported where the block did not even begin.
CloseBlock(d, next, error) ==
  LET f       == CurrentScope.owner
      verdict == IF IsFunc(f) THEN AnalyzeFunc(tree, f) ELSE "falls"
      missing == IsFunc(f) /\ verdict = "falls" /\ tree.nodes[f].type # "void"
      closed  == DelScope(tree)
  IN CASE CurrentScope.ind <= d -> StopAfter(error, "panic")
       [] CurrentScope.ind > d /\ verdict \in Stops -> StopAfter(error, verdict)
       [] CurrentScope.ind > d /\ verdict \notin Stops /\ IsFunc(f) /\ ~Generates(tree, f) ->
            StopAfter(error \/ missing, "generator")
       [] OTHER ->
            IF closed = Panicked THEN StopAfter(error \/ missing, "panic")
            ELSE /\ tree' = closed
                 /\ scopes' = Front(scopes)
                 /\ frames' = Front(frames)
                 /\ pc' = "statement"
                 /\ lex' = next
                 /\ reported' = (reported \/ error \/ missing)
                 /\ UNCHANGED <<menu, text, status>>

\* What stands where the block must begin is left for the statements around it.
BlockMissing == /\ Expecting
                /\ Sees("STATEMENT") \/ Sees("EOF")
                /\ CloseBlock(Head(lex.toks).data, lex, TRUE)

BlockEnds ==
  /\ Parsing /\ ~InModule
  /\ \/ Sees("DEDENT") /\ CloseBlock(Head(lex.toks).data, Taken(lex, 1), FALSE)
     \/ Sees("EOF")    /\ CloseBlock(0, Taken(lex, 1), FALSE)
     \/ NoToken        /\ CloseBlock(Last(frames), Call(lex), FALSE)

-----------------------------------------------------------------------------
(* The loops of parserParseOperationScope and prosParser_parseAll. *)

\* mutant: goes on with the line that ended
LineEndsAgain == Parsing /\ Sees("EOL") /\ UNCHANGED vars

LineEnds ==
  /\ Parsing /\ Sees("EOL")
  /\ lex' = Call(lex) /\ frames' = Seen
  /\ UNCHANGED <<menu, text, pc, scopes, tree, reported, status>>

\* "This should not happen."
BadIndentation ==
  /\ Parsing
  /\ Sees("INDENT") \/ (InModule /\ Sees("DEDENT"))
  /\ Stop("panic")

\* An expression statement is tried, reported, and tried again.
StrayInBlock ==
  /\ Statement(StrayKinds) /\ ~InModule
  /\ reported' = TRUE
  /\ UNCHANGED <<menu, text, lex, pc, frames, scopes, tree, status>>

StrayInModule ==
  /\ Parsing /\ InModule /\ Sees("STATEMENT") /\ Body_.kind # "func"
  /\ reported' = TRUE /\ status' = "rejected"
  /\ UNCHANGED <<menu, text, lex, pc, frames, scopes, tree>>

\* prosSemantics_actOnEndOfFile closes the scopes that are left. It is also called
\* when a line gives no token, on which an assertion would stop the program.
EndOfFile ==
  /\ Parsing /\ InModule /\ (NoToken \/ Sees("EOF"))
  /\ scopes' = <<>> /\ status' = "done"
  /\ UNCHANGED <<menu, text, lex, pc, frames, tree, reported>>

-----------------------------------------------------------------------------
(* Statements. *)

\* Declarations of parameters from the i-th on, those of a name seen before left
\* out; what is put in scope with them.
ActOnParameter(acc, i) ==
  LET names == Body_.params
  IN IF \E j \in 1 .. i - 1 : names[j] = names[i] THEN [acc EXCEPT !.error = TRUE]
     ELSE LET t == AddFuncParameterDecl(acc.tree, i - 1)
          IN [tree  |-> TraverseUp(t),
              decls |-> acc.decls \cup {[name |-> names[i], type |-> "int"]},
              error |-> acc.error]

ActOnParameters(t) ==
  LET after[i \in 0 .. Len(Body_.params)] ==
        IF i = 0 THEN [tree |-> t, decls |-> {}, error |-> FALSE]
        ELSE ActOnParameter(after[i - 1], i)
  IN  after[Len(Body_.params)]

ActOnFuncDecl ==
  LET f     == AddFuncDecl(tree, Body_.type, Here)
      o     == CreateScope(f)
      h     == AddNodeHandleNode(o)
      p     == ActOnParameters(h)
      known == HasDeclWithId(Shallow(scopes), Body_.name) # "none"
      ss    == [scopes EXCEPT ![1].decls = @ \cup {[name |-> Body_.name, type |-> Body_.type]}]
  IN \/ known /\ Refuse
     \/ ~known /\ f = Panicked /\ Stop("panic")
     \/ /\ ~known /\ f # Panicked /\ Body_.params = <<>>
        /\ Opens(o, CurrentId(f), ss, {}, FALSE)
     \/ /\ ~known /\ f # Panicked /\ Body_.params # <<>>
        /\ IF p.tree = Panicked THEN StopAfter(p.error, "panic")
           ELSE Opens([TraverseUp(p.tree) EXCEPT !.nodes[CurrentId(f)].params = CurrentId(h)],
                      CurrentId(f), ss, p.decls, p.error)

FuncDecl == /\ Parsing /\ InModule /\ Sees("STATEMENT") /\ Body_.kind = "func"
            /\ ActOnFuncDecl

\* The type is inferred, or must be that of the initializer, in whose evaluation
\* the name is not known yet.
ActOnObjectDecl ==
  LET o     == AddObjectDecl(tree, Here)
      v     == ActOnExpressionBonsai(o, Body_.expr)
      known == HasDeclWithId(Shallow(scopes), Body_.name) # "none"
      fits  == v.type # "none" /\ Body_.type \in {"", v.type}
  IN \/ known /\ Refuse
     \/ ~known /\ o = Panicked /\ Stop("panic")
     \/ ~known /\ o # Panicked /\ ~fits /\ Goes(v.tree, TRUE, 1)
     \/ /\ ~known /\ o # Panicked /\ fits
        /\ tree' = TraverseUp(v.tree)
        /\ scopes' = [scopes EXCEPT ![Len(scopes)].decls =
                         @ \cup {[name |-> Body_.name, type |-> v.type]}]
        /\ Take(1) /\ frames' = Seen
        /\ UNCHANGED <<menu, text, pc, reported, status>>

ObjectDecl == Statement({"obj"}) /\ ~InModule /\ ActOnObjectDecl

\* An if or a while: the node n was added to its operation.
ActOnCondition(n) ==
  LET v == ActOnExpressionBonsai(n, Body_.expr)
  IN \/ n = Panicked /\ Stop("panic")
     \/ n # Panicked /\ v.type # "bool" /\ Goes(v.tree, TRUE, 1)
     \/ n # Panicked /\ v.type = "bool" /\ Opens(CreateScope(v.tree), CurrentId(n), scopes, {}, FALSE)

ActOnIfStatement    == ActOnCondition(AddIfStatementNode(tree, Here))
ActOnWhileStatement == ActOnCondition(AddWhileStatementNode(tree, Here))

IfStatement    == Statement({"if"}) /\ ~InModule /\ ActOnIfStatement
WhileStatement == Statement({"while"}) /\ ~InModule /\ ActOnWhileStatement

ActOnLoopStatement ==
  LET n == AddLoopStatementNode(tree, Here)
  IN IF n = Panicked THEN Stop("panic")
     ELSE Opens(CreateScope(n), CurrentId(n), scopes, {}, FALSE)

LoopStatement == Statement({"loop"}) /\ ~InModule /\ ActOnLoopStatement

\* The last statement of the current scope, 0 if there is none.
LastStatement == LET kids == tree.nodes[CurrentScope.node].kids
                 IN IF kids = <<>> THEN 0 ELSE Last(kids)

\* The last if of a chain of them.
ChainEnd[id \in DOMAIN tree.nodes] ==
  IF tree.nodes[id].ifType = "IF_OR" THEN ChainEnd[tree.nodes[id].elseBlock] ELSE id

\* The if an `or` or an `else` continues, 0 if there is none or it has its else.
Continued ==
  IF LastStatement = 0 THEN 0
  ELSE IF /\ tree.nodes[LastStatement].kind = "IF_STATEMENT"
          /\ tree.nodes[ChainEnd[LastStatement]].ifType = "IF"
       THEN ChainEnd[LastStatement] ELSE 0

\* The new if becomes a statement of the operation and the rest of the other one.
ActOnOrStatement ==
  LET n      == AddIfStatementNode(tree, Here)
      v      == ActOnExpressionBonsai(n, Body_.expr)
      linked == [v.tree EXCEPT !.nodes[Continued].elseBlock = CurrentId(n),
                               !.nodes[Continued].ifType = "IF_OR"]
  IN \/ Continued = 0 /\ Refuse
     \/ Continued # 0 /\ n = Panicked /\ Stop("panic")
     \/ Continued # 0 /\ n # Panicked /\ v.type # "bool" /\ Goes(v.tree, TRUE, 1)
     \/ /\ Continued # 0 /\ n # Panicked /\ v.type = "bool"
        /\ Opens(CreateScope(linked), CurrentId(n), scopes, {}, FALSE)

ActOnElseStatement ==
  LET down == [TraverseDown(tree, Continued) EXCEPT !.nodes[Continued].ifType = "IF_ELSE"]
  IN \/ Continued = 0 /\ Refuse
     \/ Continued # 0 /\ Opens(CreateScope(down), Continued, scopes, {}, FALSE)

OrStatement   == Statement({"or"}) /\ ~InModule /\ ActOnOrStatement
ElseStatement == Statement({"else"}) /\ ~InModule /\ ActOnElseStatement

\* The parser has taken the end of the line too.
ActOnExpressionStatement ==
  LET n == AddExpressionStatementNode(tree, Here)
      v == Evaluate(n, Body_.expr)
  IN \/ n = Panicked /\ Stop("panic")
     \/ n # Panicked /\ v.type = "none" /\ Goes(v.tree, TRUE, 2)
     \/ n # Panicked /\ v.type # "none" /\ Goes(TraverseUp(v.tree), FALSE, 2)

ExpressionStatement == Statement({"expr"}) /\ ~InModule /\ ActOnExpressionStatement

\* The loop a break or a continue is for: of all scopes, the outermost that is
\* not a simple loop.
LoopToLeave ==
  LET loops == {i \in 2 .. Len(scopes) : tree.nodes[scopes[i].owner].kind = "WHILE_STATEMENT"}
  IN IF loops = {} THEN 0
     ELSE scopes[CHOOSE i \in loops : \A j \in loops : i <= j].owner

ActOnLeave(n) == \/ LoopToLeave = 0 /\ Goes(tree, TRUE, 2)
                 \/ LoopToLeave # 0 /\ n = Panicked /\ Stop("panic")
                 \/ LoopToLeave # 0 /\ n # Panicked /\ Goes(TraverseUp(n), FALSE, 2)

ActOnBreakStatement    == ActOnLeave(AddBreakStatementNode(tree, LoopToLeave, Here))
ActOnContinueStatement == ActOnLeave(AddContinueStatementNode(tree, LoopToLeave, Here))

BreakStatement    == Statement({"break"}) /\ ~InModule /\ ActOnBreakStatement
ContinueStatement == Statement({"continue"}) /\ ~InModule /\ ActOnContinueStatement

ActOnReturnStatement ==
  LET n    == AddReturnStatementNode(tree, Here)
      v    == ActOnExpressionBonsai(n, Body_.expr)
      fits == v.type # "none" /\ v.type = tree.nodes[scopes[2].owner].type
  IN \/ n = Panicked /\ Stop("panic")
     \/ n # Panicked /\ ~fits /\ Goes(v.tree, TRUE, 2)
     \/ n # Panicked /\ fits /\ Goes(TraverseUp(v.tree), FALSE, 2)

ReturnStatement == Statement({"return"}) /\ ~InModule /\ ActOnReturnStatement

-----------------------------------------------------------------------------
\* prosSemantics_initModuleScope and the first line.
Init ==
  /\ menu \in DOMAIN Menus
  /\ text = <<>>
  /\ lex = Call(NewLexer)
  /\ pc = "statement" /\ frames = <<>>
  /\ tree = AddModuleNode(EmptyTree)
  /\ scopes = <<Scope(0, 1, {})>>
  /\ reported = FALSE /\ status = "running"

Lex   == PassOverBlank \/ ReadLine \/ ReadAgain \/ ReadEnd
Block == BlockBegins \/ BlockAwaited \/ BlockMissing \/ BlockEnds
Line  == LineEnds \/ BadIndentation \/ StrayInBlock \/ StrayInModule \/ EndOfFile
Parse == \/ FuncDecl \/ ObjectDecl \/ ExpressionStatement \/ ReturnStatement
         \/ IfStatement \/ OrStatement \/ ElseStatement
         \/ WhileStatement \/ LoopStatement \/ BreakStatement \/ ContinueStatement

Next == Lex \/ Block \/ Line \/ Parse

\* One thread that runs until it stops.
Spec == Init /\ [][Next]_vars /\ WF_vars(Next)

-----------------------------------------------------------------------------
(* What lines and nodes are to each other, for the properties. *)

HasBlock(l)    == l.body.kind \in BlockKinds \cup {"func"}
Statements     == {i \in DOMAIN text : IsStatement(text[i])}
Nodes          == DOMAIN tree.nodes
OfKind(kind)   == {i \in Nodes : tree.nodes[i].kind = kind}
Operations     == OfKind("SCOPE_OPERATION")
InBlock(o)     == ToSet(tree.nodes[o].kids)
BlockOf(i)     == CHOOSE o \in Operations : i \in InBlock(o)
OwnerOf(o)     == CHOOSE i \in Nodes : o \in {tree.nodes[i].block, tree.nodes[i].elseBlock}

\* The line a block belongs to by its indentation.
Header(i) == LET above == {j \in Statements : j < i /\ text[j].ind < text[i].ind}
             IN IF above = {} THEN 0 ELSE CHOOSE j \in above : \A k \in above : k <= j

\* A comment is indented like the line behind it, and deeper than a line above
\* that has a block: lines of comments only have INDENT and DEDENT tokens too.
CommentsFit ==
  LET written == {i \in DOMAIN text : text[i].body.kind # "blank"}
      Next_(i, j) == i < j /\ \A k \in written : k <= i \/ j <= k
  IN \A i, j \in written : Next_(i, j) =>
       /\ text[i].body.kind = "comment" => text[j].ind = text[i].ind
       /\ text[j].body.kind = "comment" /\ HasBlock(text[i]) => text[j].ind > text[i].ind

FuncsAtMargin == \A i \in Statements : text[i].body.kind = "func" => text[i].ind = 0

\* A statement is deeper than the one before just when that one has a block, and
\* goes back to a level that is open.
LaidOut(i) ==
  LET before == {j \in Statements : j < i}
      p      == CHOOSE j \in before : \A k \in before : k <= j
  IN IF before = {} THEN text[i].body.kind = "func"
     ELSE /\ HasBlock(text[p]) <=> text[i].ind > text[p].ind
          /\ text[i].ind < text[p].ind =>
               \E j \in before : /\ text[j].ind = text[i].ind
                                  /\ \A k \in before : k > j => text[k].ind >= text[i].ind

WellLaidOut == /\ FuncsAtMargin /\ CommentsFit
               /\ \A i \in Statements : LaidOut(i)
               /\ \A i \in DOMAIN text : text[i].nl /\ (text[i].body.kind = "comment" => \E j \in Statements : j > i)

LeavesIfs == \E i \in OfKind("BREAK_STATEMENT") \cup OfKind("CONTINUE_STATEMENT") :
               tree.nodes[OwnerOf(BlockOf(i))].kind = "IF_STATEMENT"

-----------------------------------------------------------------------------
(* Properties. *)

\* Every variable has its type; there is an activation for every scope but that
\* of the module, and no token is left while a line is read.
TypeOK ==
  /\ menu \in DOMAIN Menus /\ pc \in {"statement", "indent"} /\ reported \in BOOLEAN
  /\ status \in {"running", "done", "rejected", "panic", "crash", "generator"}
  /\ \A i \in DOMAIN frames : frames[i] \in 0 .. Address
  /\ status # "done" => Len(scopes) = Len(frames) + 1
  /\ \A i \in DOMAIN scopes : scopes[i].owner \in 0 .. Newest(tree) /\ scopes[i].node \in Nodes
  /\ ToSet(tree.cursor) \subseteq 0 .. Newest(tree)
  /\ lex.reading => lex.toks = <<>>

\* The cursor of the builder has a place for every open scope, whatever errors
\* were reported, so that closing scopes never goes above the module
\* (ASTContext.c 54, Scope.c 82); and without an error it is at the operation of
\* the current scope, where the next statement belongs.
CursorFollowsScopes ==
  /\ status # "done" => Len(tree.cursor) >= 2 * Len(scopes) - 1
  /\ Running /\ ~reported =>
       tree.cursor = [k \in 1 .. 2 * Len(scopes) - 1 |->
                        IF k % 2 = 1 THEN scopes[(k + 1) \div 2].node
                        ELSE scopes[k \div 2 + 1].owner]

\* The parser finds the blocks by counting INDENT and DEDENT tokens, its calls and
\* its scopes; what comes out is the nesting one sees: a statement is in the block
\* of the last line above it that is less indented (Parser.c 1192, Lexer.c 235).
NestsByIndentation ==
  ~reported /\ FuncsAtMargin /\ CommentsFit =>
    \A o \in Operations : \A i \in InBlock(o) : Header(tree.nodes[i].at) = tree.nodes[o].at

\* An if has what its ifType says behind it (AST.h 90): nothing, the if that
\* continues it, which is the next statement of the same operation, or an
\* operation. The loop of a break is one of those around it, by the indentation of
\* the lines between them (Semantics.c 1332).
TreeIsChained ==
  ~reported =>
    /\ \A i \in OfKind("IF_STATEMENT") :
         LET n == tree.nodes[i]   kids == tree.nodes[BlockOf(i)].kids
         IN CASE n.ifType = "IF"      -> n.elseBlock = 0
              [] n.ifType = "IF_ELSE" -> n.elseBlock \in Operations \ {n.block}
              [] n.ifType = "IF_OR"   -> \E k \in 2 .. Len(kids) :
                                           kids[k - 1] = i /\ kids[k] = n.elseBlock
    /\ \A i \in Nodes : tree.nodes[i].to # 0 =>
         LET from == tree.nodes[tree.nodes[i].to].at
         IN FuncsAtMargin /\ CommentsFit =>
              \A k \in Statements : from < k /\ k <= tree.nodes[i].at => text[k].ind > text[from].ind

\* What the control-flow analysis says of a function (CFG.c 256) is what the ways
\* through its statements say; with `or` it may only be wrong in accepting.
ReturnsFound ==
  LET f == scopes[2].owner   verdict == AnalyzeFunc(tree, f)
  IN Running /\ ~reported /\ ~InModule =>
       IF verdict \in Stops THEN TRUE
       ELSE /\ AllPathsReturn(tree, f) => verdict = "returns"
            /\ Continues(tree) = {} /\ verdict = "returns" => AllPathsReturn(tree, f)

\* "Non-void function should return a value.", CFG.c 256: it is accepted only if
\* there is a value on every way through it.
ReturnsOnEveryPath ==
  Running /\ ~reported /\ ~InModule /\ AnalyzeFunc(tree, scopes[2].owner) = "returns" =>
    AllPathsReturn(tree, scopes[2].owner)

\* A text laid out as it should be, of which nothing is reported, is not what
\* stops the parser: no panic, but for a break in an if, and no null pointer in the
\* analysis of a block that is missing or empty (Parser.c 1218, 1233, 1313,
\* Semantics.c 153, CFG.c 256).
GoodTextAccepted ==
  WellLaidOut /\ ~reported => status # "crash" /\ (status = "panic" => LeavesIfs)

\* The places where the parser reports the same error for ever: a token that no
\* statement begins with, an unknown character where a block must begin.
Stuck == \/ Statement(StrayKinds) /\ ~InModule
         \/ Expecting /\ lex.at = "inside"

\* Anywhere else it comes to an end, whatever the text.
Terminates == <>(~Running \/ Stuck)

=============================================================================

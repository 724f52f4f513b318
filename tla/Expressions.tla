---------------------------- MODULE Expressions ----------------------------
(***************************************************************************)
(* Expressions of libprotocols: the parser by precedence that makes a      *)
(* "bonsai" of a text (Code/Parse/Parser.c), and the evaluation that makes *)
(* syntax tree nodes of the bonsai and finds the type                      *)
(* (Code/Semantic/Semantics.c, Code/AST/ASTBuilder.c).                     *)
(*                                                                         *)
(* A token is [tok, name, lit]: its kind, the name of an ID, the           *)
(* characters of a NUMBER. A text may go over lines: EOL is a token, and   *)
(* BAD stands for a character no token begins with, where the lexer ends   *)
(* the line without one, and begins the same line again when it is asked   *)
(* for the next. A bonsai is a sequence of nodes, which know each other by *)
(* index; the last one is the root.                                        *)
(***************************************************************************)
EXTENDS SyntaxTree, Integers

CONSTANTS Texts,    \* the texts: sequences of tokens
          Declared  \* the names in scope: [as, type, params], params a sequence of types

VARIABLES text,
          parser,   \* [at, bonsai, args, bad, ok, stop]: the next token, what was made so far,
                    \* the arguments of a call, an error was reported, the last handler
                    \* succeeded, the program panicked or reads one line for ever
          tree,     \* the builder, at an expression statement
          type,     \* of the expression, "none" if there is none
          status    \* "parse", "evaluate", "done", "refused", "panic"

vars == <<text, parser, tree, type, status>>

-----------------------------------------------------------------------------
(* The tokens of the line: parserGetToken, parserGetAndPopToken and          *)
(* parserExpectationMatch.                                                   *)

Layout == {"EOL", "INDENT", "DEDENT"}

Token(p) == IF p.at = Len(text) + 1 THEN "EOF"
            ELSE IF p.at > Len(text) + 1 \/ text[p.at].tok = "BAD" THEN "NONE"
            ELSE text[p.at].tok

Pop(p) == IF Token(p) = "NONE" THEN p ELSE [p EXCEPT !.at = @ + 1]

\* The first token of the line of a BAD when the line is read again: its
\* indentation is the current one by then.
LineStart(at) == CHOOSE k \in 1 .. at : /\ \A j \in k .. at : text[j].tok \notin Layout
                                        /\ k > 1 => text[k - 1].tok \in Layout

\* What is left of the line is one token at most: an EOL. After the end of the
\* text there is another EOF.
GetLine(p) == [p EXCEPT !.at = CASE @ > Len(text)                              -> Len(text) + 1
                                 [] @ <= Len(text) /\ text[@].tok = "BAD"      -> LineStart(@)
                                 [] @ <= Len(text) /\ text[@].tok # "BAD"      -> @ + 1]

RECURSIVE Expect(_, _)

\* A line that begins with BAD is read for ever; the parser is left there.
Endless(p) == Token(p) = "NONE" /\ GetLine(p) = p

\* The parser at the token that is tok or what stands in its place: line ends and
\* indentation are passed over.
Expect(p, tok) ==
  CASE Token(p) # tok /\ Token(p) \in {"NONE", "EOL"} /\ ~Endless(p) -> Expect(GetLine(p), tok)
    [] Token(p) # tok /\ Token(p) \in {"INDENT", "DEDENT"}           -> Expect(Pop(p), tok)
    [] OTHER                                                         -> p

-----------------------------------------------------------------------------
(* The parser. *)

Failed(p) == [p EXCEPT !.bad = TRUE, !.ok = FALSE]

\* A node for the token at `at` with nodes `of` below it is pushed.
Grow(p, kind, at, of) ==
  [p EXCEPT !.ok = TRUE, !.bonsai = Append(@, [kind |-> kind, at |-> at, of |-> of])]

Root(p) == Len(p.bonsai)

Unary_     == {"PLUS", "MINUS", "EXCLAMATION"}
UnaryPrec  == 4

LedPrecedence(tok) ==
  CASE tok \in {"PLUS", "MINUS"}                                    -> 2
    [] tok \in {"STAR", "SLASH"}                                    -> 3
    [] tok = "PAREN_OPEN"                                           -> 5
    [] tok \in {"EQUAL", "PLUSEQUAL", "MINUSEQUAL", "STAREQUAL", "SLASHEQUAL"} -> 6
    [] OTHER                                                        -> 0

\* mutant: an operator of the same precedence is taken too
BindsEqual(tok, precedence) == LedPrecedence(tok) >= precedence /\ LedPrecedence(tok) > 0

Binds(tok, precedence) == LedPrecedence(tok) > precedence

RECURSIVE Expression(_, _), Leds(_, _), Arguments(_, _)

GetDeclRef(p)        == Grow(Pop(p), "DECL_REF", p.at, <<>>)
GetNumberLiteral(p)  == Grow(Pop(p), "NUMBER_LITERAL", p.at, <<>>)
GetBooleanLiteral(p) == Grow(Pop(p), "BOOL_LITERAL", p.at, <<>>)

\* Without a right operand the token found instead is taken.
GetBinaryOperator(p) ==
  LET r == Expression(Pop(p), LedPrecedence(Token(p)))
  IN CASE r.stop            -> r
       [] ~r.stop /\ ~r.ok  -> Failed(Pop(r))
       [] r.ok              -> Grow(r, "BIN_OP", p.at, <<Root(p), Root(r)>>)

GetUnaryOperator(p) ==
  LET r == Expression(Pop(p), UnaryPrec)
  IN CASE r.stop            -> r
       [] ~r.stop /\ ~r.ok  -> Failed(r)
       [] r.ok              -> Grow(r, "UNA_OP", p.at, <<Root(r)>>)

\* The closing parenthesis must be on the line the expression ends on.
GetParenExpr(p) ==
  LET r == Expression(Pop(p), 0)
  IN CASE r.stop                                             -> r
       [] ~r.stop /\ ~(r.ok /\ Token(r) = "PAREN_CLOSE")     -> Failed(r)
       [] r.ok /\ Token(r) = "PAREN_CLOSE" -> Grow(Pop(r), "PAREN", p.at, <<Root(r)>>)

\* Only what was pushed last can be called, and only a name.
GetCallOperator(p) ==
  LET a == Pop(p)
  IN IF p.bonsai[Root(p)].kind # "DECL_REF" THEN Failed(p)
     ELSE IF Token(a) = "PAREN_CLOSE" THEN Grow(Pop(a), "CALL_OP", p.at, <<Root(p)>>)
     ELSE LET r == Arguments(a, <<Root(p)>>)
          IN IF r.ok THEN Grow(r, "CALL_OP", p.at, r.args) ELSE r

\* The arguments from the next one on, up to the `)`. (A line that begins with a
\* comma and has a BAD gives its arguments again and again: no such text is read.)
Arguments(p, of) ==
  LET r == Expression(p, 0)
      c == Expect(r, "COMMA")
  IN CASE r.stop                                -> r
       [] ~r.stop /\ ~r.ok                      -> Failed(r)
       [] r.ok /\ Token(c) = "COMMA"            -> Arguments(Pop(c), Append(of, Root(r)))
       [] r.ok /\ Token(c) = "PAREN_CLOSE"      -> [Pop(c) EXCEPT !.args = Append(of, Root(r))]
       [] r.ok /\ Token(c) = "NONE"             -> [c EXCEPT !.ok = FALSE, !.stop = TRUE]
       [] r.ok /\ Token(c) \notin {"COMMA", "PAREN_CLOSE", "NONE"} -> Failed(c)

Nud(p) ==
  CASE Token(p) = "ID"               -> GetDeclRef(p)
    [] Token(p) = "NUMBER"           -> GetNumberLiteral(p)
    [] Token(p) \in {"TRUE", "FALSE"} -> GetBooleanLiteral(p)
    [] Token(p) \in Unary_           -> GetUnaryOperator(p)
    [] Token(p) = "PAREN_OPEN"       -> GetParenExpr(p)
    [] OTHER                         -> Failed(p)

Led(p) == IF Token(p) = "PAREN_OPEN" THEN GetCallOperator(p) ELSE GetBinaryOperator(p)

\* The operators behind an operand. One that fails ends them, and the expression
\* is what was pushed so far.
Leds(p, precedence) ==
  IF ~Binds(Token(p), precedence) THEN p
  ELSE LET r == Led(p)
       IN CASE r.ok              -> Leds(r, precedence)
            [] r.stop            -> r
            [] ~r.ok /\ ~r.stop  -> [r EXCEPT !.ok = TRUE]

Expression(p, precedence) ==
  LET q == Expect(p, "NONE")
      l == Nud(q)
  IN CASE Token(q) = "NONE"           -> [q EXCEPT !.ok = FALSE, !.stop = TRUE]
       [] Token(q) # "NONE" /\ l.ok   -> Leds(l, precedence)
       [] Token(q) # "NONE" /\ ~l.ok  -> l

\* "Expected the end of line."
EndsLine(p) == LET q == IF Token(p) = "NONE" THEN GetLine(p) ELSE p
               IN Token(q) \in {"EOL", "EOF"}

ParseExpressionStatement ==
  /\ status = "parse"
  /\ LET p == Expression(parser, 1)
     IN /\ parser' = [p EXCEPT !.bad = @ \/ (p.ok /\ ~EndsLine(p))]
        /\ \/ p.stop                          /\ status' = "panic"
           \/ ~p.stop /\ ~(p.ok /\ EndsLine(p)) /\ status' = "refused"
           \/ p.ok /\ EndsLine(p)             /\ status' = "evaluate"
  /\ UNCHANGED <<text, tree, type>>

-----------------------------------------------------------------------------
(* Literals. Their characters are the digits as numbers, and letters.        *)

LetterX == 10  LetterU == 11  LetterQ == 12   \* x, b or o; u or U; another one
IsDigit(c) == c <= 9

RECURSIVE Power(_, _)

\* semanticsPower; the base has eight bits.
Power(base, exponent) ==
  IF exponent = 0 THEN 1
  ELSE (IF exponent % 2 = 1 THEN base ELSE 1) * Power((base * base) % 256, exponent \div 2)

\* mutant: the last digit counts tenfold
PlaceFromOne(len, i) == Power(10, len - i + 1)

Place(len, i) == Power(10, len - i)

\* The value of a literal, -1 if it is refused. 0x, 0b and 0o are, and of other
\* letters only a u at the end is taken.
LiteralValue(lit) ==
  LET len == Len(lit) - (IF Last(lit) = LetterU THEN 1 ELSE 0)
  IN IF \/ Len(lit) > 1 /\ lit[1] = 0 /\ ~IsDigit(lit[2])
        \/ \E i \in 1 .. len : ~IsDigit(lit[i])
     THEN -1
     ELSE FoldLeftDomain(LAMBDA v, i : v + lit[i] * Place(len, i), 0, SubSeq(lit, 1, len))

-----------------------------------------------------------------------------
(* The builder's part: a node goes to the first free place of the current one. *)

Slots(kind) == CASE kind = "BINARY_OPERATOR" -> 2
                 [] kind \in {"EXPRESSION_STATEMENT", "CALL_ARGUMENT", "PARENS",
                              "UNARY_OPERATOR", "CALL_OP"} -> 1
                 [] OTHER -> 0

ExprNode(kind) == [kind |-> kind, kids |-> <<>>, args |-> <<>>, type |-> "none", value |-> 0]

AddExprNode(t, node) ==
  IF Len(Current(t).kids) >= Slots(Current(t).kind) THEN Panicked
  ELSE Descend([AddNode(t, node) EXCEPT !.nodes[CurrentId(t)].kids = Append(@, Newest(t) + 1)])

AddDeclRefExpr(t, ty)     == AddExprNode(t, [ExprNode("DECL_REF") EXCEPT !.type = ty])
AddParensExprNode(t)      == AddExprNode(t, ExprNode("PARENS"))
AddBinaryOperatorExprNode(t) == AddExprNode(t, ExprNode("BINARY_OPERATOR"))
AddUnaryOperatorExprNode(t)  == AddExprNode(t, ExprNode("UNARY_OPERATOR"))
AddLiteralExprNode(t, ty, value) ==
  AddExprNode(t, [ExprNode("LITERAL") EXCEPT !.type = ty, !.value = value])
AddCallOperatorExprNode(t)   == AddExprNode(t, ExprNode("CALL_OP"))

\* It goes to the arguments of the call, where the cursor is, with the type of the
\* parameter.
AddCallArgumentExpression(t, ty) ==
  Descend([AddNode(t, [ExprNode("CALL_ARGUMENT") EXCEPT !.type = ty])
             EXCEPT !.nodes[CurrentId(t)].args = Append(@, Newest(t) + 1)])

-----------------------------------------------------------------------------
(* The evaluation. What has no type was reported, and leaves the cursor where  *)
(* it was then.                                                                *)

RECURSIVE EvaluateNode(_, _)

None(t)      == [type |-> "none", tree |-> t]
Typed(t, ty) == [type |-> ty, tree |-> TraverseUp([t EXCEPT !.nodes[CurrentId(t)].type = ty])]

Bonsai(i)  == parser.bonsai[i]
NameOf(i)  == text[Bonsai(i).at].name
IsDeclared(name) == name \in DOMAIN Declared

EvaluateLiteral(i, t) ==
  LET value == LiteralValue(text[Bonsai(i).at].lit)
  IN IF value = -1 THEN None(t) ELSE Typed(AddLiteralExprNode(t, "int", value), "int")

EvaluateBoolLiteral(i, t) ==
  Typed(AddLiteralExprNode(t, "bool", IF text[Bonsai(i).at].tok = "TRUE" THEN 1 ELSE 0), "bool")

\* The name of a function stands for what it returns.
EvaluateDeclReference(i, t) ==
  IF ~IsDeclared(NameOf(i)) THEN None(t)
  ELSE LET ty == Declared[NameOf(i)].type IN Typed(AddDeclRefExpr(t, ty), ty)

EvaluateParensExpr(i, t) ==
  LET v == EvaluateNode(Bonsai(i).of[1], AddParensExprNode(t))
  IN IF v.type = "none" THEN v ELSE Typed(v.tree, v.type)

EvaluateBinaryOperator(i, t) ==
  LET v == EvaluateNode(Bonsai(i).of[1], AddBinaryOperatorExprNode(t))
      w == EvaluateNode(Bonsai(i).of[2], v.tree)
  IN CASE v.type = "none"                                        -> v
       [] v.type # "none" /\ w.type = "none"                     -> w
       [] v.type # "none" /\ w.type \notin {"none", v.type}      -> None(w.tree)
       [] v.type # "none" /\ w.type = v.type                     -> Typed(w.tree, v.type)

\* mutant: the cursor stays at the operator
EvaluateUnaryOperatorStays(i, t) == EvaluateNode(Bonsai(i).of[1], AddUnaryOperatorExprNode(t))

EvaluateUnaryOperator(i, t) ==
  LET v == EvaluateNode(Bonsai(i).of[1], AddUnaryOperatorExprNode(t))
  IN IF v.type = "none" THEN v ELSE Typed(v.tree, v.type)

\* The arguments in their order, each against the type of its parameter.
EvaluateArguments(of, params, v) ==
  LET Argument(acc, k) ==
        IF acc.type = "none" THEN acc
        ELSE LET a == EvaluateNode(of[k], AddCallArgumentExpression(acc.tree, params[k]))
             IN IF a.type = "none" THEN a
                ELSE IF a.type # params[k] THEN None(a.tree)
                ELSE [acc EXCEPT !.tree = TraverseUp(a.tree)]
  IN FoldLeftDomain(Argument, v, of)

EvaluateCallOperator(i, t) ==
  LET of    == Bonsai(i).of
      d     == Declared[NameOf(of[1])]
      v     == EvaluateNode(of[1], AddCallOperatorExprNode(t))
      after == EvaluateArguments(Tail(of), d.params, v)
  IN IF \/ ~IsDeclared(NameOf(of[1]))
        \/ d.as # "function"
        \/ Len(d.params) # Len(of) - 1
     THEN None(t)
     ELSE IF after.type = "none" THEN after ELSE Typed(after.tree, v.type)

EvaluateNode(i, t) ==
  CASE Bonsai(i).kind = "BIN_OP"         -> EvaluateBinaryOperator(i, t)
    [] Bonsai(i).kind = "UNA_OP"         -> EvaluateUnaryOperator(i, t)
    [] Bonsai(i).kind = "PAREN"          -> EvaluateParensExpr(i, t)
    [] Bonsai(i).kind = "NUMBER_LITERAL" -> EvaluateLiteral(i, t)
    [] Bonsai(i).kind = "DECL_REF"       -> EvaluateDeclReference(i, t)
    [] Bonsai(i).kind = "CALL_OP"        -> EvaluateCallOperator(i, t)
    [] Bonsai(i).kind = "BOOL_LITERAL"   -> EvaluateBoolLiteral(i, t)

ActOnExpressionStatement ==
  /\ status = "evaluate"
  /\ LET v == EvaluateNode(Root(parser), tree)
     IN /\ tree' = v.tree /\ type' = v.type
        /\ parser' = [parser EXCEPT !.bad = @ \/ v.type = "none"]
  /\ status' = "done"
  /\ UNCHANGED text

-----------------------------------------------------------------------------
Init ==
  /\ text \in Texts
  /\ parser = [at |-> 1, bonsai |-> <<>>, args |-> <<>>, bad |-> FALSE, ok |-> TRUE, stop |-> FALSE]
  /\ tree = Descend(AddNode(EmptyTree, ExprNode("EXPRESSION_STATEMENT")))
  /\ type = "none" /\ status = "parse"

Next == ParseExpressionStatement \/ ActOnExpressionStatement
Spec == Init /\ [][Next]_vars

-----------------------------------------------------------------------------
(* Properties. *)

RECURSIVE Yield(_), Grouped(_), TypeOf(_), Mirrors(_, _)

\* The tokens of the text a bonsai node stands for, in order.
Yield(i) ==
  LET of == Bonsai(i).of   op == <<text[Bonsai(i).at].tok>>
      Next_(acc, k) == acc \o (IF k = 1 THEN <<>> ELSE <<"COMMA">>) \o Yield(Tail(of)[k])
  IN CASE Bonsai(i).kind = "BIN_OP"  -> Yield(of[1]) \o op \o Yield(of[2])
       [] Bonsai(i).kind = "UNA_OP"  -> op \o Yield(of[1])
       [] Bonsai(i).kind = "PAREN"   -> op \o Yield(of[1]) \o <<"PAREN_CLOSE">>
       [] Bonsai(i).kind = "CALL_OP" ->
            FoldLeftDomain(Next_, Yield(of[1]) \o op, Tail(of)) \o <<"PAREN_CLOSE">>
       [] OTHER                      -> op

\* How tightly the operator of a node binds.
Tightness(i) == CASE Bonsai(i).kind = "BIN_OP" -> LedPrecedence(text[Bonsai(i).at].tok)
                  [] Bonsai(i).kind = "UNA_OP" -> UnaryPrec
                  [] OTHER                     -> 7

\* To the left of an operator there is nothing looser, to the right of it no
\* operator with two operands that is not tighter: with its tokens this determines
\* the tree.
Grouped(i) ==
  LET of == Bonsai(i).of
      Above(j, least) == Bonsai(j).kind = "BIN_OP" => Tightness(j) > least
  IN /\ Bonsai(i).kind = "BIN_OP"  => Tightness(of[1]) >= Tightness(i) /\ Above(of[2], Tightness(i))
     /\ Bonsai(i).kind = "UNA_OP"  => Above(of[1], UnaryPrec)
     /\ Bonsai(i).kind = "CALL_OP" => Bonsai(of[1]).kind = "DECL_REF"
     /\ \A k \in DOMAIN of : Grouped(of[k])

\* The tokens that were read, but for the layout.
Written == LET read == SubSeq(text, 1, parser.at - 1)
               kept == SelectSeq(read, LAMBDA t : t.tok \notin Layout)
           IN [k \in DOMAIN kept |-> kept[k].tok]

\* The lexer reported a character of what was read.
LexerComplained ==
  \E k \in DOMAIN text : /\ text[k].tok = "BAD"
                         /\ \A j \in parser.at .. k - 1 : text[j].tok \notin {"EOL", "BAD"}

\* What the operators and the declarations say the type is.
TypeOf(i) ==
  LET of == Bonsai(i).of
      d  == Declared[NameOf(of[1])]
  IN CASE Bonsai(i).kind = "NUMBER_LITERAL" -> IF LiteralValue(text[Bonsai(i).at].lit) = -1 THEN "none" ELSE "int"
       [] Bonsai(i).kind = "BOOL_LITERAL"   -> "bool"
       [] Bonsai(i).kind = "DECL_REF"       -> IF IsDeclared(NameOf(i)) THEN Declared[NameOf(i)].type ELSE "none"
       [] Bonsai(i).kind \in {"UNA_OP", "PAREN"} -> TypeOf(of[1])
       [] Bonsai(i).kind = "BIN_OP"         -> IF TypeOf(of[1]) = TypeOf(of[2]) THEN TypeOf(of[1]) ELSE "none"
       [] Bonsai(i).kind = "CALL_OP"        ->
            IF /\ IsDeclared(NameOf(of[1])) /\ d.as = "function"
               /\ d.params = [k \in 1 .. Len(of) - 1 |-> TypeOf(of[k + 1])]
            THEN d.type ELSE "none"

\* Syntax tree node n is what bonsai node i means.
Mirrors(i, n) ==
  LET of == Bonsai(i).of   node == tree.nodes[n]   plain == IF Bonsai(i).kind = "CALL_OP" THEN 1 ELSE Len(of)
  IN /\ node.kind = CASE Bonsai(i).kind = "BIN_OP"  -> "BINARY_OPERATOR"
                      [] Bonsai(i).kind = "UNA_OP"  -> "UNARY_OPERATOR"
                      [] Bonsai(i).kind = "PAREN"   -> "PARENS"
                      [] Bonsai(i).kind = "CALL_OP" -> "CALL_OP"
                      [] Bonsai(i).kind = "DECL_REF" -> "DECL_REF"
                      [] OTHER                      -> "LITERAL"
     /\ node.type = TypeOf(i)
     /\ Len(node.kids) = plain /\ \A k \in 1 .. plain : Mirrors(of[k], node.kids[k])
     /\ Len(node.args) = Len(of) - plain
     /\ \A k \in DOMAIN node.args : LET arg == tree.nodes[node.args[k]] IN
          arg.type = TypeOf(of[k + plain]) /\ Mirrors(of[k + plain], arg.kids[1])

\* An expression nothing is reported of is the tree LED_TOKENS (Parser.c 673) gives
\* its text, over line ends and indentation too, and no token of it is skipped or
\* taken twice, although a handler that fails leaves what it pushed (Parser.c 744);
\* the parser only panics (Parser.c 726), or reads a line for ever, on a text that
\* was reported.
TextAccountedFor ==
  /\ status = "evaluate" /\ ~parser.bad /\ ~LexerComplained =>
       Yield(Root(parser)) = Written /\ Grouped(Root(parser))
  /\ status = "panic" => parser.bad \/ LexerComplained

\* An expression has a type just when declarations, parameters and operands fit;
\* then the syntax tree is the bonsai's and the builder is back at the statement.
\* Otherwise all it is inside of is without a type (Semantics.c 932, ASTContext.c 54),
\* but for arguments: their nodes have the types of the parameters from the beginning,
\* and the one it is in has no expression of that type.
EvaluationFollowsTypes ==
  status = "done" =>
    /\ type = TypeOf(Root(parser))
    /\ type # "none" => tree.cursor = <<1>> /\ Mirrors(Root(parser), tree.nodes[1].kids[1])
    /\ type = "none" => \A k \in DOMAIN tree.cursor :
         LET node == tree.nodes[tree.cursor[k]]
         IN \/ node.type = "none"
            \/ /\ node.kind = "CALL_ARGUMENT"
               /\ node.kids = <<>> \/ tree.nodes[node.kids[1]].type # node.type

\* A literal is taken if it is decimal, with a u or not (of 0u the u is taken for a
\* prefix), and one of at most four digits has the value they denote (Semantics.c
\* 476, 569; from the fifth on a digit counts 16, 160, ... or nothing).
LiteralExact ==
  status = "done" /\ Bonsai(Root(parser)).kind = "NUMBER_LITERAL" =>
    LET lit     == text[Bonsai(Root(parser)).at].lit
        digits  == IF Last(lit) = LetterU THEN Front(lit) ELSE lit
        decimal == \A k \in DOMAIN digits : IsDigit(digits[k])
    IN /\ type = "int" <=> decimal /\ lit # <<0, LetterU>>
       /\ type = "int" /\ Len(digits) <= 4 =>
            tree.nodes[2].value = FoldLeft(LAMBDA v, d : 10 * v + d, 0, digits)
=============================================================================

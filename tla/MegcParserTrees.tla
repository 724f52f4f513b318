-------------------------- MODULE MegcParserTrees --------------------------
(***************************************************************************)
(* What the syntax trees of MegcParser have to be: the tree of a           *)
(* declaration is the one the precedence table gives its tokens, and the   *)
(* declaration accounts for all of them.                                   *)
(***************************************************************************)
EXTENDS MegcParser

RECURSIVE Yield(_), YieldAll(_), Grouped(_), EmptyCalls(_)

\* The tokens of a tree in the order of the text, closing parentheses and
\* commas apart.
YieldAll(ns) == IF ns = <<>> THEN <<>> ELSE Yield(Head(ns)) \o YieldAll(Tail(ns))
Yield(n) ==
  CASE n.kind \in {"DECL_REF", "LIT"} -> <<n.tok>>
    [] n.kind \in {"UNA_OP", "PAREN"} -> <<n.tok>> \o Yield(n.kids[1])
    [] n.kind = "BIN_OP" -> Yield(n.kids[1]) \o <<n.tok>> \o Yield(n.kids[2])
    [] n.kind = "CALL"   -> Yield(n.kids[1]) \o <<n.tok>> \o YieldAll(Tail(n.kids))
    [] OTHER -> <<0>>

Prec(n) == IF n.kind = "BIN_OP" THEN LedPrec(Kind(n.tok))
           ELSE IF n.kind = "UNA_OP" THEN UnaryPrec ELSE 999

\* Operators group by the table of parser.c:161, those of one line of it from
\* left to right; only a name is called.
Grouped(n) ==
  /\ n.kind = "BIN_OP" => Prec(n.kids[1]) >= Prec(n) /\ Prec(n.kids[2]) > Prec(n)
  /\ n.kind = "UNA_OP" => Prec(n.kids[1]) >= UnaryPrec
  /\ n.kind = "CALL"   => n.kids[1].kind = "DECL_REF"
  /\ \A k \in DOMAIN n.kids : Grouped(n.kids[k])

\* The calls without arguments.
EmptyCalls(n) ==
  LET k == IF n.kind = "CALL" /\ Len(n.kids) = 1 THEN {n.tok} ELSE {}
  IN  k \cup UNION {EmptyCalls(n.kids[j]) : j \in DOMAIN n.kids}

Tokens(from, to, ks) == {p \in from .. to : Kind(p) \in ks}
IsIncreasing(s) == \A j, k \in DOMAIN s : j < k => s[j] < s[k]
Elements(s) == {s[k] : k \in DOMAIN s}

\* The tree of d holds the operators and operands of its text, each once and in
\* order, grouped by precedence: text and grouping determine the tree.
\* Parentheses match, except that a call without arguments does not take its
\* `)`, which closes what is around it.
TreeMatchesText(d) ==
  LET y == Yield(d.expr)
  IN  /\ IsIncreasing(y)
      /\ Elements(y) = Tokens(d.from, d.to - 1, Kinds \ (Ignored \cup {"RPAREN", "COMMA"}))
      /\ Grouped(d.expr)
      /\ Cardinality(Tokens(d.from, d.to - 1, {"LPAREN"}))
           = Cardinality(Tokens(d.from, d.to - 1, {"RPAREN"}))
               + Cardinality(EmptyCalls(d.expr))

\* The head of d, with parameters, is made of its name, one pair of
\* parentheses, a name and a colon for each parameter, the colon of the result
\* and types: no token of it was skipped.
HeadMatchesText(d) ==
  LET n == Len(d.params)
      Count(ks) == Cardinality(Tokens(d.id, d.from - 1, ks))
  IN  /\ Count({"LPAREN"}) = 1 /\ Count({"RPAREN"}) = 1
      /\ Count({"COLON"}) = n + 1
      /\ Count({"COMMA"}) \in {n - 1, n}
      /\ Count({"ASSIGN"}) = 1
      /\ Count({"ID"}) \in n + 1 .. 2 * n + 2
      /\ Count(Kinds \ (Ignored \cup {"LPAREN", "RPAREN", "COLON", "COMMA",
                                      "ASSIGN", "ID"})) = 0

\* Without a diagnostic, every function of the syntax tree is the one the text
\* declares: parse_func, parse_initlist and parse_expr dropped no token and
\* built no other tree.
FunctionsMatchText ==
  status = "done" /\ ~bad => \A k \in DOMAIN decls :
    LET d == decls[k]
    IN  d.expr # Null => TreeMatchesText(d) /\ (d.params # <<>> => HeadMatchesText(d))

-----------------------------------------------------------------------------
(* What a comment of parser.c and the README say. *)

\* parser.c:573 "Parses all the parameters if any.": with or without them, the
\* parser goes on after the closing parenthesis. README.md:18 declares
\* `main(): i32`.
AfterParameters == [][pc = "unit" /\ pc' = "result" => Kind(fst' - 1) = "RPAREN"]_vars
=============================================================================

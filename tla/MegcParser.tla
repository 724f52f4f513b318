----------------------------- MODULE MegcParser ----------------------------
(***************************************************************************)
(* The parser of megc (megc/src/parser.c): parse_unit and everything below *)
(* it, over the kinds of the tokens the lexer answers.                     *)
(*                                                                         *)
(* The call stack of parse_expr and its handlers is explicit: a frame      *)
(* keeps the locals of a call, `ret` is the value being returned. A step   *)
(* is the code between two of these calls, or one iteration of the loops   *)
(* of the declarations.                                                    *)
(***************************************************************************)
EXTENDS Integers, Sequences, FiniteSets

CONSTANT Texts      \* the token sequences to parse

Nuds  == {"ID", "INTEGER", "LPAREN", "ADD", "SUB", "NEG", "AND"}
Kinds == Nuds \cup {"MUL", "LAND", "RPAREN", "COMMA", "COLON", "ASSIGN",
                    "EOL", "DOC", "INVAL", "EOF", "LBRACE"}
\* MUL stands for *, / and %, LAND for the operators of LED_OPS that only
\* parse_bin_op refuses, LBRACE for the kinds the parser never asks for.

ASSUME TextsAssumption == Texts \subseteq Seq(Kinds \ {"EOF"})

VARIABLES text,     \* the tokens of the file
          fst, snd, \* positions of the two tokens of the window
          pc,       \* where the parser is
          stack,    \* frames of parse_expr and its handlers
          ret,      \* what the last of them returned
          decl,     \* the declaration being parsed
          decls,    \* the declarations of the unit
          bad,      \* mferro was called
          status    \* running, done, or how the program stopped

window == <<fst, snd>>
vars   == <<text, window, pc, stack, ret, decl, decls, bad, status>>

-----------------------------------------------------------------------------
(* The window of tokens. Position 0 is the INVAL a parser starts with; the *)
(* lexer answers EOF for ever at the end.                                  *)

Kind(p) == IF p = 0 THEN "INVAL" ELSE IF p > Len(text) THEN "EOF" ELSE text[p]
Lexed(p) == IF p > Len(text) THEN p ELSE p + 1

Windows == (0 .. Len(text) + 1) \X (0 .. Len(text) + 1)

\* An INVAL that reached snd is dropped: advance takes it for "not read yet".
Advance[w \in Windows] ==
  IF Kind(w[2]) # "INVAL" THEN <<w[2], Lexed(w[2])>> ELSE <<Lexed(w[2]), Lexed(Lexed(w[2]))>>
Cur(w) == Kind(w[1])

NxtValid[w \in Windows] == IF Cur(w) \in {"EOL", "DOC"} THEN NxtValid[Advance[w]] ELSE w

SkipUntil(w, k) ==
  LET skip[v \in Windows] ==
        IF Cur(v) = k THEN Advance[v]
        ELSE IF Cur(Advance[v]) = "EOF" THEN Advance[v] ELSE skip[Advance[v]]
  IN  skip[w]

\* expect: the window is moved over EOL and DOC even when it answers no.
Expects(w, k) == Cur(NxtValid[w]) = k
Expect(w, k)  == IF Expects(w, k) THEN Advance[NxtValid[w]] ELSE NxtValid[w]

\* eol: only DOC is skipped.
SkipDoc[w \in Windows] == IF Cur(w) = "DOC" THEN SkipDoc[Advance[w]] ELSE w

MoveTo(w) == fst' = w[1] /\ snd' = w[2]

-----------------------------------------------------------------------------
(* The syntax tree. *)

Node(kind, tok, kids) == [kind |-> kind, tok |-> tok, kids |-> kids]
Null == Node("NULL", 0, <<>>)

UnaryPrec == 90
\* LED_OPS, 0 for a kind that is not in it
LedPrec(k) == CASE k = "LAND" -> 20 [] k = "AND" -> 50 [] k \in {"ADD", "SUB"} -> 70
                [] k = "MUL" -> 80 [] k = "LPAREN" -> 100 [] OTHER -> 0

Frame(fn, prec, tok, e, args, cut) ==
  [fn |-> fn, prec |-> prec, tok |-> tok, e |-> e, args |-> args, cut |-> cut]
ExprFrame(prec)  == Frame("expr", prec, 0, Null, <<>>, FALSE)
WaitFrame(fn, t, e) == Frame(fn, 0, t, e, <<>>, FALSE)

Top     == stack[Len(stack)]
Below   == SubSeq(stack, 1, Len(stack) - 1)
\* mutant: the frame of the handler is left on the stack
HandledKeeps(e) == /\ stack' = [stack EXCEPT ![Len(Below)].e = e]
                   /\ pc' = "led"
\* The handler of the top frame answers e to the parse_expr below it.
Handled(e) == /\ stack' = [Below EXCEPT ![Len(Below)].e = e]
              /\ pc' = "led"

Stop(how) == status' = how /\ UNCHANGED <<window, pc, stack, ret, decl, decls, bad>>
Report    == bad' = TRUE
Fine      == bad' = bad

NoDecl == [valid |-> TRUE, id |-> 0, params |-> <<>>, expr |-> Null, from |-> 0, to |-> 0]

-----------------------------------------------------------------------------
(* mparse_unit, and the first advance of parse_unit *)
Init == /\ text \in Texts
        /\ fst = Advance[<<0, 0>>][1]
        /\ snd = Advance[<<0, 0>>][2]
        /\ pc = "unit" /\ stack = <<>> /\ ret = Null
        /\ decl = NoDecl /\ decls = <<>>
        /\ bad = FALSE /\ status = "running"

(* parse_expr *)

\* A literal or a name: parse_lit, parse_decl_ref.
NudLeaf ==
  LET w == NxtValid[window] IN
  /\ Cur(w) \in {"ID", "INTEGER"}
  /\ MoveTo(Advance[w])
  /\ stack' = [stack EXCEPT ![Len(stack)].e =
                 Node(IF Cur(w) = "ID" THEN "DECL_REF" ELSE "LIT", w[1], <<>>)]
  /\ pc' = "led"
  /\ Fine /\ UNCHANGED <<ret, decl, decls, status>>

\* parse_paren: an empty pair is reported, and its `)` stays in the window.
NudParen ==
  LET w == NxtValid[window] IN
  /\ Cur(w) = "LPAREN"
  /\ MoveTo(Advance[w])
  /\ IF Cur(Advance[w]) = "RPAREN"
     THEN Report /\ pc' = "led" /\ UNCHANGED stack
     ELSE /\ stack' = stack \o <<WaitFrame("paren", w[1], Null), ExprFrame(0)>>
          /\ pc' = "expr" /\ Fine
  /\ UNCHANGED <<ret, decl, decls, status>>

\* parse_una_op; `&` is in NUD_OPS and has no unary operator.
NudUnary ==
  LET w == NxtValid[window] IN
  \/ /\ Cur(w) \in {"ADD", "SUB", "NEG"}
     /\ MoveTo(Advance[w])
     /\ stack' = stack \o <<WaitFrame("una", w[1], Null), ExprFrame(UnaryPrec)>>
     /\ pc' = "expr"
     /\ Fine /\ UNCHANGED <<ret, decl, decls, status>>
  \/ Cur(w) = "AND" /\ Stop("panic")

\* mutant: a missing operand is not reported
NudNoneSilent ==
  LET w == NxtValid[window] IN
  /\ Cur(w) \notin Nuds
  /\ MoveTo(w)
  /\ Fine
  /\ ret' = Null /\ stack' = Below /\ pc' = "return"
  /\ UNCHANGED <<decl, decls, status>>

\* Nothing starts an expression here.
NudNone ==
  LET w == NxtValid[window] IN
  /\ Cur(w) \notin Nuds
  /\ MoveTo(w)
  /\ Report
  /\ ret' = Null /\ stack' = Below /\ pc' = "return"
  /\ UNCHANGED <<decl, decls, status>>

\* mutant: an operator of the same precedence is taken too
BindsEqual == LedPrec(Cur(window)) > 0 /\ LedPrec(Cur(window)) >= Top.prec
Binds      == LedPrec(Cur(window)) > Top.prec

\* parse_bin_op up to the call that parses its right operand.
LedBinary ==
  /\ Binds
  /\ \/ /\ Cur(window) \in {"ADD", "SUB", "MUL"}
        /\ MoveTo(Advance[window])
        /\ stack' = stack \o <<WaitFrame("bin", fst, Top.e), ExprFrame(LedPrec(Cur(window)))>>
        /\ pc' = "expr"
        /\ Fine /\ UNCHANGED <<ret, decl, decls, status>>
     \/ Cur(window) \in {"AND", "LAND"} /\ Stop("panic")

\* parse_call up to its first argument; without arguments the `)` stays in
\* the window.
LedCall ==
  /\ Binds /\ Cur(window) = "LPAREN"
  /\ \/ Top.e.kind # "DECL_REF" /\ Stop("assert")
     \/ /\ Top.e.kind = "DECL_REF"
        /\ MoveTo(Advance[window])
        /\ IF Cur(Advance[window]) = "RPAREN"
           THEN /\ stack' = [stack EXCEPT ![Len(stack)].e = Node("CALL", fst, <<Top.e>>)]
                /\ UNCHANGED pc
           ELSE stack' = Append(stack, WaitFrame("call", fst, Top.e)) /\ pc' = "args"
        /\ Fine /\ UNCHANGED <<ret, decl, decls, status>>

LedNone ==
  /\ ~Binds
  /\ ret' = Top.e /\ stack' = Below /\ pc' = "return"
  /\ UNCHANGED <<window, decl, decls, bad, status>>

\* The loop over arguments: a comma is reported and not skipped.
Argument ==
  /\ IF Cur(window) = "COMMA" THEN Report /\ UNCHANGED <<stack, pc>>
     ELSE stack' = Append(stack, ExprFrame(0)) /\ pc' = "expr" /\ Fine
  /\ UNCHANGED <<window, ret, decl, decls, status>>

Expr == \/ pc = "expr" /\ (NudLeaf \/ NudParen \/ NudUnary \/ NudNone)
        \/ pc = "led"  /\ (LedBinary \/ LedCall \/ LedNone)
        \/ pc = "args" /\ Argument

-----------------------------------------------------------------------------
(* What the handlers do with the value their parse_expr returned. *)

BinaryDone ==
  /\ Top.fn = "bin"
  /\ Handled(Node(IF ret = Null THEN "INVAL" ELSE "BIN_OP", Top.tok, <<Top.e, ret>>))
  /\ IF ret = Null THEN Report ELSE Fine
  /\ UNCHANGED <<window, ret, decl, decls, status>>

UnaryDone ==
  /\ Top.fn = "una"
  /\ Handled(Node(IF ret = Null THEN "INVAL" ELSE "UNA_OP", Top.tok, <<ret>>))
  /\ IF ret = Null THEN Report ELSE Fine
  /\ UNCHANGED <<window, ret, decl, decls, status>>

ParenDone ==
  /\ Top.fn = "paren"
  /\ Handled(Node("PAREN", Top.tok, <<ret>>))
  /\ IF Expects(window, "RPAREN") THEN MoveTo(Expect(window, "RPAREN")) /\ Fine
     ELSE MoveTo(SkipUntil(Expect(window, "RPAREN"), "RPAREN")) /\ Report
  /\ UNCHANGED <<ret, decl, decls, status>>

\* An argument is linked to the last one; `cut` says that the last one is
\* nullptr, and linking to it dereferences it.
ArgsWith(arg) == IF arg = Null THEN Top.args ELSE Append(Top.args, arg)
CutWith(arg)  == Top.args # <<>> /\ arg = Null
ArgumentDone ==
  /\ Top.fn = "call"
  /\ \/ Top.cut /\ Stop("crash")
     \/ /\ ~Top.cut /\ Expects(window, "COMMA")
        /\ MoveTo(Expect(window, "COMMA"))
        /\ stack' = [stack EXCEPT ![Len(stack)].args = ArgsWith(ret),
                                  ![Len(stack)].cut  = CutWith(ret)]
        /\ pc' = "args" /\ Fine /\ UNCHANGED <<ret, decl, decls, status>>
     \/ /\ ~Top.cut /\ ~Expects(window, "COMMA")
        /\ LET w    == Expect(window, "COMMA")
               ends == Expects(w, "RPAREN")
           IN  /\ MoveTo(IF ends THEN Expect(w, "RPAREN") ELSE SkipUntil(w, "RPAREN"))
               /\ Handled(Node(IF ends THEN "CALL" ELSE "INVAL", Top.tok,
                               <<Top.e>> \o (IF ends THEN ArgsWith(ret) ELSE <<>>)))
               /\ IF ends THEN Fine ELSE Report
        /\ UNCHANGED <<ret, decl, decls, status>>

-----------------------------------------------------------------------------
(* Declarations. *)

\* The declaration reaches to the window.
AddDecl(d) == decls' = Append(decls, [d EXCEPT !.to = fst'])

\* The expression of a function is the last thing of its declaration.
ExprDone ==
  /\ stack = <<>>
  /\ pc' = "unit"
  /\ UNCHANGED <<window, stack, ret, decl, bad, status>>
  /\ AddDecl([decl EXCEPT !.expr = ret])

(* parse_unit: one turn of its loop, with the skipping it ends in. *)
\* mutant: what is no declaration is reported and not skipped
NextLineStays == Report /\ UNCHANGED <<window, pc, stack, ret, decl, decls, status>>
\* mutant: what is no declaration is skipped silently
NextLineSilent == /\ MoveTo(SkipUntil(window, "EOL"))
                  /\ UNCHANGED <<pc, stack, ret, decl, decls, bad, status>>
IsFunc   == Cur(window) = "ID" /\ Kind(snd) = "LPAREN"
NextLine == /\ Report
            /\ MoveTo(SkipUntil(window, "EOL"))
            /\ UNCHANGED <<pc, stack, ret, decl, decls, status>>
Unit ==
  \/ Cur(window) = "INVAL" /\ Stop("panic")
  \/ Cur(window) = "EOF" /\ Stop("done")
  \/ /\ Cur(window) \in {"DOC", "EOL"}
     /\ MoveTo(Advance[window])
     /\ UNCHANGED <<pc, stack, ret, decl, decls, bad, status>>
  \/ Cur(window) \notin {"INVAL", "EOF", "DOC", "EOL"} /\ ~IsFunc /\ NextLine

(* parse_func up to its parameters: after an empty pair of parentheses one *)
(* token too many is skipped.                                              *)
Func ==
  LET w == Advance[Advance[window]] IN
  /\ IsFunc
  /\ decl' = [NoDecl EXCEPT !.id = fst]
  /\ IF Expects(w, "RPAREN") THEN MoveTo(Advance[Expect(w, "RPAREN")]) /\ pc' = "result"
                             ELSE MoveTo(Expect(w, "RPAREN")) /\ pc' = "params"
  /\ UNCHANGED <<stack, ret, decls, bad, status>>

\* parse_type: a missing type is not reported.
AfterType(w) == Expect(w, "ID")

\* parse_objdecl and the comma after it.
Param ==
  LET w == Advance[window] IN
  /\ Cur(window) = "ID"
  /\ decl' = [decl EXCEPT !.params = Append(@, fst)]
  /\ \/ /\ ~Expects(w, "COLON")
        /\ Report
        /\ MoveTo(SkipUntil(Expect(w, "COLON"), "RPAREN"))
        /\ pc' = "result"
     \/ /\ Expects(w, "COLON")
        /\ Fine
        /\ LET v == AfterType(Expect(w, "COLON"))
               u == NxtValid[Expect(v, "COMMA")]
           IN  IF Expects(v, "COMMA") THEN MoveTo(u) /\ pc' = IF Cur(u) = "ID" THEN pc ELSE "close"
               ELSE MoveTo(Expect(v, "COMMA")) /\ pc' = "close"
  /\ UNCHANGED <<stack, ret, decls, status>>

\* mutant: a list that does not end in `)` is skipped without a report
CloseSilent ==
  /\ \/ pc = "params" /\ Cur(window) # "ID"
     \/ pc = "close"
  /\ IF Expects(window, "RPAREN") THEN MoveTo(Expect(window, "RPAREN"))
     ELSE MoveTo(SkipUntil(Expect(window, "RPAREN"), "RPAREN"))
  /\ Fine
  /\ pc' = "result"
  /\ UNCHANGED <<stack, ret, decl, decls, status>>

\* The end of parse_initlist.
Close ==
  /\ \/ pc = "params" /\ Cur(window) # "ID"
     \/ pc = "close"
  /\ IF Expects(window, "RPAREN") THEN MoveTo(Expect(window, "RPAREN")) /\ Fine
     ELSE MoveTo(SkipUntil(Expect(window, "RPAREN"), "RPAREN")) /\ Report
  /\ pc' = "result"
  /\ UNCHANGED <<stack, ret, decl, decls, status>>

\* The result type, then the end of the line or an expression.
NoResult ==
  /\ Cur(window) # "COLON"
  /\ Report
  /\ MoveTo(SkipUntil(window, "EOL"))
  /\ AddDecl([decl EXCEPT !.valid = FALSE])
  /\ pc' = "unit"
  /\ UNCHANGED <<stack, ret, decl, status>>

Result ==
  LET w == SkipDoc[AfterType(Advance[window])] IN
  /\ Cur(window) = "COLON"
  /\ \/ /\ Cur(w) = "EOL"
        /\ MoveTo(Advance[w]) /\ Fine
        /\ AddDecl(decl) /\ pc' = "unit" /\ UNCHANGED <<stack, decl>>
     \/ /\ Cur(w) = "ASSIGN"
        /\ MoveTo(Advance[w]) /\ Fine
        /\ decl' = [decl EXCEPT !.from = Advance[w][1]]
        /\ stack' = <<ExprFrame(0)>> /\ pc' = "expr" /\ UNCHANGED decls
     \/ /\ Cur(w) \notin {"EOL", "ASSIGN"}
        /\ MoveTo(SkipUntil(w, "EOL")) /\ Report
        /\ AddDecl(decl) /\ pc' = "unit" /\ UNCHANGED <<stack, decl>>
  /\ UNCHANGED <<ret, status>>

Return == /\ pc = "return"
          /\ \/ stack # <<>> /\ (BinaryDone \/ UnaryDone \/ ParenDone \/ ArgumentDone)
             \/ ExprDone
Decl   == \/ pc = "unit" /\ (Unit \/ Func)
          \/ pc = "params" /\ Param
          \/ Close
          \/ pc = "result" /\ (NoResult \/ Result)

Parse == status = "running" /\ UNCHANGED text /\ (Expr \/ Return \/ Decl)
Next  == Parse
Spec  == Init /\ [][Next]_vars /\ WF_vars(Parse)

-----------------------------------------------------------------------------
Fns == {"expr", "bin", "una", "paren", "call"}
Pcs == {"unit", "params", "close", "result", "expr", "led", "args", "return"}

\* The frames of parse_expr and of its handlers alternate, a parse_expr at the
\* bottom, and pc says which of them is running.
StackOK ==
  /\ \A k \in 1 .. Len(stack) : stack[k].fn \in Fns /\ (stack[k].fn = "expr" <=> k % 2 = 1)
  /\ pc \in {"expr", "led"} => Len(stack) % 2 = 1
  /\ pc = "args" => stack # <<>> /\ Top.fn = "call"
  /\ pc = "return" => Len(stack) % 2 = 0
  /\ pc \in {"unit", "params", "close", "result"} => stack = <<>>

TypeOK ==
  /\ text \in Seq(Kinds)
  /\ fst \in 1 .. Len(text) + 1 /\ snd \in 1 .. Len(text) + 1 /\ fst <= snd
  /\ pc \in Pcs /\ bad \in BOOLEAN
  /\ status \in {"running", "done", "panic", "assert", "crash"}
  /\ StackOK

\* The loop of parse_call that reports a comma and looks at it again.
CommaLoop == pc = "args" /\ Cur(window) = "COMMA"

\* Whatever the text, the parser stops, unless it meets a comma where an
\* argument should start: then it reports it for ever.
Terminates == <>(status # "running" \/ CommaLoop)

\* The parser links an argument to a missing one, which dereferences nullptr,
\* only after it reported the missing one: no text it accepts so far does it.
CrashReported == status = "crash" => bad

\* What a file may hold outside its declarations.
Ignored == {"EOL", "DOC", "INVAL"}

\* Without a diagnostic nothing of the file stays outside the declarations.
NothingLost ==
  status = "done" /\ ~bad =>
    \A p \in 1 .. Len(text) :
      \/ Kind(p) \in Ignored
      \/ \E k \in DOMAIN decls : decls[k].id <= p /\ p < decls[k].to
=============================================================================

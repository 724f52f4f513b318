---------------------------- MODULE OffsideLexer ----------------------------
(***************************************************************************)
(* prosLexer_getLine and the indentation stack (Code/Lexicon/Lexer.c).     *)
(*                                                                         *)
(* A line is [ind, body, nl]: its indentation, or Mixed for one that mixes *)
(* tabs and spaces; what follows it; whether it ends with a newline. A     *)
(* body is a record whose `kind` is "blank", "comment", "bad" (begins with *)
(* a character no token begins with) or that of a statement, which is one  *)
(* token here, TokenOf, with the end of the line behind it.                *)
(*                                                                         *)
(* A lexer is [at, indented, stack, toks, reading]: where its offset is    *)
(* ("fresh", at a line not looked at yet; "again", at the start of the     *)
(* line read last; "inside", behind the indentation of that line; "end");  *)
(* whether a line was indented before (useTabAsIndentation is set);        *)
(* indentationStack; the tokens not taken yet; a call of getLine has not   *)
(* returned.                                                               *)
(***************************************************************************)
EXTENDS Integers, Sequences, SequencesExt

Mixed   == -1    \* the indentation of a line with both tabs and spaces
Address == 1000  \* the data of a token that holds a pointer, read as a number
Unset   == 1001  \* -1u

NewLexer == [at |-> "fresh", indented |-> FALSE, stack |-> <<>>,
             toks |-> <<>>, reading |-> FALSE]

Tok(tok, data) == [tok |-> tok, data |-> data]

\* Keywords have no data; identifiers and numbers point to their text.
TokenOf(body) == Tok("STATEMENT", IF body.kind = "expr" THEN Address ELSE 0)

\* mutant: the tokens not taken are kept
CallKeeps(lex) == [lex EXCEPT !.reading = TRUE]

\* The call of getLine begins; it forgets the tokens not taken.
Call(lex) == [lex EXCEPT !.toks = <<>>, !.reading = TRUE]

\* The parser takes n tokens and calls for a line when none is left.
Taken(lex, n) ==
  LET left == SubSeq(lex.toks, n + 1, Len(lex.toks))
  IN [lex EXCEPT !.toks = left, !.reading = left = <<>>]

-----------------------------------------------------------------------------
(* lexerGetIndentation. *)

Current_(stack) == IF stack = <<>> THEN 0 ELSE Last(stack)

\* mutant: a level equal to the indentation of the line is closed too
KeptBelow(stack, ind) == SubSeq(stack, 1, Max({0} \cup {k \in DOMAIN stack : stack[k] < ind}))

\* The levels left after a dedent; the stack grows towards its end.
Kept(stack, ind) == SubSeq(stack, 1, Max({0} \cup {k \in DOMAIN stack : stack[k] <= ind}))

\* mutant: one DEDENT for any number of levels
DedentOnce(stack, ind) == <<Tok("DEDENT", ind)>>

Dedents(stack, ind) ==
  [i \in 1 .. Len(stack) - Len(Kept(stack, ind)) |-> Tok("DEDENT", ind)]

\* The line stands between two levels. Nothing is said when no level is left.
Broken(stack, ind) ==
  /\ ind < Current_(stack)
  /\ Kept(stack, ind) # <<>> /\ Last(Kept(stack, ind)) < ind

\* Until a line is indented, indentation is not looked at.
Indented(lex, ind) == lex.indented \/ ind # 0

\* Blank lines are passed over in the same call, once indentation is looked at. One
\* that mixes tabs and spaces is not: it is reported before its end is found, and
\* returned as a line.
PassesOver(lex, l) == /\ l.body.kind = "blank" /\ l.nl /\ l.ind # Mixed
                      /\ Indented(lex, l.ind)

\* The tokens and the stack a line's indentation leads to.
Indent(lex, ind) ==
  CASE ~Indented(lex, ind) \/ ind \in {Mixed, Current_(lex.stack)} ->
         [toks |-> <<>>, stack |-> lex.stack]
    [] Indented(lex, ind) /\ ind > Current_(lex.stack) ->
         [toks |-> <<Tok("INDENT", ind)>>, stack |-> Append(lex.stack, ind)]
    [] Indented(lex, ind) /\ ind < Current_(lex.stack) /\ ind # Mixed ->
         [toks |-> Dedents(lex.stack, ind), stack |-> Kept(lex.stack, ind)]

-----------------------------------------------------------------------------
(* prosLexer_getLine, when it returns. *)

Body(l) ==
  LET end == Tok(IF l.nl THEN "EOL" ELSE "EOF", 0)
  IN CASE l.body.kind = "bad"                  -> <<>>
       [] l.body.kind \in {"blank", "comment"} -> <<end>>
       [] OTHER                                -> <<TokenOf(l.body), end>>

\* What is reported of the line.
Complains(lex, l) == Broken(lex.stack, l.ind) \/ l.ind = Mixed \/ l.body.kind = "bad"

\* After a broken indentation the line is read again, after an unknown character
\* what follows the indentation is.
Reads(lex, l) ==
  LET in   == Indent(lex, l.ind)
      stop == Broken(lex.stack, l.ind)
  IN [at       |-> CASE stop -> "again"
                     [] ~stop /\ l.body.kind = "bad" -> "inside"
                     [] OTHER -> IF l.nl THEN "fresh" ELSE "end",
      indented |-> Indented(lex, l.ind),
      stack    |-> in.stack,
      toks     |-> IF stop THEN in.toks ELSE in.toks \o Body(l),
      reading  |-> FALSE]

\* What is left of a line after an unknown character: the offset is behind the
\* indentation, which a line that mixes tabs and spaces was not freed of.
RestOf(l) == [l EXCEPT !.ind = IF l.ind = Mixed THEN Mixed ELSE 0]

\* At the end of the text every call closes what is open and returns an EOF.
ReadsEnd(lex) ==
  LET in == Indent(lex, 0)
  IN [lex EXCEPT !.at = "end", !.stack = in.stack,
                 !.toks = Append(in.toks, Tok("EOF", 0)), !.reading = FALSE]
=============================================================================

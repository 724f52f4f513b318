---------------------------- MODULE FlowAnalysis ----------------------------
(***************************************************************************)
(* The control-flow analysis of libprotocols (Code/Analysis/CFG.c): does   *)
(* a function return. It walks the syntax tree and makes a branch for      *)
(* every block; a branch is what the analysis comes to for it, "returns"   *)
(* or "falls", or how the program stops there: "panic", "crash" (a null    *)
(* pointer is dereferenced).                                               *)
(***************************************************************************)
EXTENDS SyntaxTree

Stops == {"panic", "crash"}

\* mutant: one way that returns is enough
JoinedEither(first, second) ==
  CASE first \in Stops                            -> first
    [] first \notin Stops /\ second \in Stops     -> second
    [] first = "returns" \/ second = "returns"    -> "returns"
    [] OTHER                                      -> "falls"

\* The branches of the first and of the second way of an if.
Joined(first, second) ==
  CASE first \in Stops                            -> first
    [] first \notin Stops /\ second \in Stops     -> second
    [] first = "returns" /\ second = "returns"    -> "returns"
    [] OTHER                                      -> "falls"

\* The loops in whose own branch a break or a continue is accepted. The branch
\* of an if belongs to the if.
Loops == {"WHILE_STATEMENT", "FOR_STATEMENT", "LOOP_STATEMENT", "REPEAT_STATEMENT"}

\* What a statement does to the branch it is in, `inner` being what the nodes'
\* own branches come to: "falls" through to the next one, "returns", "leaves" the
\* loop, or stops the program.
Outcome(t, i, branch, inner) ==
  CASE t.nodes[i].kind \in {"BREAK_STATEMENT", "CONTINUE_STATEMENT"} ->
         IF branch \in Loops THEN "leaves" ELSE "panic"
    [] t.nodes[i].kind = "RETURN_STATEMENT" -> "returns"
    [] t.nodes[i].kind = "IF_STATEMENT"     -> inner[i]
    [] t.nodes[i].kind \in {"WHILE_STATEMENT", "LOOP_STATEMENT"} ->
         LET ends == inner[i] IN IF ends \in Stops THEN ends ELSE "falls"
    [] OTHER -> "falls"

\* The first statement that does not fall through ends the branch. A missing
\* operation and one without statements have no node to start from.
AnalyzeOperation(t, op, branch, inner) ==
  LET kids == t.nodes[op].kids
      outs == {<<k, Outcome(t, kids[k], branch, inner)>> : k \in DOMAIN kids}
      ends == {o \in outs : o[2] # "falls"}
      end  == (CHOOSE o \in ends : \A p \in ends : o[1] <= p[1])[2]
  IN CASE op = 0 -> "crash"
       [] op # 0 /\ kids = <<>> -> "crash"
       [] op # 0 /\ kids # <<>> /\ ends = {} -> "falls"
       [] op # 0 /\ kids # <<>> /\ ends # {} -> IF end = "leaves" THEN "falls" ELSE end

AnalyzeIf(t, n, inner) ==
  Joined(AnalyzeOperation(t, n.block, n.kind, inner),
         CASE n.ifType = "IF_OR"   -> inner[n.elseBlock]
           [] n.ifType = "IF_ELSE" -> AnalyzeOperation(t, n.elseBlock, n.kind, inner)
           [] OTHER                -> "falls")

\* What the branches of every node that has some come to.
Analysis(t) ==
  LET inner[i \in DOMAIN t.nodes] ==
        IF t.nodes[i].kind = "IF_STATEMENT" THEN AnalyzeIf(t, t.nodes[i], inner)
        ELSE AnalyzeOperation(t, t.nodes[i].block, t.nodes[i].kind, inner)
  IN  inner

\* What comes of the branch of the function; the caller reports a function that
\* has a type and only falls.
AnalyzeFunc(t, f) == Analysis(t)[f]

-----------------------------------------------------------------------------
(***************************************************************************)
(* Reference: where a function can be left without a value, from what its  *)
(* statements mean. An if that continues another one with `or` is a part   *)
(* of it, not a statement. Conditions are taken to go either way, and a    *)
(* loop to end.                                                            *)
(***************************************************************************)
Continues(t) == {t.nodes[i].elseBlock : i \in
                   {j \in DOMAIN t.nodes : t.nodes[j].ifType = "IF_OR"}}

\* Which nodes can be fallen through.
FallsThrough(t) ==
  LET falls[i \in DOMAIN t.nodes] ==
        CASE t.nodes[i].kind = "SCOPE_OPERATION" ->
               \A j \in ToSet(t.nodes[i].kids) \ Continues(t) : falls[j]
          [] t.nodes[i].kind \in {"RETURN_STATEMENT", "BREAK_STATEMENT", "CONTINUE_STATEMENT"} ->
               FALSE
          [] t.nodes[i].kind = "IF_STATEMENT" ->
               \/ falls[t.nodes[i].block]
               \/ t.nodes[i].ifType \notin {"IF_OR", "IF_ELSE"}
               \/ falls[t.nodes[i].elseBlock]
          [] OTHER -> TRUE
  IN  falls

AllPathsReturn(t, f) == ~FallsThrough(t)[t.nodes[f].block]
=============================================================================

----------------------------- MODULE SyntaxTree -----------------------------
(***************************************************************************)
(* The syntax tree of libprotocols and the functions that build it         *)
(* (Code/AST/AST.c, ASTBuilder.c, ASTContext.c), down to the statements.   *)
(* A tree is a record of its nodes, a node being known by its index, and   *)
(* of the builder's cursor, the stack of nodes from the module to the      *)
(* current one. What hangs below a statement's expression is left to       *)
(* Expressions: 0 in the cursor stands for a node of an expression.        *)
(* A builder function that stops the program returns Panicked.             *)
(***************************************************************************)
EXTENDS Naturals, Sequences, SequencesExt

\* A node with nothing in it. `at` is the line of the text it was added for,
\* kept to state properties; `val` is what the evaluation of its expression
\* came to: "none", "good" or "bad".
Node == [kind |-> "INVALID", kids |-> <<>>, block |-> 0, elseBlock |-> 0,
         ifType |-> "NONE", params |-> 0, type |-> "void", to |-> 0,
         val |-> "none", at |-> 0]

EmptyTree == [nodes |-> <<>>, cursor |-> <<>>]
Panicked  == [nodes |-> <<>>, cursor |-> <<0>>]

TraverseDown(t, id) == [t EXCEPT !.cursor = Append(@, id)]

TraverseUp(t) == IF Len(t.cursor) <= 1 THEN Panicked
                 ELSE [t EXCEPT !.cursor = Front(@)]

CurrentId(t) == Last(t.cursor)
Current(t)   == IF CurrentId(t) = 0 THEN [Node EXCEPT !.kind = "EXPRESSION"]
                ELSE t.nodes[CurrentId(t)]
Newest(t)    == Len(t.nodes)

AddNode(t, node) == [t EXCEPT !.nodes = Append(@, node)]

\* A node at the end of the circular list of node `id`, whose children are
\* `kids` in their order: the pointer the C keeps is to the last of them.
AddCiclicNode(t, id, node) ==
  [AddNode(t, node) EXCEPT !.nodes[id].kids = Append(@, Newest(t) + 1)]

Descend(t) == TraverseDown(t, Newest(t))

-----------------------------------------------------------------------------
(* The module, functions and operations. *)

AddModuleNode(t) == IF t.nodes # <<>> THEN Panicked
                    ELSE Descend(AddNode(t, [Node EXCEPT !.kind = "SCOPE_MODULE"]))

AddFuncDecl(t, type, at) ==
  IF Current(t).kind # "SCOPE_MODULE" THEN Panicked
  ELSE Descend(AddCiclicNode(t, CurrentId(t),
         [Node EXCEPT !.kind = "DECL_FUNC", !.type = type, !.at = at]))

AddNodeHandleNode(t) == Descend(AddNode(t, [Node EXCEPT !.kind = "NODE_HANDLE"]))

\* `index` counts from 0.
AddFuncParameterDecl(t, index) ==
  IF \/ Current(t).kind # "NODE_HANDLE"
     \/ index > Len(Current(t).kids)
  THEN Panicked
  ELSE Descend(AddCiclicNode(t, CurrentId(t), [Node EXCEPT !.kind = "DECL_PARAMETER"]))

\* mutant: an else goes to the block of the if
NodeNeedsOperationThen(node) ==
  IF node.kind \in {"DECL_FUNC", "WHILE_STATEMENT", "LOOP_STATEMENT", "IF_STATEMENT"}
  THEN "block" ELSE "no"

\* Where an operation goes in the node.
NodeNeedsOperation(node) ==
  CASE /\ node.kind \in {"DECL_FUNC", "WHILE_STATEMENT", "LOOP_STATEMENT"}
       /\ node.block = 0                                          -> "block"
    [] /\ node.kind = "IF_STATEMENT"
       /\ node.ifType = "IF" \/ (node.ifType # "NONE" /\ node.block = 0) -> "block"
    [] /\ node.kind = "IF_STATEMENT" /\ node.ifType \in {"IF_OR", "IF_ELSE"}
       /\ node.block # 0 /\ node.elseBlock = 0                    -> "elseBlock"
    [] OTHER                                                      -> "no"

AddOperationNode(t, at) ==
  LET where == NodeNeedsOperation(Current(t))
      added == AddNode(t, [Node EXCEPT !.kind = "SCOPE_OPERATION", !.at = at])
  IN CASE where = "block"     -> Descend([added EXCEPT !.nodes[CurrentId(t)].block = Newest(t) + 1])
       [] where = "elseBlock" -> Descend([added EXCEPT !.nodes[CurrentId(t)].elseBlock = Newest(t) + 1])
       [] where = "no"        -> Panicked

-----------------------------------------------------------------------------
(* Statements, which go to the operation the cursor is at. *)

AddNodeInOperation(t, node) == AddCiclicNode(t, CurrentId(t), node)

AddStatement(t, node) == IF Current(t).kind # "SCOPE_OPERATION" THEN Panicked
                         ELSE Descend(AddNodeInOperation(t, node))

AddObjectDecl(t, at) == AddStatement(t, [Node EXCEPT !.kind = "DECL_OBJECT", !.at = at])

AddIfStatementNode(t, at) ==
  AddStatement(t, [Node EXCEPT !.kind = "IF_STATEMENT", !.ifType = "IF", !.at = at])

AddWhileStatementNode(t, at) ==
  AddStatement(t, [Node EXCEPT !.kind = "WHILE_STATEMENT", !.at = at])

AddLoopStatementNode(t, at) ==
  AddStatement(t, [Node EXCEPT !.kind = "LOOP_STATEMENT", !.at = at])

AddExpressionStatementNode(t, at) ==
  AddStatement(t, [Node EXCEPT !.kind = "EXPRESSION_STATEMENT", !.at = at])

AddBreakStatementNode(t, loop, at) ==
  AddStatement(t, [Node EXCEPT !.kind = "BREAK_STATEMENT", !.to = loop, !.at = at])

AddContinueStatementNode(t, loop, at) ==
  AddStatement(t, [Node EXCEPT !.kind = "CONTINUE_STATEMENT", !.to = loop, !.at = at])

AddReturnStatementNode(t, at) ==
  AddStatement(t, [Node EXCEPT !.kind = "RETURN_STATEMENT", !.at = at])

\* The nodes with an expression of their own.
NeedsExpr == {"DECL_OBJECT", "IF_STATEMENT", "WHILE_STATEMENT", "RETURN_STATEMENT"}

AddExpression(t) == IF Current(t).kind \notin NeedsExpr THEN Panicked
                    ELSE TraverseDown(t, 0)
=============================================================================

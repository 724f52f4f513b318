------------------------------ MODULE CodeGen ------------------------------
(***************************************************************************)
(* The code generator of libprotocols (Code/Gen/Gen.c) for the body of a   *)
(* function, which is one straight block, and what the instructions it     *)
(* emits do on the LittleSenna machine (Code/LittleSenna/LSMachine.c).     *)
(*                                                                         *)
(* The body is chosen while it is generated. The machine executes every    *)
(* instruction as it is emitted, in the same order; a number is            *)
(* represented by the value of the generator it is the content of, so      *)
(* that `held` says which result a register really holds. The NOT of unary *)
(* - and ! is taken for what it means, although the machine stops at it    *)
(* (LSMachine.c 315). Every spill has a cell of the frame of its own:      *)
(* cells are never reused.                                                 *)
(*                                                                         *)
(* The content of a value is its val->size low bytes, 4 for an int: STR    *)
(* writes no others, and LDR clears the others of the 64-bit register. So  *)
(* an int with upper bytes, a negative one for instance, is another 64-bit *)
(* number when it comes back from the frame. DIV is the only operation     *)
(* whose low bytes depend on the upper bytes of its operands; which        *)
(* quotient it computes of such an int is not modelled.                    *)
(*                                                                         *)
(* C leaves the order in which arguments are evaluated open, and the       *)
(* operands of an instruction are loaded in its arguments: any order.      *)
(***************************************************************************)
EXTENDS Integers, Sequences, SequencesExt

CONSTANTS FirstTemp, LastTemp,  \* the registers for temporary values
          MaxNodes              \* bound: statements, and twice the operators

ASSUME GenAssumption ==
  /\ FirstTemp \in Nat \ {0} /\ LastTemp \in Nat /\ FirstTemp <= LastTemp
  /\ MaxNodes \in Nat

\* R06 to R11 in the code.
ASSUME SixRegisters == LastTemp - FirstTemp >= 5

VARIABLES vals,   \* ctx->valStack, with the cell of a spilled value
          owner,  \* ctx->regs[].val: index in vals, 0 for nullptr
          prior,  \* ctx->regs[].prior
          held,   \* machine: the value whose content a register holds, 0 for none
          todo,   \* calls of genGenExpression and what follows them
          nodes,  \* weight of the statements and operators chosen so far
          ended   \* the function has been generated

vars == <<vals, owner, prior, held, todo, nodes, ended>>

R00   == 0
Temps == FirstTemp .. LastTemp
Regs  == Temps \cup {R00}

\* A context as a record, to be passed through the calls of one statement.
Here == [vals |-> vals, owner |-> owner, prior |-> prior, held |-> held]
Becomes(c) == /\ vals' = c.vals   /\ owner' = c.owner
              /\ prior' = c.prior /\ held' = c.held

-----------------------------------------------------------------------------
(* Registers. *)

\* As many low bytes of a register as its owner has: the content of that value,
\* or of none, whatever else the register holds.
LowBytes(c, r) == IF c.held[r] = c.owner[r] THEN c.owner[r] ELSE 0

\* Machine: STR of the low bytes of a register into the cell of its owner v,
\* LDR of the bytes of the cell into a register whose upper bytes become zero,
\* and all the instructions that compute the content of v into a register.
Str(c, v, r) == [c EXCEPT !.vals[v].cell = LowBytes(c, r)]
Ldr(c, v, r) == [c EXCEPT !.held[r] = c.vals[v].cell]
Put(c, v, r) == [c EXCEPT !.held[r] = v]

\* The register's owner is on the stack from now on.
Spill(c, r) ==
  LET v == c.owner[r]
  IN [Str(c, v, r) EXCEPT !.vals[v].where = "stack", !.owner[r] = 0]

\* mutant: the newest register is spilled
OlderTakesNewest(c, best, r) ==
  CASE c.owner[r] = 0 -> [reg |-> r, free |-> TRUE, age |-> 0]
    [] c.owner[r] # 0 /\ ~best.free /\ (best.reg = R00 \/ c.prior[r] < best.age) ->
         [reg |-> r, free |-> FALSE, age |-> c.prior[r] + 1]
    [] OTHER -> best

\* The loop of genContextGetRegister up to a register: the last free one
\* wins. Otherwise a register wins that is more than one older than the one
\* found before it, whose age is compared after it was incremented.
Older(c, best, r) ==
  CASE c.owner[r] = 0 -> [reg |-> r, free |-> TRUE, age |-> 0]
    [] c.owner[r] # 0 /\ ~best.free /\ c.prior[r] > best.age ->
         [reg |-> r, free |-> FALSE, age |-> c.prior[r] + 1]
    [] OTHER -> best

Victim(c) ==
  LET found[r \in R00 .. LastTemp] ==
        IF r < FirstTemp THEN [reg |-> R00, free |-> FALSE, age |-> 0]
                         ELSE Older(c, found[r - 1], r)
  IN found[LastTemp].reg

\* mutant: the search ages nothing.
AgedNever(c, taken) == [r \in Regs |-> IF r = taken THEN 0 ELSE c.prior[r]]

\* Every register in use grew older in the search, but the one taken is new.
Aged(c, taken) == [r \in Regs |-> CASE r = taken -> 0
                                    [] r \in Temps \ {taken} /\ c.owner[r] # 0 -> c.prior[r] + 1
                                    [] OTHER -> c.prior[r]]

GetRegister(c) ==
  LET r == Victim(c)
  IN [reg  |-> r,
      then |-> [(IF c.owner[r] = 0 THEN c ELSE Spill(c, r)) EXCEPT !.prior = Aged(c, r)]]

Touched(c, r) == [q \in Regs |-> IF q = r THEN 0 ELSE c.prior[q]]

\* genValueLoad: a value without a place gets a register and no content.
Load(c, v) ==
  IF c.vals[v].where = "reg"
  THEN [c EXCEPT !.prior = Touched(c, c.vals[v].reg)]
  ELSE LET g == GetRegister(c)
           l == IF c.vals[v].where = "stack" THEN Ldr(g.then, v, g.reg) ELSE g.then
       IN [l EXCEPT !.owner[g.reg] = v, !.vals[v].cell = 0,
                    !.vals[v].where = "reg", !.vals[v].reg = g.reg]

\* The operands vs of an instruction, loaded in the order p: the register each
\* turn found, and the context after the last.
Operands(c, vs, p) ==
  LET after[k \in 0 .. Len(p)] == IF k = 0 THEN c ELSE Load(after[k - 1], vs[p[k]])
  IN [then |-> after[Len(p)], regs |-> [k \in DOMAIN p |-> after[k].vals[vs[p[k]]].reg]]

Orders(n) == {p \in [1 .. n -> 1 .. n] : IsInjective(p)}

-----------------------------------------------------------------------------
(* An instruction into the first of the operands vs: its register gets that *)
(* value's content if the others hold theirs, and a wrong one otherwise.    *)
Execute(c, vs, p) ==
  LET o     == Operands(c, vs, p)
      dest  == o.regs[CHOOSE k \in DOMAIN p : p[k] = 1]
      right == \A k \in DOMAIN p : p[k] = 1 \/ o.then.held[o.regs[k]] = vs[p[k]]
  IN [Put(o.then, IF right THEN vs[1] ELSE 0, dest) EXCEPT !.vals[vs[1]].done = TRUE]

Emits(c, vs) == {Execute(c, vs, p) : p \in Orders(Len(vs))}

-----------------------------------------------------------------------------
(* The stack of values. *)

Fresh(decl) == [where |-> "none", reg |-> R00, cell |-> 0,
                decl |-> decl, done |-> FALSE]

Pushed(c, decls) == [c EXCEPT !.vals = @ \o [k \in DOMAIN decls |-> Fresh(decls[k])]]

Houses(c, r, v) == c.vals[v].where = "reg" /\ c.vals[v].reg = r

\* mutant: a popped value stays the owner of its register.
PoppedStaysOwner(c) ==
  LET v == Len(c.vals)
  IN [vals  |-> Front(c.vals), owner |-> c.owner, prior |-> c.prior,
      held  |-> [r \in Regs |-> IF c.held[r] = v THEN 0 ELSE c.held[r]]]

\* What was the content of a popped value is the content of no value: its
\* index may be used again. The age of a free register is never read.
Popped(c) ==
  LET v == Len(c.vals)
  IN [vals  |-> Front(c.vals),
      owner |-> [r \in Regs |-> IF Houses(c, r, v) THEN 0 ELSE c.owner[r]],
      prior |-> [r \in Regs |-> IF Houses(c, r, v) THEN 0 ELSE c.prior[r]],
      held  |-> [r \in Regs |-> IF c.held[r] = v THEN 0 ELSE c.held[r]]]

-----------------------------------------------------------------------------
(* Statements *)

Init == /\ vals = <<>>
        /\ owner = [r \in Regs |-> 0]
        /\ prior = [r \in Regs |-> 0]
        /\ held = [r \in Regs |-> 0]
        /\ todo = <<>>
        /\ nodes = 0
        /\ ended = FALSE

Chosen(n) == /\ nodes + n <= MaxNodes
             /\ nodes' = nodes + n
             /\ UNCHANGED ended

NothingChosen == UNCHANGED <<nodes, ended>>

Expr(v) == [do |-> "expr", val |-> v]

\* val and var declarations: the value stays until the block ends.
Declare ==
  /\ todo = <<>> /\ ~ended
  /\ Chosen(1)
  /\ Becomes(Pushed(Here, <<TRUE>>))
  /\ todo' = <<Expr(Len(vals'))>>

ExpressionStatement ==
  /\ todo = <<>> /\ ~ended
  /\ Chosen(1)
  /\ Becomes(Pushed(Here, <<FALSE>>))
  /\ todo' = <<Expr(Len(vals')), [do |-> "drop", val |-> Len(vals')]>>

Drop == /\ todo # <<>> /\ Head(todo).do = "drop"
        /\ Becomes(Popped(Here))
        /\ todo' = Tail(todo)
        /\ NothingChosen

\* The declared values are popped; the block ends in a return that is removed
\* again when the epilogue follows it directly.
Return == /\ todo = <<>> /\ ~ended
          /\ LET after[k \in 0 .. Len(vals)] == IF k = 0 THEN Here ELSE Popped(after[k - 1])
             IN Becomes(after[Len(vals)])
          /\ ended' = TRUE
          /\ UNCHANGED <<todo, nodes>>

-----------------------------------------------------------------------------
(* genGenExpression *)

AtExpr == todo # <<>> /\ Head(todo).do = "expr"
Val    == Head(todo).val

\* Both operands are pushed before either is generated.
Binary(op) ==
  /\ AtExpr
  /\ Chosen(2)
  /\ Becomes(Pushed(Here, <<FALSE, FALSE>>))
  /\ todo' = <<Expr(Len(vals) + 1), Expr(Len(vals) + 2),
               [do |-> op, val |-> Val]>> \o Tail(todo)

Unary(op) ==
  /\ AtExpr
  /\ Chosen(2)
  /\ Becomes(Pushed(Here, <<FALSE>>))
  /\ todo' = <<Expr(Len(vals) + 1), [do |-> op, val |-> Val]>> \o Tail(todo)

Literal == /\ AtExpr
           /\ \E c \in Emits(Here, <<Val>>) : Becomes(c)
           /\ todo' = Tail(todo)
           /\ NothingChosen

\* Only a declaration that is complete is in scope.
DeclRef(d) == /\ AtExpr
              /\ vals[d].decl /\ vals[d].done
              /\ \E c \in Emits(Here, <<Val, d>>) : Becomes(c)
              /\ todo' = Tail(todo)
              /\ NothingChosen

\* The operands of the operator at the head of todo: the last two values.
Lhs == Len(vals) - 1
Rhs == Len(vals)

Operator(op) == todo # <<>> /\ Head(todo).do = op

\* mutant: one operand is popped, whatever the operator.
FinishPopsOne(c, n) == /\ Becomes(Popped(c))
                       /\ todo' = Tail(todo)
                       /\ NothingChosen

Finish(c, n) == /\ Becomes(IF n = 2 THEN Popped(Popped(c)) ELSE Popped(c))
                /\ todo' = Tail(todo)
                /\ NothingChosen

Calculate == /\ Operator("calculate")
             /\ \E c \in Emits(Here, <<Val, Lhs, Rhs>>) : Finish(c, 2)

Assign == /\ Operator("assign")
          /\ \E c \in Emits(Here, <<Lhs, Rhs>>) :
               \E d \in Emits(c, <<Val, Lhs>>) : Finish(d, 2)

CalculateAndAssign ==
  /\ Operator("calculateAndAssign")
  /\ \E c \in Emits(Here, <<Lhs, Lhs, Rhs>>) :
       \E d \in Emits(c, <<Val, Lhs>>) : Finish(d, 2)

\* + and ! are one instruction, - is a negation and an addition.
PlusOrNot == /\ Operator("plusOrNot")
             /\ \E c \in Emits(Here, <<Val, Rhs>>) : Finish(c, 1)

Minus == /\ Operator("minus")
         /\ \E c \in Emits(Here, <<Val, Rhs>>) :
              \E d \in Emits(c, <<Val, Val>>) : Finish(d, 1)

BinaryOps == {"calculate", "assign", "calculateAndAssign"}
UnaryOps  == {"plusOrNot", "minus"}

Next == \/ Declare \/ ExpressionStatement \/ Drop \/ Return
        \/ \E op \in BinaryOps : Binary(op)
        \/ \E op \in UnaryOps : Unary(op)
        \/ Literal
        \/ \E d \in DOMAIN vals : DeclRef(d)
        \/ Calculate \/ Assign \/ CalculateAndAssign \/ PlusOrNot \/ Minus

Spec == Init /\ [][Next]_vars

-----------------------------------------------------------------------------
(* Properties *)

ValType == [where : {"none", "reg", "stack"}, reg : Regs, cell : Nat,
            decl : BOOLEAN, done : BOOLEAN]

\* The context is well formed, and a temporary register is always found: the
\* search never falls back to R00 (Gen.c 266).
TypeOK ==
  /\ vals \in Seq(ValType)
  /\ \A v \in DOMAIN vals : vals[v].where = "reg" => vals[v].reg \in Temps
  /\ owner \in [Regs -> 0 .. Len(vals)]
  /\ held \in [Regs -> 0 .. Len(vals)]
  /\ prior \in [Regs -> Nat]
  /\ nodes \in 0 .. MaxNodes
  /\ ended \in BOOLEAN
  /\ todo \in Seq([do : BinaryOps \cup UnaryOps \cup {"expr", "drop"},
                   val : DOMAIN vals])

\* A register belongs to the one live value that says it is in it: spilling,
\* loading and popping never leave a register owned by nobody's value, nor two
\* values in one register.
RegistersAgree ==
  \A r \in Regs, v \in DOMAIN vals :
    owner[r] = v <=> vals[v].where = "reg" /\ vals[v].reg = r

\* Results keep their places: whatever was generated since, in whichever order
\* operands were loaded, the register or the cell in which the generator looks
\* for a computed value holds the low bytes of that value and not of another.
ValuesKept ==
  \A v \in DOMAIN vals : vals[v].done =>
    \/ vals[v].where = "reg" /\ held[vals[v].reg] = v
    \/ vals[v].where = "stack" /\ vals[v].cell = v

\* Between statements the stack holds the declarations and nothing else, and
\* at the end nothing is left in a register.
StackBalanced ==
  /\ todo = <<>> => \A v \in DOMAIN vals : vals[v].decl /\ vals[v].done
  /\ ended => vals = <<>> /\ owner = [r \in Regs |-> 0]
=============================================================================

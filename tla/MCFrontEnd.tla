---------------------------- MODULE MCFrontEnd ----------------------------
(***************************************************************************)
(* Texts for FrontEnd, a menu for every group of statements.               *)
(***************************************************************************)
EXTENDS FrontEnd

Expr(use, type, depth) == [use |-> use, type |-> type, depth |-> depth]
One     == Expr("", "int", 0)
True    == Expr("", "bool", 0)
Unknown == Expr("z", "int", 1)     \* 1 + z, z is not declared
X       == Expr("x", "", 0)

Stmt(kind) == [kind |-> kind, name |-> "", type |-> "", params |-> <<>>, expr |-> One]
Test(kind, e)         == [Stmt(kind) EXCEPT !.expr = e]
Obj(name, type, e)    == [Stmt("obj") EXCEPT !.name = name, !.type = type, !.expr = e]
Func(name, type, ps)  == [Stmt("func") EXCEPT !.name = name, !.type = type, !.params = ps]

L(ind, body)       == [ind |-> ind, body |-> body, nl |-> TRUE]
Lines(inds, bodies) == {L(i, b) : i \in inds, b \in bodies}
Main(type)         == L(0, Func("f", type, <<>>))
If                 == Test("if", True)
While              == Test("while", True)
Ret                == Stmt("return")

\* How an if can go on, and whether all ways return.
Or   == Test("or", True)
Ways == [begin |-> <<Main("int"), L(1, If)>>, max |-> 7,
         lines |-> Lines({1}, {Or, Stmt("else")}) \cup Lines({1, 2}, {Ret})
                   \cup Lines({2}, {Stmt("expr")})]

\* Longer chains.
Chains == [begin |-> <<Main("int"), L(1, If), L(2, Ret), L(1, Or), L(2, Ret)>>, max |-> 9,
           lines |-> Lines({1}, {Or, Stmt("else")}) \cup Lines({2}, {Ret, Stmt("expr")})]

\* Loops in loops and ifs, and what leaves them.
Control == [begin |-> <<Main("int"), L(1, While)>>, max |-> 6,
            lines |-> Lines({1, 2, 3}, {Ret, Stmt("break")}) \cup Lines({2}, {If, Stmt("loop"), Stmt("else")})
                      \cup Lines({1, 2}, {Stmt("continue")})]

\* Blocks in blocks.
Nesting == [begin |-> <<Main("void"), L(1, If)>>, max |-> 6,
            lines |-> Lines({1, 2, 3}, {Stmt("expr"), If}) \cup Lines({2}, {Stmt("comment")})]

\* Statements that are reported, and others after them.
Errors == [begin |-> <<Main("void")>>, max |-> 5,
           lines |-> Lines({1, 2}, {Obj("x", "", One), Test("if", Unknown), Test("if", X), Test("expr", X)})
                     \cup Lines({1}, {Obj("x", "bool", One), Obj("y", "int", X), Test("or", X), Stmt("else"),
                                      Test("or", True), Test("return", Unknown), Stmt("stray")})]

\* Any lines at all.
Layout == [begin |-> <<>>, max |-> 4,
           lines |-> Lines({0, 1, 2, 3}, {Stmt("expr"), If, Stmt("comment")})
                     \cup Lines({0, 2}, {Stmt("blank"), Stmt("bad"), Func("f", "void", <<>>)})
                     \cup {L(Mixed, Stmt("expr")), L(Mixed, Stmt("blank")), L(Mixed, Stmt("bad")),
                           [L(1, Stmt("expr")) EXCEPT !.nl = FALSE]}]

\* Functions and their parameters.
Module == [begin |-> <<>>, max |-> 5,
           lines |-> Lines({0, 2}, {Func("f", "void", <<>>), Func("g", "int", <<"x", "x", "y">>),
                                    Func("h", "void", <<"x", "y">>), Test("expr", X), Obj("f", "", One)})]

AllMenus == <<Ways, Chains, Control, Nesting, Errors, Layout, Module>>
WaysOnly == <<Ways>>
=============================================================================

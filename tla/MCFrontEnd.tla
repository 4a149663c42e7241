------------------------------ MODULE MCFrontEnd ------------------------------
(***************************************************************************)
(* Small modules for the compiler: some written by hand, after the tests   *)
(* in test/misc and test/core, and all that a small grammar yields.        *)
(***************************************************************************)
EXTENDS FrontEnd

SomeExterns == [ADDINT |-> 2, SUBINT |-> 2, EQINT |-> 2, RAISE |-> 1]

\* 0, 1: False or Nil, and True; 2: a pair or Cons; 3: a box
SomeArities == (0 :> 0) @@ (1 :> 0) @@ (2 :> 2) @@ (3 :> 1)

Call(f, args) == FoldLeft(LAMBDA e, a : Ap(e, a), f, args)
Op2(op, x, y) == Call(Var(op), <<Var(x), Var(y)>>)
Add(x, y)     == Op2("ADDINT", x, y)
Raise(i)      == Ap(Var("RAISE"), Lit(i))
Pair(a, b)    == Call(ConId(2), <<a, b>>)
LetS(x, rhs, e) == Let(Strict(x, rhs), e)
LetN(x, rhs, e) == Let(NonRec(x, rhs), e)
Strict2(x, y, e) == LetS(x, Var(x), LetS(y, Var(y), e))

Value(x, public, e) == [kind |-> "value", name |-> x, public |-> public, value |-> e, links |-> {}]
Constr(tag, links)  == [kind |-> "con", name |-> ToString(tag), public |-> FALSE, value |-> NoValue, links |-> links]
Extern(x)           == [kind |-> "extern", name |-> x, public |-> FALSE, value |-> NoValue, links |-> {}]
Data                == [kind |-> "data", name |-> "List", public |-> FALSE, value |-> NoValue, links |-> {}]

\* what every module may use
Lib == << Value("plus", FALSE, Lam("x", Lam("y", Strict2("x", "y", Add("x", "y"))))),
          Value("id", FALSE, Lam("x", Var("x"))),
          Value("fst", FALSE, Lam("p", LetS("q", Var("p"), Match("q", <<Alt(PatCon(2, <<"x", "y">>), Var("x"))>>)))),
          Value("dead", FALSE, Call(Var("plus"), <<Lit(1), Lit(2)>>)),
          Value("used", FALSE, ConId(3)),
          Constr(0, {}), Constr(1, {}), Constr(2, {<<"data", "List">>}), Constr(3, {<<"value", "used">>}),
          Extern("ADDINT"), Extern("SUBINT"), Extern("EQINT"), Extern("RAISE"), Data >>

Module(main) == Append(Lib, Value("main", FALSE, main))

\* Shadowing: of a global name, of a parameter by a let and by a pattern
ShadowL == Call(Lam("id", LetN("x", Var("id"), Lam("x", Pair(Var("x"), Var("id"))))), <<Lit(1), Lit(2)>>)
ShadowP == LetS("p", Pair(Lit(1), Lit(2)), Match("p", <<Alt(PatCon(2, <<"x", "p">>),
             LetN("x", Call(Var("plus"), <<Var("x"), Var("p")>>), Pair(Var("x"), Var("p"))))>>))
ShadowR == Let(Rec(<< <<"f", Lam("n", LetS("n", Var("n"), Match("n",
                <<Alt(PatLit(0), Lit(5)), Alt(PatDefault, LetS("n", Call(Var("SUBINT"), <<Var("n"), Lit(1)>>),
                     Ap(Var("f"), Var("n"))))>>)))>> >>), Ap(Var("f"), Lit(2)))
SameName == LetN("x", LetN("x", Lit(1), Pair(Var("x"), Var("x"))), Ap(Var("fst"), Var("x")))

\* Functions that capture: nested, recursive, mutually recursive, through an atom
Capture == Ap(Lam("a", LetN("f", Lam("y", Call(Var("plus"), <<Var("a"), Var("y")>>)),
             LetN("g", Lam("z", Ap(Var("f"), Ap(Var("f"), Var("z")))), Ap(Var("g"), Lit(3))))), Lit(1))
Mutual == Call(Lam("a", Lam("b", Let(Rec(
    << <<"even", Lam("n", LetS("n", Var("n"), Match("n", <<Alt(PatLit(0), Var("a")),
                   Alt(PatDefault, LetS("m", Call(Var("SUBINT"), <<Var("n"), Lit(1)>>),
                         Ap(Var("odd"), Var("m"))))>>)))>>,
       <<"odd", Lam("n", LetS("n", Var("n"), Match("n", <<Alt(PatLit(0), Var("b")),
                   Alt(PatDefault, LetS("m", Call(Var("SUBINT"), <<Var("n"), Lit(1)>>),
                         Ap(Var("even"), Var("m"))))>>)))>>,
       <<"c", Lit(7)>> >>),
   Pair(Ap(Var("even"), Lit(3)), Call(Var("plus"), <<Var("c"), Ap(Var("odd"), Lit(3))>>))))), <<Lit(1), Lit(2)>>)
Circle == Ap(Lam("a", Let(Rec(<< <<"xs", Pair(Var("a"), Var("ys"))>>,
                 <<"ys", Ap(Var("f"), Var("xs"))>>,
                 <<"f", Lam("t", Pair(Var("a"), Var("xs")))>> >>), Var("ys"))), Lit(4))

\* Arguments that are no atoms, saturation
Args == Call(Var("plus"), <<Call(Var("ADDINT"), <<Lit(1), Lit(2)>>),
          LetN("f", Lam("x", Var("x")), Ap(Var("f"), Lit(3)))>>)
Lambda == Call(Lam("f", Ap(Var("f"), Lit(2))), <<Lam("x", Call(Var("plus"), <<Var("x"), Lit(1)>>))>>)
Matched == Call(Var("plus"), <<Lit(1), LetS("b", Call(Var("EQINT"), <<Lit(1), Lit(1)>>),
             Match("b", <<Alt(PatCon(1, <<>>), Lit(2)), Alt(PatDefault, Lit(3))>>))>>)
Partial == Call(Lam("f", Ap(Var("f"), Lit(2))), <<Ap(ConId(2), Lit(1))>>)
Sections == LetN("f", Ap(Var("ADDINT"), Lit(1)), LetS("n", Ap(Var("f"), Lit(2)), Pair(Var("n"), Var("f"))))
Lambdas == LetS("n", Lit(1), Match("n", <<Alt(PatDefault, Lam("x", Pair(Var("n"), Var("x"))))>>))
Tag == LetS("t", Lit(2), LetN("p", Call(ConTag(Var("t"), 2), <<Lit(1), Lit(2)>>), Var("p")))

\* Order: which exception comes first
Order == LetS("x", Raise(1), LetS("y", Raise(2), Pair(Var("y"), Var("x"))))
OrderAp == LetS("x", Raise(1), LetS("y", Raise(2), Call(Var("plus"), <<Var("x"), Var("y")>>)))
OrderPrim == LetS("x", Ap(Var("id"), Lit(1)), LetS("y", Raise(2), Add("x", "y")))
Sharing == LetN("x", Call(Var("plus"), <<Lit(1), Lit(2)>>), LetN("y", Call(Var("plus"), <<Var("x"), Var("x")>>),
             Pair(Var("y"), Var("x"))))

ByHand == {ShadowL, ShadowP, ShadowR, SameName, Capture, Mutual, Circle, Args, Lambda, Matched,
           Partial, Sections, Lambdas, Tag, Order, OrderAp, OrderPrim, Sharing}

-----------------------------------------------------------------------------
\* Three bindings, lazy or strict, of exceptions, numbers, calls, pairs and functions
\* that capture, and an expression that uses two of them.
Rhs(n, xs) == {Raise(n), Lit(n)} \cup {Ap(Var("id"), Var(x)) : x \in xs}
              \cup {Pair(Var(x), Var(x)) : x \in xs} \cup {Lam("y", Pair(Var("y"), Var(x))) : x \in xs}

Binding(n, x, xs) == {NonRec(x, e) : e \in Rhs(n, xs)}
                     \cup {Strict(x, e) : e \in {r \in Rhs(n, xs) : r.c # "Lam"}}

Uses == {Pair(Var(x), Var(y)) : x, y \in {"a", "b", "c"}}

Within(bs, e) == FoldRight(LAMBDA b, inner : Let(b, inner), bs, e)

\* A lazy binding that nothing uses is left out: see Lost.
RECURSIVE NoDeadBinding(_)
NoDeadBinding(e) ==
  e.c = "Let" => /\ e.b.bind = "NonRec" => e.b.bs[1][1] \in freeVar(e.e)
                 /\ NoDeadBinding(e.e)

Generated ==
  {e \in {Within(<<b, c, d>>, u) : b \in Binding(1, "a", {}), c \in Binding(2, "b", {"a"}),
                                   d \in Binding(3, "c", {"a", "b"}), u \in Uses} : NoDeadBinding(e)}
  \cup
  {Within(<<b, c, d>>, Ap(Var("c"), Var("b"))) :
     b \in Binding(1, "a", {}), c \in Binding(2, "b", {"a"}),
     d \in {NonRec("c", Lam("y", Pair(Var("y"), Var(x)))) : x \in {"a", "b"}}}

AllSources == {Module(e) : e \in ByHand \cup Generated}

\* What the optimiser gets wrong.  A strict binding that only a dead binding uses goes
\* with it, its exception too; one that is inlined in a later argument is evaluated
\* after an earlier one that stays.
Lost    == LetS("a", Raise(1), LetN("c", Ap(Var("id"), Var("a")), Pair(Lit(2), Lit(3))))
Swapped == LetS("x", Raise(1), LetS("z", Raise(2), LetN("y", Ap(Var("id"), Var("z")),
             Pair(Pair(Var("y"), Var("y")), Var("x")))))
LostSources == {Module(Lost), Module(Swapped)}

\* A partial application with a binding of its own, inlined as the head of a call.
Plus3 == Value("plus3", FALSE, Lam("x", Lam("y", Lam("z",
           Call(Var("plus"), <<Call(Var("plus"), <<Var("x"), Var("y")>>), Var("z")>>)))))
HeadLet == LetN("x", LetN("a", Ap(Var("id"), Lit(1)), Call(Var("plus3"), <<Var("a"), Var("a")>>)),
           LetN("z", Ap(Var("id"), Lit(2)), Ap(Var("x"), Var("z"))))
HeadSources == {<<Plus3>> \o Module(HeadLet)}
=============================================================================

------------------------------- MODULE Programs -------------------------------
(***************************************************************************)
(* Small programs for the compiler and the machine.  A program is a value  *)
(* without parameters; all of them share one table of functions.           *)
(***************************************************************************)
EXTENDS Expr

Case(x, e, alts)  == Eval(x, e, Match(x, alts))
Num(i, e)         == Alt(PatInt(i), e)
Is(t, xs, e)      == Alt(PatCon(t, xs), e)
Tagged(t, xs, e)  == Alt(PatTag(t, xs), e)
Else(x, e)        == Alt(PatVar(x), e)
Add(x, y)         == Prim("ADDINT", <<Var(x), Var(y)>>)
Minus1(x)         == Prim("SUBINT", <<Var(x), Lit(1)>>)

\* data List = Nil | Cons
Nil         == Con(0, <<>>)
Cell(h, t)  == Con(1, <<h, t>>)

\* the sum of n, n-1, .. 1
Sum == Top(<<"n", "acc">>,
  Case("n", Var("n"), <<Num(0, Var("acc")),
    Else("m", Eval("a", Var("acc"), Eval("b", Add("a", "m"),
              Eval("k", Minus1("m"), Ap("sum", <<Var("k"), Var("b")>>)))))>>))

\* the list n, n-1, .. 1, lazily
From == Top(<<"n">>,
  Case("n", Var("n"), <<Num(0, Nil),
    Else("m", Let("r", Ap("pred", <<Var("m")>>), Cell(Var("m"), Var("r"))))>>))

Pred == Top(<<"m">>,
  Eval("m", Var("m"), Eval("k", Minus1("m"), Ap("from", <<Var("k")>>))))

Total == Top(<<"xs">>,
  Case("xs", Var("xs"), <<Is(0, <<>>, Lit(0)),
    Is(1, <<"h", "t">>,
       Eval("h", Var("h"), Eval("r", Ap("total", <<Var("t")>>), Add("h", "r"))))>>))

\* a list that is used twice
Shared == Top(<<>>,
  Let("xs", Ap("from", <<Lit(2)>>),
  Eval("a", Ap("total", <<Var("xs")>>),
  Eval("b", Ap("total", <<Var("xs")>>), Add("a", "b")))))

-----------------------------------------------------------------------------
(* Values without parameters, functions as values                           *)

\* the infinite list of ones
Ones == Top(<<>>, Cell(Lit(1), Var("ones")))

TwoOnes == Top(<<>>,
  Case("xs", Note("Once", Var("ones")), <<Is(1, <<"a", "t">>,
    Case("ys", Var("t"), <<Is(1, <<"b", "u">>,
      Eval("x", Var("a"), Eval("y", Var("b"), Add("x", "y"))))>>))>>))

Add3 == Top(<<"a", "b", "c">>,
  Eval("x", Var("a"), Eval("y", Var("b"), Eval("z", Var("c"),
  Eval("s", Add("x", "y"), Add("s", "z"))))))

\* some of the arguments of add3
Some3 == Top(<<"a", "u", "v">>, Ap("add3", <<Var("a")>>))

Same  == Top(<<"x">>, Var("x"))

\* g is shared and evaluates to a partial application
Partials == Top(<<>>,
  Let("g", Ap("some3", <<Lit(1), Lit(0), Lit(0)>>),
  Let("h", Ap("same", <<Var("add3")>>),
  Eval("a", Ap("g", <<Lit(2), Lit(1)>>),
  Eval("f", Ap("some3", <<Lit(1), Lit(0), Lit(0)>>),
  Eval("b", Ap("f", <<Var("a"), Lit(-3)>>),
  Eval("c", Ap("h", <<Var("a"), Lit(-2), Lit(-1)>>),
  Ap("g", <<Var("b"), Var("c")>>))))))))

\* a constructor that exists already is the value of the program
Passes == Top(<<>>, Eval("xs", Cell(Lit(1), Nil), Ap("same", <<Var("xs")>>)))

Waits  == Top(<<>>, Ap("add3", <<Lit(1), Lit(2)>>))
Ready  == Top(<<>>, Eval("f", Var("add3"), Var("f")))

-----------------------------------------------------------------------------
(* Recursive bindings, tags that are computed, primitives                   *)

\* let rec xs = 1 : ys; ys = same xs; f = add3 1 1 in ..
Knot == Top(<<>>,
  LetRec(<< <<"xs", Cell(Lit(1), Var("ys"))>>,
            <<"ys", Ap("same", <<Var("xs")>>)>>,
            <<"f", Ap("add3", <<Lit(1), Lit(1)>>)>> >>,
  Case("ys", Var("ys"), <<Is(0, <<>>, Lit(0)),
    Else("zs", Case("zs", Var("zs"), <<Is(1, <<"a", "t">>, Ap("f", <<Var("a")>>))>>))>>)))

\* let rec xs = (let y = same 1 in y : xs) in ..
Inner == Top(<<>>,
  LetRec(<< <<"xs", Let("y", Ap("same", <<Lit(1)>>), Cell(Var("y"), Var("xs")))>> >>,
  Case("ys", Var("xs"), <<Is(0, <<>>, Lit(0)), Is(1, <<"a", "t">>, Var("a"))>>)))

\* a constructor with a tag that is computed, and recursive
Computed == Top(<<"t">>,
  LetRec(<< <<"c", ConTag(Var("t"), <<Lit(2), Var("c")>>)>> >>, Var("c")))

Tags == Top(<<>>,
  Eval("t", Lit(2),
  Eval("d", ConTag(Var("t"), <<Lit(1)>>),
  Eval("c", Ap("computed", <<Var("t")>>),
  Match("c", <<Tagged(2, <<"x">>, Lit(0)),
               Tagged(2, <<"n", "e">>,
                 Case("d", Note("Once", Var("d")), <<Tagged(2, <<"m">>, Add("n", "m")),
                                       Else("o", Lit(-1))>>))>>)))))

\* a block of two fields is written, and read again
Fields == Top(<<>>,
  Eval("t", Lit(3), Eval("n", Lit(2), Eval("i", Lit(1),
  Eval("v", Prim("ALLOC", <<Var("t"), Var("n")>>),
  Eval("w", Prim("UPDFIELD", <<Var("i"), Var("n"), Var("v")>>),
  Eval("x", Prim("GETFIELD", <<Var("w"), Var("i")>>),
  Eval("s", Prim("GETSIZE", <<Var("w")>>),
  Eval("g", Prim("GETTAG", <<Var("w")>>),
  Eval("a", Add("x", "s"), Add("a", "g")))))))))))

Outside == Top(<<>>,
  Eval("i", Lit(1), Eval("v", Cell(Lit(1), Nil),
  Eval("w", Prim("UPDFIELD", <<Var("i"), Var("i"), Var("v")>>),
  Eval("j", Lit(2), Prim("GETFIELD", <<Var("w"), Var("j")>>))))))

\* the field is a thunk
Lazily == Top(<<>>,
  Eval("v", Cell(Ap("same", <<Lit(3)>>), Nil), Eval("i", Lit(0),
  Prim("GETFIELD", <<Var("v"), Var("i")>>))))

Ticks == Top(<<>>, Eval("u", Lit(0), Prim("ticks", <<Var("u")>>)))

Signs == Top(<<>>, Eval("a", Lit(2), Eval("b", Lit(-3),
  Case("c", Prim("LTINT", <<Var("b"), Var("a")>>),
       <<Is(1, <<>>, Case("d", Note("Once", Prim("EQINT", <<Var("b"), Var("a")>>)),
                          <<Is(0, <<>>, Prim("MULINT", <<Var("a"), Var("b")>>))>>)),
         Is(0, <<>>, Lit(0))>>))))

\* the quotients and remainders of a and b, added up with weights
Divides(i, j) == Top(<<>>,
  Eval("a", Lit(i), Eval("b", Lit(j),
  Eval("p", Prim("DIVINT", <<Var("a"), Var("b")>>), Eval("q", Prim("QUOTINT", <<Var("a"), Var("b")>>),
  Eval("r", Prim("MODINT", <<Var("a"), Var("b")>>), Eval("s", Prim("REMINT", <<Var("a"), Var("b")>>),
  Eval("m", Prim("MULINT", <<Var("b"), Var("p")>>), Eval("n", Add("m", "r"),
  Case("c", Prim("GEINT", <<Var("n"), Var("a")>>),
       <<Is(1, <<>>, Eval("k", Add("p", "q"), Eval("l", Prim("NEGINT", <<Var("s")>>), Add("k", "l")))),
         Is(0, <<>>, Lit(0))>>))))))))))

\* a constructor with a tag that does not fit in a header
Wide == Top(<<"n", "u", "v">>, Con(12, <<Var("n"), Lit(1)>>))

Wides == Top(<<>>,
  Let("w", Ap("wide", <<Lit(2), Lit(0), Lit(0)>>),
  Eval("v", Con(13, <<>>),
  Case("w", Var("w"), <<Is(12, <<"a", "b">>,
    Case("u", Var("v"), <<Is(12, <<"x", "y">>, Lit(0)),
                          Is(13, <<>>, Add("a", "b"))>>))>>))))

\* such a constructor without fields is the value of a thunk
Late == Top(<<"n">>, Con(13, <<>>))

Lates == Top(<<>>,
  Let("t", Ap("late", <<Lit(2)>>), Eval("u", Var("t"),
  Case("v", Var("t"), <<Is(13, <<>>, Lit(1)), Else("o", Lit(2))>>))))

\* a thunk of two words whose value has three fields, used twice
Triple == Top(<<"n">>, Con(3, <<Var("n"), Var("n"), Var("n")>>))

Triples == Top(<<>>,
  Let("t", Ap("triple", <<Lit(2)>>),
  Case("u", Var("t"), <<Is(3, <<"a", "b", "c">>,
    Case("v", Var("t"), <<Is(3, <<"x", "y", "z">>, Add("a", "z"))>>))>>)))

-----------------------------------------------------------------------------
(* Exceptions                                                               *)

\* no alternative, with and without the constructor in the heap
Misses == Top(<<>>, Case("xs", Note("Once", Ap("from", <<Lit(1)>>)), <<Is(0, <<>>, Lit(0))>>))
Lacks  == Top(<<>>, Case("n", Lit(3), <<Num(1, Lit(0))>>))
Over   == Top(<<>>, Ap("sum", <<Lit(4), Lit(7)>>))
Under  == Top(<<>>, Eval("a", Lit(-16), Minus1("a")))
Times(i, j) == Top(<<>>, Eval("a", Lit(i), Eval("b", Lit(j), Prim("MULINT", <<Var("a"), Var("b")>>))))

\* let rec x = same x in x
Loops == Top(<<>>, LetRec(<< <<"x", Ap("same", <<Var("x")>>)>> >>, Var("x")))
Itself == Top(<<>>, Eval("y", Var("itself"), Minus1("y")))

\* the exception 9, or the result 1 after it
Fails == Top(<<"n">>, Eval("e", Con(9, <<>>), Prim("RAISE", <<Var("e")>>)))

Handler == Top(<<"e">>, Case("e", Var("e"), <<Is(9, <<>>, Lit(5)), Else("o", Lit(6))>>))

\* evaluates t again in the handler of a handler
Again == Top(<<"t", "e">>, Prim("CATCH", <<Var("code"), Var("t")>>))

Caught == Top(<<>>,
  Let("t", Ap("fails", <<Lit(1)>>),
  Prim("CATCH", <<Ap("again", <<Var("t")>>), Ap("adds", <<Var("t")>>)>>)))

Adds == Top(<<"t">>, Eval("v", Var("t"), Minus1("v")))

\* evaluates t, and after an exception evaluates it again
Keep == Top(<<"t", "e">>, Var("t"))

Resumes == Top(<<>>,
  Let("xs", Ap("from", <<Lit(1)>>), Let("t", Ap("total", <<Var("xs")>>),
  Prim("CATCH", <<Ap("keep", <<Var("t")>>), Ap("adds", <<Var("t")>>)>>))))

Calm == Top(<<>>, Eval("r", Prim("CATCH", <<Var("code"), Ap("sum", <<Lit(2), Lit(0)>>)>>),
                  Minus1("r")))

\* a partial application and a constructor come out of a catch
CalmAdd == Top(<<>>,
  Eval("f", Prim("CATCH", <<Var("code"), Ap("some3", <<Lit(1), Lit(0), Lit(0)>>)>>),
  Ap("f", <<Lit(2), Lit(1)>>)))

CalmList == Top(<<>>,
  Case("xs", Prim("CATCH", <<Var("code"), Ap("from", <<Lit(1)>>)>>),
       <<Is(0, <<>>, Lit(0)), Is(1, <<"h", "t">>, Var("h"))>>))

\* evaluates a function, and after an exception applies it
Readies == Top(<<"t">>, Eval("f", Var("t"), Ap("f", <<Lit(2), Lit(1)>>)))
Applied == Top(<<"t", "e">>, Ap("t", <<Lit(2), Lit(1)>>))

Applies == Top(<<>>,
  Let("t", Ap("some3", <<Lit(1), Lit(0), Lit(0)>>),
  Prim("CATCH", <<Ap("applied", <<Var("t")>>), Ap("readies", <<Var("t")>>)>>)))

\* evaluates t below n frames, after an exception
Down == Top(<<"n", "t">>,
  Case("n", Var("n"), <<Num(0, Var("t")),
    Else("m", Eval("k", Minus1("m"),
              Eval("r", Ap("down", <<Var("k"), Var("t")>>), Add("r", "k"))))>>))

Deep == Top(<<"t", "e">>, Ap("down", <<Lit(2), Var("t")>>))

Deepens == Top(<<>>,
  Let("xs", Ap("from", <<Lit(2)>>), Let("t", Ap("total", <<Var("xs")>>),
  Prim("CATCH", <<Ap("deep", <<Var("t")>>), Ap("adds", <<Var("t")>>)>>))))

-----------------------------------------------------------------------------
Functions ==
  [sum |-> Sum, from |-> From, pred |-> Pred, total |-> Total, add3 |-> Add3,
   some3 |-> Some3, same |-> Same, computed |-> Computed, wide |-> Wide,
   fails |-> Fails, code |-> Handler, again |-> Again, adds |-> Adds,
   sums |-> Top(<<>>, Ap("sum", <<Lit(3), Lit(0)>>)),
   shared |-> Shared, ones |-> Ones, twoOnes |-> TwoOnes, partials |-> Partials,
   passes |-> Passes, waits |-> Waits, ready |-> Ready, knot |-> Knot, tags |-> Tags, fields |-> Fields,
   outside |-> Outside, lazily |-> Lazily, ticks2 |-> Ticks, signs |-> Signs, divides |-> Divides(-5, 3), divided |-> Divides(-5, -3), zero |-> Divides(-5, 0), wides |-> Wides,
   triple |-> Triple, triples |-> Triples,
   misses |-> Misses, lacks |-> Lacks, over |-> Over, under |-> Under,
   times |-> Times(7, 3), timesLong |-> Times(-6, 15), product |-> Times(-16, -16),
   loops |-> Loops, itself |-> Itself, keep |-> Keep, resumes |-> Resumes, caught |-> Caught, calm |-> Calm,
   calmAdd |-> CalmAdd, calmList |-> CalmList,
   readies |-> Readies, applied |-> Applied, applies |-> Applies,
   down |-> Down, deep |-> Deep, deepens |-> Deepens, inner |-> Inner, late |-> Late, lates |-> Lates]

\* programs that evaluate a value in terms of itself: no meaning, and the machine
\* sees it once the value is blackholed
Endless == {"loops", "itself"}
=============================================================================

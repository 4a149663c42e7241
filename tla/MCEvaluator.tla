----------------------------- MODULE MCEvaluator -----------------------------
(***************************************************************************)
(* The machine runs the compiled programs of Programs.                     *)
(***************************************************************************)
EXTENDS Evaluator, FiniteSetsExt

Prog == INSTANCE Programs

Comp == INSTANCE Emit WITH Tops <- Prog!Functions

Compiled == Comp!codegen
Plain    == Comp!plain

\* The compiled programs, but for the SLIDE over the frame of a catch (see
\* WordAboveFrame), and one that is written in instructions: a constructor is
\* returned to a catch.
Based(is) == [j \in DOMAIN is |->
  IF is[j][1] = "SLIDE" /\ \E k \in 1 .. j : is[k][1] = "PUSHCATCH"
  THEN <<"SLIDE", 1, 0>> ELSE is[j]]

Direct == << <<"ARGCHK", 0>>, <<"PUSHCODE", "code">>, <<"PUSHCATCH">>,
             <<"PUSHINT", 1>>, <<"ENTERCODE", "from">> >>

Repaired == [g \in DOMAIN Compiled \cup {"direct"} |->
               IF g = "direct" THEN Direct ELSE Based(Compiled[g])]

\* Programs that catch nothing, with room on the stack; two returns to the
\* scheduler at any point.
Calm == {"sums", "shared", "ones", "twoOnes", "partials", "passes", "waits",
         "lazily", "ready", "knot", "tags", "fields", "outside", "ticks2",
         "signs", "divides", "divided", "zero", "wides", "misses", "lacks", "over", "under", "times", "timesLong",
         "loops", "itself"}

Calmly(mains, codes) ==
  [main: mains, code: codes, init: {24}, max: {200}, bound: {2}, kinds: {{"yield", "gc"}}]

\* Programs that catch, on a stack that overflows; an interrupt at any point.
Catching == {"calm", "caught", "resumes", "applies", "calmAdd", "calmList", "direct"}

Interrupted(mains) ==
  [main: mains, code: {Repaired}, init: {36}, max: {44}, bound: {1},
   kinds: {{"yield", "gc", "int"}}]

AllScenarios  == Calmly(Calm, {Compiled, Plain}) \cup Interrupted(Catching)

\* One program, without signals: what is refuted needs none.  OnlyProduct, which
\* refutes ResultIsMeaning, multiplies two numbers that MULINT does not test.
Alone(g) == [main: {g}, code: {Compiled}, init: {24}, max: {96}, bound: {0}, kinds: {{}}]

OnlyCatch     == Alone("calm")
OnlyRecursive == Alone("inner")
OnlyMoved     == Alone("triples")
OnlyProduct   == Alone("product")

\* the values of the program, in some order of their records
CafNames == LET values == {g \in DOMAIN Prog!Functions : Prog!Functions[g].params = <<>>}
            IN FoldSet(LAMBDA g, seq : Append(seq, g), <<"direct">>, values)

SomeExterns == [ticks |-> [arity |-> 1, result |-> 4]]


-----------------------------------------------------------------------------
\* what the program prints of the result
ShownWord(w) ==
  CASE w[1] = "int"  -> w
    [] w[1] = "code" -> <<"fun", 0>>
    [] Tagged(w, {"Nap"}) -> <<"fun", Len(BlockOf(w).f) - 1>>
    [] w[1] = "atom" \/ Tagged(w, {"Con"}) -> <<"con", ContagOf(w)>>
    [] OTHER -> w

Expected(g) == IF g \in Prog!Endless THEN <<"exn", 3>> ELSE Comp!Meaning(g)

\* A signal that interrupts, or a full stack, may end a program in its place; what
\* direct returns to its catch has no source.
Undisturbed ==
  "int" \in scenario.kinds => sent = 0 /\ size < StackMax /\ main # "direct"

\* A program that ends shows what its source means, whatever is collected, moved
\* or blackholed on the way, however often it returns to the scheduler, and
\* whether or not it catches its exceptions.
ResultIsMeaning ==
  Undisturbed =>
    /\ label = "complete"  => ShownWord(Top(0)) = Expected(main)
    /\ label = "exception" => <<"exn", ContagOf(Top(0))>> = Expected(main)
    /\ label \notin {"fatal", "corrupt"}
=============================================================================

------------------------------- MODULE Rewrite -------------------------------
(***************************************************************************)
(* The rewrites of resolved instructions and the peephole optimiser       *)
(* (lib/Lvm/Instr/Rewrite.hs).  The third operand of SLIDE, the depth, is *)
(* only ever used to compute other depths and is left out.                *)
(***************************************************************************)
EXTENDS Resolve

\* the instructions start with these names
Starts(is, names) == Len(is) >= Len(names)
                       /\ \A j \in DOMAIN names : is[j][1] = names[j]

After(is, n) == SubSeq(is, n + 1, Len(is))

Arity(g) == IF g \in DOMAIN Tops THEN Len(Tops[g].params) ELSE Externs[g].arity

\* n times PUSHVAR n-1 before SLIDE n m: the words are on top already
Dup(is, n) ==
  /\ Len(is) > n
  /\ \A j \in 1 .. n : is[j] = <<"PUSHVAR", n - 1>>
  /\ is[n + 1][1] = "SLIDE" /\ is[n + 1][2] = n /\ is[n + 1][3] >= n

\* Of a call in tail position the arguments are left on the stack.
rewritePushCode(f, is) ==
  CASE Starts(is, <<"NEWAP">>) /\ Arity(f) >= is[1][2] ->
         <<<<"PUSHCODE", f>>, <<"NEWNAP", is[1][2]>>>> \o Tail(is)
    [] Starts(is, <<"PACKAP">>) /\ Arity(f) >= is[1][3] ->
         <<<<"PUSHCODE", f>>, <<"PACKNAP", is[1][2], is[1][3]>>>> \o Tail(is)
    [] Starts(is, <<"SLIDE", "ENTER">>) /\ Arity(f) = is[1][2] - 1 /\ Arity(f) # 0 ->
         <<<<"SLIDE", is[1][2] - 1, is[1][3]>>, <<"ENTERCODE", f>>>> \o After(is, 2)
    [] OTHER -> <<<<"PUSHCODE", f>>>> \o is

\* the merged SLIDE drops what the two together drop
SlidesMerged(a, b) == <<"SLIDE", b[2], a[3] + b[3] - (a[2] - b[2])>>

RECURSIVE rewrites(_), rewriteEval(_, _)

rewriteMatch(i, is) ==
  <<<<i[1], [j \in DOMAIN i[2] |->
       <<i[2][j][1], IF i[2][j][2] = <<>> THEN <<>> ELSE rewrites(i[2][j][2] \o is)>>]>>>>

rewriteEval(eval, is) ==
  IF /\ Starts(eval, <<"PUSHVAR">>)
     /\ Tail(eval) \in {<<<<"SLIDE", 1, 0>>, <<"ENTER">>>>, <<<<"ENTER">>>>}
  THEN rewrites(<<<<"EVALVAR", eval[1][2] - 3>>>> \o is)
  ELSE <<<<"EVAL", eval>>>> \o rewrites(is)

rewrites(is) ==
  CASE is = <<>> -> <<>>
    [] \E n \in 1 .. 3 : Dup(is, n) ->
         LET n == CHOOSE n \in 1 .. 3 : Dup(is, n)
         IN rewrites(<<<<"SLIDE", n, is[n + 1][3] - n>>>> \o After(is, n + 1))
    [] Starts(is, <<"NEWAP", "SLIDE", "ENTER">>) \/ Starts(is, <<"NEWNAP", "SLIDE", "ENTER">>) ->
         <<<<"SLIDE", is[2][2] + is[1][2] - 1, is[2][3]>>, <<"ENTER">>>> \o rewrites(After(is, 3))
    [] Starts(is, <<"CALL", "SLIDE", "ENTER">>) /\ is[2][2] = 1 ->
         <<<<"SLIDE", is[1][3], is[2][3]>>, is[1], <<"ENTER">>>> \o rewrites(After(is, 3))
    [] Starts(is, <<"NEWCON", "SLIDE", "ENTER">>) /\ is[2][2] = 1 ->
         <<<<"SLIDE", is[1][3], is[2][3]>>, <<"RETURNCON", is[1][2], is[1][3]>>>>
           \o rewrites(After(is, 3))
    [] Starts(is, <<"PUSHINT", "SLIDE", "ENTER">>) /\ is[2][2] = 1 ->
         <<<<"SLIDE", 0, is[2][3]>>, <<"RETURNINT", is[1][2]>>>> \o rewrites(After(is, 3))
    [] Len(is) >= 3 /\ Starts(Tail(is), <<"SLIDE", "ENTER">>) /\ is[2][2] = 1
         /\ strictResult(is[1]) ->
         <<is[1], is[2], <<"RETURN">>>> \o After(is, 3)
    [] Starts(is, <<"PUSHCODE">>) -> rewritePushCode(is[1][2], rewrites(Tail(is)))
    [] Starts(is, <<"EVAL">>) -> rewriteEval(rewrites(is[1][2]), Tail(is))
    [] Starts(is, <<"SLIDE", "SLIDE">>) /\ is[2][2] <= is[1][2] ->
         rewrites(<<SlidesMerged(is[1], is[2])>> \o After(is, 2))
    [] is[1][1] \in {"MATCH", "MATCHCON", "MATCHINT"} -> rewriteMatch(is[1], Tail(is))
    [] OTHER -> <<is[1]>> \o rewrites(Tail(is))

-----------------------------------------------------------------------------
(* Peephole optimisation                                                    *)

shorten(i) ==
  CASE i[1] = "PUSHVAR" /\ i[2] <= 4 -> <<"PUSHVAR" \o ToString(i[2])>>
    [] i[1] \in {"NEWAP", "NEWNAP"} /\ i[2] \in 2 .. 4 -> <<i[1] \o ToString(i[2])>>
    [] i[1] = "NEWCON" /\ i[3] <= 3 -> <<"NEWCON" \o ToString(i[3]), i[2]>>
    [] i[1] = "RETURNCON" /\ i[3] = 0 -> <<"RETURNCON0", i[2]>>
    [] OTHER -> i

RECURSIVE simplify(_, _)
simplify(short, is) ==
  LET rest(n) == simplify(short, After(is, n))
      i == is[1]
  IN
  CASE is = <<>> -> <<>>
    [] Starts(is, <<"EVAL">>) -> <<<<"EVAL", simplify(short, i[2])>>>> \o rest(1)
    [] is # <<>> /\ i[1] \in {"MATCH", "MATCHCON", "MATCHINT"} ->
         <<<<i[1], [j \in DOMAIN i[2] |-> <<i[2][j][1], simplify(short, i[2][j][2])>>]>>>>
           \o rest(1)
    [] Starts(is, <<"NEWAP">>) /\ i[2] = 1 -> rest(1)
    [] Starts(is, <<"NEWNAP">>) /\ i[2] = 1 -> rest(1)
    [] Starts(is, <<"SLIDE">>) /\ i[3] = 0 -> rest(1)
    [] Starts(is, <<"SLIDE", "RETURN">>) /\ i[3] # 0 /\ i[2] = 1 -> rest(1)
    [] Starts(is, <<"SLIDE", "RETURNCON">>) /\ i[3] # 0 /\ is[2][3] = i[2] -> rest(1)
    [] Starts(is, <<"SLIDE", "RETURNINT">>) /\ i[3] # 0 /\ i[2] = 0 -> rest(1)
    [] Starts(is, <<"PUSHVAR", "PUSHVAR">>) -> <<<<"PUSHVARS2", i[2], is[2][2]>>>> \o rest(2)
    [] OTHER -> <<IF short THEN shorten(i) ELSE i>> \o rest(1)

dummies(is)  == simplify(FALSE, is)
peephole(is) == simplify(TRUE, is)

instrRewrite(is) == peephole(rewrites(dummies(rewrites(rewrites(is)))))
=============================================================================

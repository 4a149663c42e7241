------------------------------ MODULE CorePasses ------------------------------
(***************************************************************************)
(* The passes over Core expressions of coreToAsm (lib/Lvm/Core/ToAsm.hs).  *)
(*                                                                         *)
(* The supply of fresh names is a counter in the code, whose values depend *)
(* on the order of evaluation.  All that the passes rely on is that no     *)
(* name is handed out twice, and here the path from the root of the        *)
(* declaration makes a name unique.                                        *)
(***************************************************************************)
EXTENDS Core, SequencesExt, TLC

Fresh(x, p) == x \o "." \o p
Sub(p, n)   == p \o ToString(n)

-----------------------------------------------------------------------------
(* NoShadow.hs, coreRename.  The environment is [in, ren]: the names in     *)
(* scope, as the source has them, and what they are renamed to.             *)

Renamed(env, x) == IF x \in DOMAIN env.ren THEN env.ren[x] ELSE x

renameLetBinder(env, x, p) ==
  [in |-> env.in \cup {x},
   ren |-> [y \in DOMAIN env.ren \cup {x} |-> IF y = x THEN Fresh(x, p) ELSE env.ren[y]]]

\* mutant: no local variable is taken to shadow another one
renameBinderNever(env, x, p) == [env EXCEPT !.in = @ \cup {x}]

renameBinder(env, x, p) ==
  IF x \in env.in THEN renameLetBinder(env, x, p) ELSE [env EXCEPT !.in = @ \cup {x}]

RECURSIVE renameBinders(_, _, _), renameLetBinders(_, _, _)
renameBinders(env, xs, p) ==
  IF xs = <<>> THEN env ELSE renameBinders(renameBinder(env, Head(xs), p), Tail(xs), p \o "b")

renameLetBinders(env, bs, p) ==
  IF bs = <<>> THEN env
  ELSE renameLetBinders(renameLetBinder(env, Head(bs)[1], p), Tail(bs), p \o "b")

RECURSIVE nsExpr(_, _, _)
nsExpr(env, e, p) ==
  CASE e.c = "Let" ->
         LET env2  == renameLetBinders(env, e.b.bs, p)
             inner == IF e.b.bind = "Rec" THEN env2 ELSE env
         IN Let([e.b EXCEPT !.bs = [j \in DOMAIN e.b.bs |->
                   <<Renamed(env2, e.b.bs[j][1]), nsExpr(inner, e.b.bs[j][2], Sub(p, j))>>]],
                nsExpr(env2, e.e, Sub(p, 0)))
    [] e.c = "Match" ->
         LET nsAlt(a, q) ==
               LET env2 == renameBinders(env, a.pat.ids, q)
               IN Alt([a.pat EXCEPT !.ids = [j \in DOMAIN a.pat.ids |-> Renamed(env2, a.pat.ids[j])]],
                      nsExpr(env2, a.e, Sub(q, 0)))
         IN Match(Renamed(env, e.x), [j \in DOMAIN e.alts |-> nsAlt(e.alts[j], Sub(p, j))])
    [] e.c = "Lam" -> LET env2 == renameBinder(env, e.x, p)
                      IN Lam(Renamed(env2, e.x), nsExpr(env2, e.e, Sub(p, 1)))
    [] e.c = "Var" -> Var(Renamed(env, e.x))
    [] OTHER       -> OverParts(e, LAMBDA part, n : nsExpr(env, part, Sub(p, n)))

coreRename(globals, e, p) == nsExpr([in |-> globals, ren |-> [x \in {} |-> x]], e, p)

-----------------------------------------------------------------------------
(* Saturate.hs                                                              *)

RECURSIVE requiredArgs(_)
requiredArgs(e) ==
  CASE e.c = "Ap"     -> requiredArgs(e.e1) - 1
    [] e.c = "Var"    -> IF e.x \in DOMAIN Externs THEN Externs[e.x] ELSE 0
    [] e.c = "ConId"  -> Arities[e.tag]
    [] e.c = "ConTag" -> e.arity
    [] OTHER          -> 0

addLam(e, n, p) ==
  LET ids == [j \in 1 .. n |-> Fresh("", Sub(p, j))] IN Lams(ids, ApAll(e, ids))

RECURSIVE satExpr(_, _), satExprSimple(_, _)
satExpr(e, p) ==
  IF e.c \in {"Let", "Match", "Lam"} THEN OverParts(e, LAMBDA part, n : satExpr(part, Sub(p, n)))
  ELSE LET sat == satExprSimple(e, p) IN addLam(sat, requiredArgs(sat), p)

\* no lambdas around Ap, Var and Con here
satExprSimple(e, p) ==
  CASE e.c \in {"Let", "Match", "Lam"} -> satExpr(e, p)
    [] e.c = "Ap" -> Ap(satExprSimple(e.e1, p \o "l"), satExpr(e.e2, p \o "r"))
    [] OTHER -> e

-----------------------------------------------------------------------------
(* Normalize.hs.  An atom comes with the bindings to put around it.         *)

Atom(e, bindss) == [atom |-> e, bindss |-> bindss]

RECURSIVE Around(_, _)
Around(bindss, e) == IF bindss = <<>> THEN e ELSE Let(Head(bindss), Around(Tail(bindss), e))

RECURSIVE isDirectAp(_)
isDirectAp(e) ==
  CASE e.c = "Ap" -> isDirectAp(e.e1)
    [] e.c = "Var" -> e.x \in DOMAIN Externs
    [] OTHER -> FALSE

RECURSIVE normExpr(_, _), normBind(_, _), normBinds(_, _), normAtom(_, _)

normExpr(e, p) ==
  LET e2 == normBind(e, p)
      x  == Fresh("", p \o "v")
  IN IF e2.c = "Lam" THEN Let(NonRec(x, e2), Var(x)) ELSE e2

\* a lambda may stay on top
normBind(e, p) ==
  CASE e.c = "Let"   -> Let(normBinds(e.b, p), normExpr(e.e, Sub(p, 0)))
    [] e.c = "Match" -> OverParts(e, LAMBDA part, n : normExpr(part, Sub(p, n)))
    [] e.c = "Lam"   -> Lam(e.x, normBind(e.e, Sub(p, 1)))
    [] e.c = "Ap"    -> LET a == normAtom(e, p) IN Around(a.bindss, a.atom)
    [] OTHER         -> e

normBinds(b, p) == [b EXCEPT !.bs = [j \in DOMAIN b.bs |-> <<b.bs[j][1], normBind(b.bs[j][2], Sub(p, j))>>]]

\* mutant: the call of an external is left where it is
normArgInPlace(e, p) == normAtom(e, p)

\* just as an atom, but the call of an external or an instruction is bound
normArg(e, p) ==
  LET a == normAtom(e, p)
      x == Fresh("", p \o "a")
  IN IF isDirectAp(a.atom) THEN Atom(Var(x), Append(a.bindss, NonRec(x, a.atom))) ELSE a

normAtom(e, p) ==
  LET x == Fresh("", p \o "f") IN
  CASE e.c \in {"Match", "Lam"} \/ (e.c = "Let" /\ e.b.bind = "Strict") ->
         Atom(Var(x), <<NonRec(x, normBind(e, p))>>)
    [] e.c = "Let" /\ e.b.bind # "Strict" ->
         LET a == normAtom(e.e, Sub(p, 0)) IN Atom(a.atom, <<normBinds(e.b, p)>> \o a.bindss)
    [] e.c = "Ap" -> LET a == normAtom(e.e1, p \o "l")
                         g == normArg(e.e2, p \o "r")
                     IN Atom(Ap(a.atom, g.atom), a.bindss \o g.bindss)
    [] OTHER -> Atom(e, <<>>)

-----------------------------------------------------------------------------
(* LetSort.hs.  Data.Graph yields the strongly connected components, each   *)
(* behind the ones it depends on.                                           *)

\* the bindings of bs that the j-th one needs, and itself
DependsOn(bs, j) ==
  LET direct(J) == {k \in DOMAIN bs : \E i \in J : bs[k][1] \in freeVar(bs[i][2])}
      need[n \in 0 .. Len(bs)] == IF n = 0 THEN {j} ELSE need[n - 1] \cup direct(need[n - 1])
  IN need[Len(bs)]

topSort(bs) ==
  LET comp(j) == {k \in DependsOn(bs, j) : j \in DependsOn(bs, k)}
      weight(C) == Cardinality(UNION {DependsOn(bs, j) : j \in C})
  IN SetToSortSeq({comp(j) : j \in DOMAIN bs}, LAMBDA C, D : weight(C) < weight(D))

toBinding(bs) ==
  IF Len(bs) = 1 /\ bs[1][1] \notin freeVar(bs[1][2]) THEN NonRec(bs[1][1], bs[1][2]) ELSE Rec(bs)

\* mutant: every group is taken apart
sortBindsSingly(b) ==
  IF b.bind = "Rec" THEN LET order == topSort(b.bs)
                         IN FlattenSeq([n \in DOMAIN order |-> SetToSeq({NonRec(b.bs[j][1], b.bs[j][2])
                                                                : j \in order[n]})])
  ELSE <<b>>

sortBinds(b) ==
  IF b.bind = "Rec"
  THEN LET order   == topSort(b.bs)
           members(C) == SetToSortSeq(C, <)
       IN [n \in DOMAIN order |-> toBinding([j \in 1 .. Cardinality(order[n]) |->
                                               b.bs[members(order[n])[j]]])]
  ELSE <<b>>

RECURSIVE lsExpr(_)
lsExpr(e) ==
  LET s == OverParts(e, LAMBDA part, n : lsExpr(part))
  IN IF e.c = "Let" THEN Around(sortBinds(s.b), s.e) ELSE s

-----------------------------------------------------------------------------
(* Lift.hs.  env maps the variables that have been lifted to the arguments  *)
(* that they are to be given.                                               *)

RECURSIVE isAtomExpr(_)
isAtomExpr(e) ==
  CASE e.c = "Ap"  -> isAtomExpr(e.e1) /\ isAtomExpr(e.e2)
    [] e.c = "Var" -> e.x \notin DOMAIN Externs
    [] e.c \in {"ConId", "ConTag", "Lit"} -> TRUE
    [] e.c = "Let" -> /\ e.b.bind # "Strict" /\ isAtomExpr(e.e)
                      /\ \A j \in DOMAIN e.b.bs : isAtomExpr(e.b.bs[j][2])
    [] OTHER       -> FALSE

\* mutant: what the bindings of a group need is not passed on
fixMutualOnce(fvs, bs) == fvs

\* fvs[j] are the free variables of the j-th binding of bs
RECURSIVE fixMutual(_, _)
fixMutual(fvs, bs) ==
  LET more == [j \in DOMAIN bs |->
                 fvs[j] \cup UNION {fvs[k] : k \in {i \in DOMAIN bs : bs[i][1] \in fvs[j]}}]
  IN IF more = fvs THEN fvs ELSE fixMutual(more, bs)

liftedFreeVar(env, fv) ==
  fv \cup UNION {Range(env[x]) : x \in fv \cap DOMAIN env}

RECURSIVE liftExpr(_, _, _), liftBindsRec(_, _, _)

\* [bs, env]: a binding that is not atomic gets its free variables as lambdas
liftBindsRec(globals, env, bs) ==
  LET fvs    == fixMutual([j \in DOMAIN bs |-> liftedFreeVar(env, freeVar(bs[j][2]) \ globals)], bs)
      lifted == {j \in DOMAIN bs : ~isAtomExpr(bs[j][2])}
      names  == {bs[j][1] : j \in lifted}
      args(j) == SetToSeq(fvs[j] \ (DOMAIN env \cup names))
      env2   == [x \in DOMAIN env \cup names |->
                   IF x \in names THEN args(CHOOSE j \in lifted : bs[j][1] = x) ELSE env[x]]
      rhs(j) == liftExpr(globals, env2, bs[j][2])
  IN [bs  |-> [j \in DOMAIN bs |->
                 <<bs[j][1], IF j \in lifted THEN Lams(args(j), rhs(j)) ELSE rhs(j)>>],
      env |-> env2]

liftExpr(globals, env, e) ==
  CASE e.c = "Let" /\ e.b.bind # "Strict" ->
         LET l == liftBindsRec(globals, env, e.b.bs)
         IN Let([e.b EXCEPT !.bs = l.bs], liftExpr(globals, l.env, e.e))
    [] e.c = "Var" -> IF e.x \in DOMAIN env THEN ApAll(e, env[e.x]) ELSE e
    [] OTHER       -> OverParts(e, LAMBDA part, n : liftExpr(globals, env, part))

coreLift(globals, e) == liftExpr(globals, [x \in {} |-> <<>>], e)
=============================================================================

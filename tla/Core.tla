--------------------------------- MODULE Core ---------------------------------
(***************************************************************************)
(* The Core language (lib/Lvm/Core/Expr.hs), its free variables           *)
(* (FreeVar.hs), and what an expression means.                            *)
(*                                                                         *)
(* Runs is a call-by-name evaluator with environments: the reference for   *)
(* the passes of the compiler.  Constructors carry their tags.             *)
(***************************************************************************)
EXTENDS Integers, Sequences, FiniteSets

CONSTANTS
  Externs,     \* the externals and instructions: from names to arities
  Arities      \* the constructors: from tags to arities

-----------------------------------------------------------------------------
(* Expressions                                                              *)

Var(x)          == [c |-> "Var", x |-> x]
Lit(i)          == [c |-> "Lit", i |-> i]
ConId(tag)      == [c |-> "ConId", tag |-> tag]
ConTag(e, n)    == [c |-> "ConTag", e |-> e, arity |-> n]
Ap(e1, e2)      == [c |-> "Ap", e1 |-> e1, e2 |-> e2]
Lam(x, e)       == [c |-> "Lam", x |-> x, e |-> e]
Match(x, alts)  == [c |-> "Match", x |-> x, alts |-> alts]
Let(b, e)       == [c |-> "Let", b |-> b, e |-> e]

Rec(bs)         == [bind |-> "Rec", bs |-> bs]
Strict(x, rhs)  == [bind |-> "Strict", bs |-> << <<x, rhs>> >>]
NonRec(x, rhs)  == [bind |-> "NonRec", bs |-> << <<x, rhs>> >>]

Alt(pat, e)     == [pat |-> pat, e |-> e]
PatCon(tag, xs) == [p |-> "PatCon", tag |-> tag, ids |-> xs]
PatLit(i)       == [p |-> "PatLit", tag |-> i, ids |-> <<>>]
PatDefault      == [p |-> "PatDefault", tag |-> 0, ids |-> <<>>]

-----------------------------------------------------------------------------
(* Traversals (Core/Utils.hs)                                               *)

Names(bs)    == {bs[j][1] : j \in DOMAIN bs}
PatNames(pat) == {pat.ids[j] : j \in DOMAIN pat.ids}

\* e, with F(part, n) in the place of its n-th part.  The body of a Let is part 0.
OverParts(e, F(_, _)) ==
  CASE e.c = "Let"    -> Let([e.b EXCEPT !.bs = [j \in DOMAIN e.b.bs |->
                                <<e.b.bs[j][1], F(e.b.bs[j][2], j)>>]], F(e.e, 0))
    [] e.c = "Match"  -> Match(e.x, [j \in DOMAIN e.alts |->
                                Alt(e.alts[j].pat, F(e.alts[j].e, j))])
    [] e.c = "Lam"    -> Lam(e.x, F(e.e, 1))
    [] e.c = "Ap"     -> Ap(F(e.e1, 1), F(e.e2, 2))
    [] e.c = "ConTag" -> ConTag(F(e.e, 1), e.arity)
    [] OTHER          -> e

RECURSIVE freeVar(_)
freeVar(e) ==
  CASE e.c = "Let"    -> LET rhss == UNION {freeVar(e.b.bs[j][2]) : j \in DOMAIN e.b.bs}
                         IN (IF e.b.bind = "Rec" THEN rhss \ Names(e.b.bs) ELSE rhss)
                            \cup (freeVar(e.e) \ Names(e.b.bs))
    [] e.c = "Match"  -> {e.x} \cup UNION {freeVar(e.alts[j].e) \ PatNames(e.alts[j].pat)
                                             : j \in DOMAIN e.alts}
    [] e.c = "Ap"     -> freeVar(e.e1) \cup freeVar(e.e2)
    [] e.c = "Lam"    -> freeVar(e.e) \ {e.x}
    [] e.c = "ConTag" -> freeVar(e.e)
    [] e.c = "Var"    -> {e.x}
    [] OTHER          -> {}

\* the parts of e, and e
RECURSIVE Parts(_)
Parts(e) ==
  {e} \cup CASE e.c = "Let"    -> Parts(e.e) \cup UNION {Parts(e.b.bs[j][2]) : j \in DOMAIN e.b.bs}
             [] e.c = "Match"  -> UNION {Parts(e.alts[j].e) : j \in DOMAIN e.alts}
             [] e.c = "Ap"     -> Parts(e.e1) \cup Parts(e.e2)
             [] e.c \in {"Lam", "ConTag"} -> Parts(e.e)
             [] OTHER          -> {}

RECURSIVE Lams(_, _), ApAll(_, _)
Lams(xs, e)  == IF xs = <<>> THEN e ELSE Lam(Head(xs), Lams(Tail(xs), e))
ApAll(e, xs) == IF xs = <<>> THEN e ELSE ApAll(Ap(e, Var(Head(xs))), Tail(xs))

-----------------------------------------------------------------------------
(* Meaning.  A value is an integer, or a head and the thunks it has been    *)
(* applied to: a closure, a constructor or an external that wants more, or  *)
(* a constructor that has all.                                              *)

IntV(i)          == [v |-> "int", i |-> i]
App(h, ths)      == [v |-> "app", h |-> h, ths |-> ths]
ExnV(i)          == [v |-> "exn", i |-> i]
Stuck            == [v |-> "stuck"]
Fails(r)         == r.v \in {"exn", "stuck"}

ConHead(tag, n)  == [h |-> "con", i |-> tag, arity |-> n]
PrimHead(op)     == [h |-> "prim", op |-> op, arity |-> Externs[op]]
LamHead(e, env)  == [h |-> "lam", e |-> e, env |-> env, arity |-> 1]

Known(r)         == [known |-> r]
Thunk(e, env)    == [e |-> e, env |-> env]

Bound(env, xs, ths) ==
  [x \in DOMAIN env \cup {xs[j] : j \in DOMAIN xs} |->
     IF \E j \in DOMAIN xs : xs[j] = x
     THEN ths[CHOOSE j \in DOMAIN xs : xs[j] = x /\ \A k \in DOMAIN xs : xs[k] = x => k <= j]
     ELSE env[x]]

\* the bindings of a group, which are unrolled when they are looked up
Group(bs, env) ==
  [x \in DOMAIN env \cup Names(bs) |->
     IF x \in Names(bs)
     THEN [rec |-> bs, at |-> (CHOOSE j \in DOMAIN bs : bs[j][1] = x), env |-> env]
     ELSE env[x]]

NoEnv == [x \in {} |-> x]

\* literals, constructors and variables that are bound to values are no thunks
Delayed(e, env) ==
  CASE e.c = "Lit" -> Known(IntV(e.i))
    [] e.c = "ConId" -> Known(App(ConHead(e.tag, Arities[e.tag]), <<>>))
    [] e.c = "Var" /\ e.x \in DOMAIN env -> env[e.x]
    [] OTHER -> Thunk(e, env)

RECURSIVE Runs(_, _), Forced(_), Applied(_, _)

Forced(th) ==
  IF "known" \in DOMAIN th THEN th.known
  ELSE IF "rec" \in DOMAIN th THEN Runs(th.rec[th.at][2], Group(th.rec, th.env))
  ELSE Runs(th.e, th.env)

PrimValue(op, ths) ==
  LET n(j) == ths[j].known.i IN
  CASE \E j \in DOMAIN ths : "known" \notin DOMAIN ths[j] -> Stuck
    [] op = "RAISE"  -> ExnV(n(1))
    [] op = "ADDINT" -> IntV(n(1) + n(2))
    [] op = "SUBINT" -> IntV(n(1) - n(2))
    [] op = "EQINT"  -> App(ConHead(IF n(1) = n(2) THEN 1 ELSE 0, 0), <<>>)

Applied(r, th) ==
  IF Fails(r) THEN r
  ELSE LET ths == Append(r.ths, th) IN
       IF Len(ths) < r.h.arity \/ r.h.h = "con" THEN App(r.h, ths)
       ELSE IF r.h.h = "prim" THEN PrimValue(r.h.op, ths)
       ELSE Runs(r.h.e.e, Bound(r.h.env, <<r.h.e.x>>, <<th>>))

Runs(e, env) ==
  CASE e.c = "Var"    -> IF e.x \in DOMAIN env THEN Forced(env[e.x])
                         ELSE App(PrimHead(e.x), <<>>)
    [] e.c = "Lit"    -> IntV(e.i)
    [] e.c = "ConId"  -> App(ConHead(e.tag, Arities[e.tag]), <<>>)
    [] e.c = "ConTag" -> LET t == Delayed(e.e, env)
                         IN IF "known" \in DOMAIN t THEN App(ConHead(t.known.i, e.arity), <<>>)
                            ELSE Stuck
    [] e.c = "Ap"     -> Applied(Runs(e.e1, env), Delayed(e.e2, env))
    [] e.c = "Lam"    -> App(LamHead(e, env), <<>>)
    [] e.c = "Let" /\ e.b.bind = "Rec" -> Runs(e.e, Group(e.b.bs, env))
    [] e.c = "Let" /\ e.b.bind = "NonRec" ->
         Runs(e.e, Bound(env, <<e.b.bs[1][1]>>, <<Delayed(e.b.bs[1][2], env)>>))
    [] e.c = "Let" /\ e.b.bind = "Strict" ->
         LET r == Runs(e.b.bs[1][2], env)
         IN IF Fails(r) THEN r ELSE Runs(e.e, Bound(env, <<e.b.bs[1][1]>>, <<Known(r)>>))
    [] e.c = "Match"  ->
         IF e.x \notin DOMAIN env \/ "known" \notin DOMAIN env[e.x] THEN Stuck
         ELSE LET r       == env[e.x].known
                  i       == IF r.v = "int" THEN r.i ELSE r.h.i
                  kind    == IF r.v = "int" THEN "PatLit" ELSE "PatCon"
                  best    == {j \in DOMAIN e.alts : e.alts[j].pat.p = kind /\ e.alts[j].pat.tag = i}
                  hits    == best \cup {j \in DOMAIN e.alts : e.alts[j].pat.p = "PatDefault"}
                  j       == CHOOSE j \in IF best = {} THEN hits ELSE best : TRUE
              IN IF hits = {} THEN ExnV(0)
                 ELSE Runs(e.alts[j].e,
                           IF e.alts[j].pat.p = "PatCon" THEN Bound(env, e.alts[j].pat.ids, r.ths)
                           ELSE env)

\* the values of a module are one recursive group
RunsModule(decls, main) == Runs(Var(main), Group(decls, NoEnv))

\* What a program shows: an integer, a function, an exception, or a constructor
\* with what its fields show, to the depth n.
RECURSIVE Shows(_, _)
Shows(r, n) ==
  CASE r.v \in {"int", "exn"} -> <<r.v, r.i>>
    [] r.v = "stuck" -> <<"stuck">>
    [] r.v = "app" /\ (r.h.h # "con" \/ Len(r.ths) < r.h.arity) -> <<"fun">>
    [] OTHER -> <<"con", r.h.i,
                  IF n = 0 THEN <<>> ELSE [j \in DOMAIN r.ths |-> Shows(Forced(r.ths[j]), n - 1)]>>
=============================================================================

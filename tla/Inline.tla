-------------------------------- MODULE Inline --------------------------------
(***************************************************************************)
(* The optimiser of assembly expressions: the number of times a variable  *)
(* occurs (lib/Lvm/Asm/Occur.hs), and the inlining of bindings             *)
(* (lib/Lvm/Asm/Inline.hs).                                                *)
(***************************************************************************)
EXTENDS Expr, SequencesExt, Bags

\* an expression with its occurrences, a bag of identifiers
Counted(e, occ) == [e |-> e, occ |-> occ]

Occurs(x, occ) == LET n == CopiesIn(x, occ)
                  IN IF n = 0 THEN "Never" ELSE IF n = 1 THEN "Once" ELSE "Many"

Without(occ, X) == [x \in DOMAIN occ \ X |-> occ[x]]

RECURSIVE occExpr(_)

occExprs(es) ==
  LET cs == [j \in DOMAIN es |-> occExpr(es[j])]
  IN Counted([j \in DOMAIN cs |-> cs[j].e],
             FoldLeft(LAMBDA occ, c : occ (+) c.occ, EmptyBag, cs))

\* mutant: what occurs in the definition is not counted
occLetBody(e) ==
  LET c1 == occExpr(e.e1)  c2 == occExpr(e.e2)
  IN Counted([e EXCEPT !.e1 = Note(Occurs(e.x, c2.occ), c1.e), !.e2 = c2.e], Without(c2.occ, {e.x}))

\* Eval and Let: the definition is annotated
occLet(e) ==
  LET c1 == occExpr(e.e1)  c2 == occExpr(e.e2)  occ == c1.occ (+) c2.occ
  IN Counted([e EXCEPT !.e1 = Note(Occurs(e.x, occ), c1.e), !.e2 = c2.e], Without(occ, {e.x}))

occExpr(e) ==
  CASE e.k \in {"Eval", "Let"} -> occLet(e)
    [] e.k = "LetRec" ->
         LET ids == [j \in DOMAIN e.bs |-> e.bs[j][1]]
             cs  == occExprs([j \in DOMAIN e.bs |-> e.bs[j][2]])
             c   == occExpr(e.e)
             occ == c.occ (+) cs.occ
         IN Counted(LetRec([j \in DOMAIN ids |-> <<ids[j], Note(Occurs(ids[j], occ), cs.e[j])>>], c.e),
                    Without(occ, ToSet(ids)))
    [] e.k = "Match" ->
         LET alt(a) == LET c == occExpr(a.e)
                       IN Counted(Alt(a.pat, c.e), Without(c.occ, ToSet(a.pat.ids)))
             cs == [j \in DOMAIN e.alts |-> alt(e.alts[j])]
         IN Counted(Match(e.x, [j \in DOMAIN cs |-> cs[j].e]),
                    FoldLeft(LAMBDA occ, c : occ (+) c.occ, SetToBag({e.x}), cs))
    [] e.k \in {"Ap", "Con", "Prim"} ->
         LET cs == occExprs(e.args)
         IN Counted([e EXCEPT !.args = cs.e], cs.occ (+) SetToBag(IF e.k = "Ap" THEN {e.x} ELSE {}))
    [] e.k = "ConTag" -> LET cs == occExprs(e.args)  t == occExpr(e.tag)
                         IN Counted(ConTag(t.e, cs.e), cs.occ (+) t.occ)
    [] e.k = "Note"   -> LET c == occExpr(e.e) IN Counted(Note(e.occ, c.e), c.occ)
    [] OTHER          -> Counted(e, EmptyBag)

-----------------------------------------------------------------------------
RECURSIVE deAnnotate(_)
deAnnotate(e) == IF e.k = "Note" THEN deAnnotate(e.e) ELSE e

\* the tag of a nullary constructor is a name
whnfTrivial(e) == LET d == deAnnotate(e) IN d.k = "Lit" \/ (d.k = "Con" /\ d.args = <<>>)
trivial(e)     == LET d == deAnnotate(e) IN whnfTrivial(d) \/ (d.k = "Ap" /\ d.args = <<>>)

\* mutant: any use will do, whatever is evaluated before it
firstAnywhere(x, c, e) == x \in DOMAIN occExpr(e).occ

\* Is x, or was it with c, the first variable that is evaluated in e?  Arguments are
\* evaluated from the last to the first.
RECURSIVE first(_, _, _)
first(x, c, e) ==
  LET firsts(d, es) == FoldLeft(LAMBDA b, part : first(x, b, part), d, es) IN
  CASE e.k = "LetRec" -> firsts(c, Append([j \in DOMAIN e.bs |-> e.bs[j][2]], e.e))
    [] e.k = "Let"    -> firsts(c, <<e.e1, e.e2>>)
    [] e.k = "Eval"   -> first(x, FALSE, e.e1)
    [] e.k = "Match"  -> FALSE
    [] e.k = "Prim"   -> firsts(FALSE, e.args)
    [] e.k = "Ap"     -> IF e.args = <<>> THEN c \/ e.x = x ELSE firsts(c, <<Var(e.x)>> \o e.args)
    [] e.k \in {"Con", "ConTag"} -> firsts(c, e.args)
    [] e.k = "Note"   -> first(x, c, e.e)
    [] OTHER          -> c

firstuse(x, e) == first(x, FALSE, e)

-----------------------------------------------------------------------------
\* env maps identifiers to what they are replaced by.
Defined(env, x, e) == [y \in DOMAIN env \cup {x} |-> IF y = x THEN e ELSE env[y]]
NoIds == [x \in {} |-> x]

\* the definition of a strict binding at the place of its use
Here(x, e) == Eval(x, e, Var(x))

RECURSIVE inlineExpr(_, _)

inlineExprs(env, es) == [j \in DOMAIN es |-> inlineExpr(env, es[j])]

inlineLet(env, e) ==
  LET once == e.e1.k = "Note" /\ e.e1.occ = "Once" IN
  CASE e.e1.k = "Note" /\ e.e1.occ = "Never" -> inlineExpr(env, e.e2)
    [] once -> inlineExpr(Defined(env, e.x, inlineExpr(env, e.e1.e)), e.e2)
    [] ~once /\ trivial(e.e1) ->
         inlineExpr(Defined(env, e.x, inlineExpr(env, deAnnotate(e.e1))), e.e2)
    [] OTHER -> Let(e.x, inlineExpr(env, e.e1), inlineExpr(Without(env, {e.x}), e.e2))

\* A strict binding that is used once, and first, is evaluated where it is used --
\* also when that is so only after the body has been inlined.
inlineEval(env, e) ==
  LET e1 == inlineExpr(env, e.e1.e)
      e2 == inlineExpr(env, e.e2)
  IN
  CASE whnfTrivial(e.e1) -> inlineExpr(Defined(env, e.x, inlineExpr(env, deAnnotate(e.e1))), e.e2)
    [] ~whnfTrivial(e.e1) /\ e.e1.k = "Note" /\ e.e1.occ = "Once" ->
         IF firstuse(e.x, e.e2) THEN inlineExpr(Defined(env, e.x, Here(e.x, e1)), e.e2)
         ELSE IF firstuse(e.x, e2) THEN inlineExpr(Defined(NoIds, e.x, Here(e.x, e1)), e2)
         ELSE Eval(e.x, Note("Once", e1), e2)
    [] OTHER -> Eval(e.x, inlineExpr(env, e.e1), inlineExpr(Without(env, {e.x}), e.e2))

inlineAp(env, e) ==
  LET args0 == inlineExprs(env, e.args)
      d     == env[e.x]
  IN
  CASE e.x \notin DOMAIN env -> Ap(e.x, args0)
    [] e.x \in DOMAIN env /\ e.args = <<>> -> d
    [] e.x \in DOMAIN env /\ e.args # <<>> ->
         IF d.k = "Ap" THEN Ap(d.x, d.args \o args0)
         ELSE IF d.k = "Eval" /\ d.e2 = Var(d.x) THEN Eval(d.x, d.e1, Ap(d.x, args0))
         ELSE Let(e.x, d, e)

inlineAlt(env, a) == Alt(a.pat, inlineExpr(Without(env, ToSet(a.pat.ids)), a.e))

inlineExpr(env, e) ==
  CASE e.k = "Let"  -> inlineLet(env, e)
    [] e.k = "Eval" -> inlineEval(env, e)
    [] e.k = "LetRec" ->
         LET env2 == Without(env, {e.bs[j][1] : j \in DOMAIN e.bs})
         IN LetRec([j \in DOMAIN e.bs |-> <<e.bs[j][1], inlineExpr(env2, e.bs[j][2])>>],
                   inlineExpr(env2, e.e))
    [] e.k = "Match" ->
         LET alts == [j \in DOMAIN e.alts |-> inlineAlt(env, e.alts[j])]
         IN IF e.x \in DOMAIN env THEN Eval(e.x, Note("Once", env[e.x]), Match(e.x, alts))
            ELSE Match(e.x, alts)
    [] e.k = "Ap"     -> inlineAp(env, e)
    [] e.k \in {"Con", "Prim"} -> [e EXCEPT !.args = inlineExprs(env, e.args)]
    [] e.k = "ConTag" -> ConTag(inlineExpr(env, e.tag), inlineExprs(env, e.args))
    [] e.k = "Note"   -> Note(e.occ, inlineExpr(env, e.e))
    [] OTHER          -> e

occTop(t)    == [t EXCEPT !.body = occExpr(t.body).e]
inlineTop(t) == [t EXCEPT !.body = inlineExpr(NoIds, t.body)]
=============================================================================

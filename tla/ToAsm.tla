-------------------------------- MODULE ToAsm --------------------------------
(***************************************************************************)
(* From Core to assembly expressions (lib/Lvm/Core/ToAsm.hs, exprToTop).   *)
(* Bindings that are not atomic become values of the module.              *)
(***************************************************************************)
EXTENDS CorePasses

A == INSTANCE Expr

RECURSIVE isAtomic(_)
isAtomic(e) ==
  CASE e.c = "Ap"     -> isAtomic(e.e1) /\ isAtomic(e.e2)
    [] e.c = "Var"    -> e.x \notin DOMAIN Externs
    [] e.c \in {"ConId", "Lit"} -> TRUE
    [] e.c = "ConTag" -> isAtomic(e.e)
    [] e.c = "Let"    -> /\ e.b.bind # "Strict" /\ isAtomic(e.e)
                         /\ \A j \in DOMAIN e.b.bs : isAtomic(e.b.bs[j][2])
    [] OTHER          -> FALSE

\* What asmAtom ends with an error for.  A tag must be an integer or a variable.
NoAtom == [k |-> "error"]

RECURSIVE asmAtom(_, _)
asmAtom(e, args) ==
  CASE e.c = "Ap"    -> asmAtom(e.e1, <<asmAtom(e.e2, <<>>)>> \o args)
    [] e.c = "Var"   -> A!Ap(e.x, args)
    [] e.c = "ConId" -> A!Con(e.tag, args)
    [] e.c = "ConTag" /\ e.e.c \in {"Lit", "Var"} -> A!ConTag(asmAtom(e.e, <<>>), args)
    [] e.c = "Lit" /\ args = <<>> -> A!Lit(e.i)
    [] e.c = "Let" /\ e.b.bind = "NonRec" ->
         A!Let(e.b.bs[1][1], asmAtom(e.b.bs[1][2], <<>>), asmAtom(e.e, args))
    [] e.c = "Let" /\ e.b.bind = "Rec" ->
         A!LetRec([j \in DOMAIN e.b.bs |-> <<e.b.bs[j][1], asmAtom(e.b.bs[j][2], <<>>)>>],
                  asmAtom(e.e, args))
    [] OTHER -> NoAtom

asmPat(pat) ==
  CASE pat.p = "PatCon" -> A!PatCon(pat.tag, pat.ids)
    [] pat.p = "PatLit" -> A!PatInt(pat.tag)
    [] OTHER            -> A!PatVar(".def")

\* the bindings that become values of the module, and the expression
Asm(lifted, e) == [lifted |-> lifted, e |-> e]

RECURSIVE asmExpr(_)
asmLet(b, body) ==
  LET atomic(x) == isAtomic(x[2])
      complex(x) == ~isAtomic(x[2])
      up(bs)    == [j \in DOMAIN bs |-> <<bs[j][1], asmAtom(bs[j][2], <<>>)>>]
      stay      == up(SelectSeq(b.bs, atomic))
      go        == SelectSeq(b.bs, complex)
      x         == b.bs[1][1]
  IN CASE b.bind = "Strict" -> LET rhs == asmExpr(b.bs[1][2])
                               IN Asm(body.lifted \o rhs.lifted, A!Eval(x, rhs.e, body.e))
       [] b.bind # "Strict" /\ stay = <<>> -> Asm(go \o body.lifted, body.e)
       [] b.bind = "NonRec" /\ stay # <<>> -> Asm(body.lifted, A!Let(x, stay[1][2], body.e))
       [] b.bind = "Rec" /\ stay # <<>> -> Asm(go \o body.lifted, A!LetRec(stay, body.e))

asmExpr(e) ==
  CASE e.c = "Let" -> asmLet(e.b, asmExpr(e.e))
    [] e.c = "Match" ->
         LET alts == [j \in DOMAIN e.alts |-> asmExpr(e.alts[j].e)]
         IN Asm(FlattenSeq([j \in DOMAIN alts |-> alts[j].lifted]),
                A!Match(e.x, [j \in DOMAIN alts |-> A!Alt(asmPat(e.alts[j].pat), alts[j].e)]))
    [] OTHER ->
         LET a == asmAtom(e, <<>>)
         IN Asm(<<>>, IF a.k = "Ap" /\ a.x \in DOMAIN Externs THEN A!Prim(a.x, a.args) ELSE a)

\* a value and all that is lifted out of it, as pairs of a name and its top
RECURSIVE asmDecl(_, _), Params(_), Body(_)
Params(e) == IF e.c = "Lam" THEN <<e.x>> \o Params(e.e) ELSE <<>>
Body(e)   == IF e.c = "Lam" THEN Body(e.e) ELSE e

asmDecl(x, e) ==
  LET a == asmExpr(Body(e))
  IN << <<x, A!Top(Params(e), a.e)>> >>
     \o FlattenSeq([j \in DOMAIN a.lifted |-> asmDecl(a.lifted[j][1], a.lifted[j][2])])
=============================================================================

------------------------------- MODULE CodeGen -------------------------------
(***************************************************************************)
(* From assembly expressions to instructions with named variables         *)
(* (lib/Lvm/Asm/ToLvm.hs).  An instruction is a tuple that starts with its *)
(* name.  ATOM, INIT, EVAL, CATCH and the matches contain instructions.   *)
(* Constructors carry their tag, so the lookup of a constructor in the    *)
(* environment and its arity check have nothing left to do.               *)
(***************************************************************************)
EXTENDS Asm

\* the primitives that are instructions and leave a weak head normal form
StrictList == IntOps \cup {"NEGINT", "ALLOC", "NEW"}

InstrPrims == IntOps \cup {"NEGINT", "ALLOC", "GETFIELD", "UPDFIELD", "GETTAG", "GETSIZE",
                           "RAISE", "CATCH"}

\* mutant: a field may be a thunk
strictResultField(instr) == instr[1] \in StrictList \cup {"GETFIELD"}

strictResult(instr) == instr[1] \in StrictList

RECURSIVE whnf(_)
whnf(e) ==
  CASE e.k = "LetRec"       -> whnf(e.e)
    [] e.k = "Let"          -> whnf(e.e2)
    [] e.k = "Eval"         -> whnf(e.e2)
    [] e.k = "Match"        -> \A j \in DOMAIN e.alts : whnf(e.alts[j].e)
    [] e.k = "Prim"         -> e.x \in StrictList
    [] e.k = "Note"         -> whnf(e.e)
    [] e.k \in {"Con", "ConTag", "Lit"} -> TRUE
    [] OTHER                -> FALSE

isOnce(e) == e.k = "Note" /\ e.occ = "Once"

cgVar(x) == IF x \in DOMAIN Tops THEN <<<<"PUSHCODE", x>>>> ELSE <<<<"PUSHVAR", x>>>>

cgParams(ids) == [j \in DOMAIN ids |-> <<"PARAM", ids[Len(ids) + 1 - j]>>]

RECURSIVE cgExpr(_), cgAtom(_), cgAtomI(_), cgArgs(_), cgLetRec(_), cgAlloc(_),
          cgInit(_, _), cgMatch(_), cgPrim(_)

cgLet(x, atom) == cgAtom(atom) \o <<<<"VAR", x>>>>

\* a scrutinee that needs a frame of its own
cgEval(e) == <<<<"EVAL", <<<<"ATOM", cgExpr(e)>>, <<"ENTER">>>>>>>>

cgExpr(e) ==
  CASE e.k = "Eval" /\ isOnce(e.e1) /\ e.e2.k = "Match" /\ e.e2.x = e.x ->
         IF whnf(e.e1.e)
         THEN <<<<"ATOM", cgExpr(e.e1.e)>>>> \o cgMatch(e.e2.alts)
         ELSE cgEval(e.e1.e) \o cgMatch(e.e2.alts)
    [] e.k = "Eval" /\ ~(isOnce(e.e1) /\ e.e2.k = "Match" /\ e.e2.x = e.x) ->
         IF whnf(e.e1)
         THEN <<<<"ATOM", cgExpr(e.e1)>>, <<"VAR", e.x>>>> \o cgExpr(e.e2)
         ELSE IF e.e2 = Var(e.x) THEN cgExpr(e.e1)
         ELSE cgEval(e.e1) \o <<<<"VAR", e.x>>>> \o cgExpr(e.e2)
    [] e.k = "LetRec" -> cgLetRec(e.bs) \o cgExpr(e.e)
    [] e.k = "Let"    -> cgLet(e.x, e.e1) \o cgExpr(e.e2)
    [] e.k = "Match"  -> cgVar(e.x) \o cgMatch(e.alts)
    [] e.k = "Prim"   -> cgPrim(e)
    [] e.k = "Note"   -> cgExpr(e.e)
    [] OTHER          -> cgAtom(e)

\* recursive bindings: allocate all the blocks, then fill them
cgLetRec(bs) ==
  FlattenSeq([j \in DOMAIN bs |->
                <<<<"ATOM", cgAlloc(bs[j][2])>>, <<"VAR", bs[j][1]>>>>])
  \o [j \in DOMAIN bs |-> <<"INIT", cgInit(bs[j][1], bs[j][2])>>]

cgAlloc(e) ==
  CASE e.k = "Ap"     -> <<<<"ALLOCAP", Len(e.args) + 1>>>>
    [] e.k = "Let"    -> cgAlloc(e.e2)
    [] e.k = "LetRec" -> cgAlloc(e.e)
    [] e.k = "Note"   -> cgAlloc(e.e)
    [] e.k = "Con"    -> <<<<"ALLOCCON", e.tag, Len(e.args)>>>>
    [] e.k = "ConTag" -> <<<<"PUSHINT", Len(e.args)>>>> \o cgAtom(e.tag) \o <<<<"ALLOC">>>>

\* In the Let case the block that is filled is the inner variable's: see cgInit'
\* of the source, which goes on with y.
cgInit(x, e) ==
  CASE e.k = "Ap"     -> cgArgs(e.args) \o cgVar(e.x) \o <<<<"PACKAP", x, Len(e.args) + 1>>>>
    [] e.k = "Let"    -> cgLet(e.x, e.e1) \o cgInit(e.x, e.e2)
    [] e.k = "LetRec" -> cgLetRec(e.bs) \o cgInit(x, e.e)
    [] e.k = "Note"   -> cgInit(x, e.e)
    [] e.k = "Con"    -> cgArgs(e.args) \o <<<<"PACKCON", x, Len(e.args)>>>>
    [] e.k = "ConTag" -> cgArgs(e.args) \o <<<<"PACK", x, Len(e.args)>>>>

cgPat(pat) ==
  CASE pat.p = "PatVar" -> <<"PatDefault">>
    [] pat.p = "PatInt" -> <<"PatInt", pat.tag>>
    [] OTHER            -> <<pat.p, pat.tag, Len(pat.ids)>>

cgAlt(alt) == <<cgPat(alt.pat), <<<<"ATOM", cgParams(alt.pat.ids) \o cgExpr(alt.e)>>>>>>

\* the default alternative is always there and comes first
cgMatch(alts) ==
  LET isVar(a) == a.pat.p = "PatVar"
      notVar(a) == ~isVar(a)
      vars   == SelectSeq(alts, isVar)
      others == SelectSeq(alts, notVar)
      def    == IF vars = <<>> THEN <<<<"PatDefault">>, <<>>>> ELSE cgAlt(vars[1])
      name   == CASE \A j \in DOMAIN others : others[j].pat.p = "PatCon" -> "MATCHCON"
                  [] \A j \in DOMAIN others : others[j].pat.p = "PatInt" -> "MATCHINT"
                  [] OTHER -> "MATCH"
      \* cgAltTag gives every pattern of a MATCH its tag and its arity
  IN <<<<name, <<def>> \o [j \in DOMAIN others |-> cgAlt(others[j])]>>>>

cgPrim(e) ==
  CASE e.x = "CATCH" ->
         cgAtom(e.args[1])
         \o <<<<"CATCH", <<<<"EVAL", cgAtom(e.args[2]) \o <<<<"ENTER">>>>>>, <<"VAR", "@catch@">>>>>>>>
    [] e.x # "CATCH" /\ e.x \in InstrPrims ->
         <<<<"ATOM", cgArgs(e.args) \o <<<<e.x>>>>>>>>
    [] OTHER -> <<<<"ATOM", cgArgs(e.args) \o <<<<"CALL", e.x, Externs[e.x].arity>>>>>>>>

cgAtom(e) == <<<<"ATOM", cgAtomI(e)>>>>

cgAtomI(e) ==
  CASE e.k = "Ap"     -> cgArgs(e.args) \o cgVar(e.x)
                         \o (IF e.args = <<>> THEN <<>> ELSE <<<<"NEWAP", Len(e.args) + 1>>>>)
    [] e.k = "Lit"    -> <<<<"PUSHINT", e.i>>>>
    [] e.k = "Let"    -> cgLet(e.x, e.e1) \o cgAtomI(e.e2)
    [] e.k = "LetRec" -> cgLetRec(e.bs) \o cgAtomI(e.e)
    [] e.k = "Note"   -> cgAtomI(e.e)
    [] e.k = "Con"    -> cgArgs(e.args) \o <<<<"NEWCON", e.tag, Len(e.args)>>>>
    [] e.k = "ConTag" -> cgArgs(e.args) \o cgAtom(e.tag) \o <<<<"NEW", Len(e.args)>>>>
    [] e.k = "Eval"   -> (IF whnf(e.e1) THEN <<<<"ATOM", cgExpr(e.e1)>>>> ELSE cgEval(e.e1))
                         \o <<<<"VAR", e.x>>>> \o cgAtomI(e.e2)

\* arguments are pushed from the last to the first
cgArgs(args) == FlattenSeq(Reverse([j \in DOMAIN args |-> cgAtom(args[j])]))

cgTop(top) ==
  <<<<"ARGCHK", Len(top.params)>>,
    <<"ATOM", cgParams(top.params) \o cgExpr(top.body)>>,
    <<"ENTER">>>>
=============================================================================

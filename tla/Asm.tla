--------------------------------- MODULE Asm ---------------------------------
(***************************************************************************)
(* What a program of the assembly language means.                         *)
(*                                                                         *)
(* Means is the reference for the compiler and for the machine: a          *)
(* call-by-name evaluator with environments.  It knows nothing of stacks,  *)
(* updates or frames.  The result of an expression is a weak head normal   *)
(* form or an exception, or stuck where the machine would take a thunk for *)
(* a value.                                                                *)
(***************************************************************************)
EXTENDS Expr, SequencesExt

CONSTANTS
  Tops,        \* the program: a function from names to [params, body]
  Externs,     \* the external functions: from names to [arity, result]
  MinLong, MaxLong

-----------------------------------------------------------------------------
(* Results                                                                  *)

IntV(i)        == [v |-> "int", i |-> i]
ConV(tag, ths) == [v |-> "con", i |-> tag, ths |-> ths]
FunV(x, ths)   == [v |-> "fun", x |-> x, ths |-> ths]
ExnV(ths)      == [v |-> "exn", ths |-> ths]   \* ths: the exception
Bool(b)        == ConV(IF b THEN 1 ELSE 0, <<>>)
Stuck          == [v |-> "stuck"]
Fails(r)       == r.v \in {"exn", "stuck"}

\* a thunk that is a value already
Known(r) == [known |-> r]

\* the exceptions of the machine itself (common/fail.h): a constructor around
\* the constructor of the kind
Runtime(k)    == ExnV(<<Known(ConV(3, <<Known(ConV(k, <<Known(IntV(0))>>))>>))>>)
Arithmetic(k) == ExnV(<<Known(ConV(4, <<Known(ConV(k, <<>>))>>))>>)

\* What a program shows of its result: the integer or the constructor's tag.
Shown(r) == CASE r.v \in {"int", "con"} -> <<r.v, r.i>>
              [] r.v = "fun" -> <<"fun", Len(r.ths)>>
              [] r.v = "stuck" -> <<"stuck">>
              [] OTHER -> <<"exn", r.ths[1].known.i>>

\* A thunk is an expression with its environment, or the value of an argument.
Thunk(e, env) == [e |-> e, env |-> env]

\* env is a function from identifiers to thunks; a recursive group keeps its
\* bindings and is unrolled when one of them is looked up.
Bound(bs, env) ==
  [x \in DOMAIN env \cup {bs[j][1] : j \in DOMAIN bs} |->
     IF \E j \in DOMAIN bs : bs[j][1] = x
     THEN [rec |-> bs, at |-> (CHOOSE j \in DOMAIN bs : bs[j][1] = x), env |-> env]
     ELSE env[x]]

Unrolled(th) ==
  IF "rec" \in DOMAIN th
  THEN Thunk(th.rec[th.at][2], Bound(th.rec, th.env))
  ELSE th

Extended(env, ids, ths) ==
  [x \in DOMAIN env \cup {ids[j] : j \in DOMAIN ids} |->
     IF \E j \in DOMAIN ids : ids[j] = x
     THEN ths[CHOOSE j \in DOMAIN ids : ids[j] = x]
     ELSE env[x]]

NoThunks == [x \in {} |-> x]

DivOps == {"QUOTINT", "REMINT", "DIVINT", "MODINT"}
CmpOps == {"EQINT", "NEINT", "LTINT", "GTINT", "LEINT", "GEINT"}
IntOps == {"ADDINT", "SUBINT", "MULINT"} \cup DivOps \cup CmpOps

\* ADDINT and the other instructions on two integers (evaluator.c 1540-1727).
Long(i) == IF i > MaxLong THEN Arithmetic(7) ELSE IF i < MinLong THEN Arithmetic(8) ELSE IntV(i)

Within(i) == IF i < 0 THEN -i ELSE i

\* The quotients of a by b # 0: with the remainder of the sign of a, and with one that is
\* not negative.
Truncated(a, b) == CHOOSE q \in -Within(a) .. Within(a) :
                     LET r == a - b * q IN Within(r) < Within(b) /\ r * a >= 0
Euclidean(a, b) == CHOOSE q \in -Within(a) .. Within(a) : a - b * q \in 0 .. Within(b) - 1

IntResult(op, a, b) ==
  CASE op \in DivOps /\ b = 0 -> Arithmetic(6)
    [] op = "QUOTINT" -> Long(Truncated(a, b))
    [] op = "REMINT"  -> Long(a - b * Truncated(a, b))
    [] op = "DIVINT"  -> Long(Euclidean(a, b))
    [] op = "MODINT"  -> Long(a - b * Euclidean(a, b))
    [] op = "NEINT"  -> Bool(a # b)
    [] op = "GTINT"  -> Bool(a > b)
    [] op = "LEINT"  -> Bool(a <= b)
    [] op = "GEINT"  -> Bool(a >= b)
    [] op = "ADDINT" -> Long(a + b)
    [] op = "SUBINT" -> Long(a - b)
    [] op = "MULINT" -> Long(a * b)
    [] op = "EQINT"  -> Bool(a = b)
    [] op = "LTINT"  -> Bool(a < b)

InstrOps == IntOps \cup {"NEGINT", "ALLOC", "GETFIELD", "UPDFIELD", "GETTAG", "GETSIZE", "RAISE"}

-----------------------------------------------------------------------------
(* The meaning of an expression                                             *)

Matching(alts, r) ==
  {j \in DOMAIN alts :
     CASE alts[j].pat.p = "PatVar" -> FALSE
       [] alts[j].pat.p = "PatInt" -> r.v = "int" /\ r.i = alts[j].pat.tag
       [] alts[j].pat.p = "PatCon" -> r.v = "con" /\ r.i = alts[j].pat.tag
       [] OTHER -> /\ r.v = "con" /\ r.i = alts[j].pat.tag
                   /\ Len(r.ths) = Len(alts[j].pat.ids)}

Default(alts) == {j \in DOMAIN alts : alts[j].pat.p = "PatVar"}

RECURSIVE Means(_, _), Force(_), Apply(_, _), PrimResult(_, _), Inlined(_), Build(_, _), Builds(_, _)

Force(th) == IF "known" \in DOMAIN th THEN th.known
             ELSE LET t == Unrolled(th) IN Means(t.e, t.env)

\* a function, possibly one that has some of its arguments, to more arguments
Apply(r, ths) ==
  IF Fails(r) \/ ths = <<>> THEN r
  ELSE LET all   == r.ths \o ths
           top   == Tops[r.x]
           arity == Len(top.params)
       IN IF Len(all) < arity THEN FunV(r.x, all)
          ELSE Apply(Means(top.body, Extended(NoThunks, top.params, SubSeq(all, 1, arity))),
                     SubSeq(all, arity + 1, Len(all)))

\* Is a strict binding inlined in an atom?
Inlined(e) ==
  CASE e.k = "Eval"   -> TRUE
    [] e.k = "Let"    -> Inlined(e.e1) \/ Inlined(e.e2)
    [] e.k = "LetRec" -> Inlined(e.e) \/ \E j \in DOMAIN e.bs : Inlined(e.bs[j][2])
    [] e.k = "Note"   -> Inlined(e.e)
    [] e.k \in {"Ap", "Con"} -> \E j \in DOMAIN e.args : Inlined(e.args[j])
    [] OTHER          -> FALSE

\* names for arguments that have been built
Arg == <<"$1", "$2", "$3", "$4", "$5", "$6">>

\* What an atom is when it is built, as [ok, th]: a thunk, with the strict bindings
\* that are inlined in it evaluated now.  Not ok: th is what such a binding failed
\* with.
Build(e, env) ==
  LET built(th) == [ok |-> TRUE, th |-> th]
      args      == Builds(e.args, env)
      holes     == [j \in DOMAIN e.args |-> Var(Arg[j])]
  IN
  CASE e.k = "Lit"  -> built(Known(IntV(e.i)))
    [] e.k = "Note" -> Build(e.e, env)
    [] e.k = "Ap" /\ e.args = <<>> /\ e.x \in DOMAIN env -> built(env[e.x])
    [] e.k = "Con" /\ e.args = <<>> -> built(Known(ConV(e.tag, <<>>)))
    [] e.k \in {"Ap", "Con"} /\ e.args # <<>> /\ Inlined(e) ->
         IF args.ok THEN built(Thunk([e EXCEPT !.args = holes],
                                     Extended(env, SubSeq(Arg, 1, Len(e.args)), args.ths)))
         ELSE [ok |-> FALSE, th |-> args.ths[1]]
    [] e.k = "Eval" -> LET r == Means(e.e1, env)
                       IN IF Fails(r) THEN [ok |-> FALSE, th |-> r]
                          ELSE Build(e.e2, Extended(env, <<e.x>>, <<Known(r)>>))
    [] e.k = "Let" /\ Inlined(e) ->
         LET b == Build(e.e1, env)
         IN IF b.ok THEN Build(e.e2, Extended(env, <<e.x>>, <<b.th>>)) ELSE b
    [] OTHER -> built(Thunk(e, env))

\* the last argument is built first
Builds(args, env) ==
  IF args = <<>> THEN [ok |-> TRUE, ths |-> <<>>]
  ELSE LET last == Build(args[Len(args)], env)
           rest == Builds(SubSeq(args, 1, Len(args) - 1), env)
       IN IF ~last.ok THEN [ok |-> FALSE, ths |-> <<last.th>>]
          ELSE IF ~rest.ok THEN rest
          ELSE [ok |-> TRUE, ths |-> Append(rest.ths, last.th)]

\* The other primitives.  What the machine wants evaluated must be a value.
PrimResult(op, ths) ==
  LET arg(j) == ths[j].known
      known(J) == \A j \in J : "known" \in DOMAIN ths[j]
      in(v, i) == i \in 0 .. Len(v.ths) - 1
  IN
  CASE op \in InstrOps /\ ~known(IF op = "UPDFIELD" THEN {1, 3} ELSE DOMAIN ths) -> Stuck
    [] op \in IntOps -> IntResult(op, arg(1).i, arg(2).i)
    [] op = "NEGINT"   -> Long(-arg(1).i)
    [] op = "ALLOC"    -> ConV(arg(1).i, [j \in 1 .. arg(2).i |-> Known(IntV(0))])
    [] op = "GETFIELD" -> IF in(arg(1), arg(2).i) THEN Force(arg(1).ths[arg(2).i + 1])
                          ELSE Runtime(2)
    [] op = "UPDFIELD" -> IF in(arg(3), arg(1).i)
                          THEN [arg(3) EXCEPT !.ths[arg(1).i + 1] = ths[2]]
                          ELSE Runtime(2)
    [] op = "GETTAG"   -> IntV(arg(1).i)
    [] op = "RAISE"    -> ExnV(ths)
    [] op = "GETSIZE"  -> IntV(Len(arg(1).ths))
    [] OTHER           -> IntV(Externs[op].result)

Means(e, env) ==
  LET args == Builds(e.args, env) IN
  CASE e.k \in {"Ap", "Con", "ConTag", "Prim"} /\ ~(e.k = "Prim" /\ e.x = "CATCH") /\ ~args.ok ->
         args.ths[1]
    [] e.k = "Ap" /\ args.ok ->
         LET fun == IF e.x \in DOMAIN env THEN Force(env[e.x])
                    ELSE IF Tops[e.x].params = <<>> THEN Means(Tops[e.x].body, NoThunks)
                    ELSE FunV(e.x, <<>>)
         IN Apply(fun, args.ths)
    [] e.k = "Let"    -> LET b == Build(e.e1, env)
                         IN IF b.ok THEN Means(e.e2, Extended(env, <<e.x>>, <<b.th>>)) ELSE b.th
    [] e.k = "LetRec" -> Means(e.e, Bound(e.bs, env))
    [] e.k = "Eval"   -> LET r == Means(e.e1, env)
                         IN IF Fails(r) THEN r
                            ELSE Means(e.e2, Extended(env, <<e.x>>, <<Known(r)>>))
    [] e.k = "Lit"    -> IntV(e.i)
    [] e.k = "Con" /\ args.ok -> ConV(e.tag, args.ths)
    [] e.k = "ConTag" /\ args.ok ->
         LET t == Build(e.tag, env).th
         IN IF "known" \in DOMAIN t THEN ConV(t.known.i, args.ths) ELSE Stuck
    [] e.k = "Note"   -> Means(e.e, env)
    [] e.k = "Match"  ->
         LET r    == env[e.x].known
             hits == Matching(e.alts, r) \cup Default(e.alts)
         IN IF "known" \notin DOMAIN env[e.x] THEN Stuck ELSE IF hits = {} THEN Runtime(0)
            ELSE LET j == IF Matching(e.alts, r) # {}
                          THEN CHOOSE j \in Matching(e.alts, r) : TRUE
                          ELSE CHOOSE j \in hits : TRUE
                     ths == CASE e.alts[j].pat.p = "PatVar" -> <<Known(r)>>
                              [] e.alts[j].pat.p = "PatInt" -> <<>>
                              [] OTHER -> r.ths
                 IN Means(e.alts[j].e, Extended(env, e.alts[j].pat.ids, ths))
    [] e.k = "Prim" /\ e.x = "CATCH" ->
         LET r == Means(e.args[2], env)
         IN IF r.v = "exn" THEN Apply(Means(e.args[1], env), r.ths) ELSE r
    [] e.k = "Prim" /\ e.x # "CATCH" /\ args.ok -> PrimResult(e.x, args.ths)

\* What the program main shows when it runs to the end.
Meaning(main) == Shown(Means(Tops[main].body, NoThunks))
=============================================================================

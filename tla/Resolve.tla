------------------------------- MODULE Resolve -------------------------------
(***************************************************************************)
(* Names become offsets from the top of the stack                         *)
(* (lib/Lvm/Instr/Resolve.hs).                                            *)
(*                                                                         *)
(* The monad of the source carries an environment and the depth of the    *)
(* stack.  Here Resolves(is, env, d) returns the instructions and the     *)
(* depth after them; env maps a name to the depth just above its slot.    *)
(* ok is FALSE when an assertion of the source has failed, or an           *)
(* identifier is unknown.                                                  *)
(***************************************************************************)
EXTENDS CodeGen

Resolved(is, d, ok) == [is |-> is, d |-> d, ok |-> ok]

\* mutant: one slot too deep
bindLow(env, x, d) == [y \in DOMAIN env \cup {x} |-> IF y = x THEN d - 1 ELSE env[y]]

bind(env, x, d) == [y \in DOMAIN env \cup {x} |-> IF y = x THEN d ELSE env[y]]

\* what the other instructions leave on the stack (effect)
effect(i) ==
  CASE i[1] \in {"ENTER", "RAISE"}                     -> -1
    [] i[1] \in IntOps                                 -> -1
    [] i[1] \in {"PUSHCODE", "PUSHINT", "ALLOCAP", "ALLOCCON"} -> 1
    [] i[1] = "NEWAP"                                  -> 1 - i[2]
    [] i[1] \in {"NEWCON", "CALL"}                     -> 1 - i[3]
    [] i[1] = "NEW"                                    -> -i[2]
    [] i[1] \in {"ALLOC", "GETFIELD"}                  -> -1
    [] i[1] = "UPDFIELD"                               -> -2
    [] OTHER                                           -> 0

RECURSIVE resolves(_, _, _), resolve(_, _, _), resolveAlts(_, _, _)

resolves(is, env, d) ==
  IF is = <<>> THEN Resolved(<<>>, d, TRUE)
  ELSE LET i == Head(is) IN
    CASE i[1] = "PARAM" -> resolves(Tail(is), bind(env, i[2], d + 1), d + 1)
      [] i[1] = "VAR"   -> resolves(Tail(is), bind(env, i[2], d), d)
      [] OTHER -> LET first == resolve(i, env, d)
                      rest  == resolves(Tail(is), env, first.d)
                  IN Resolved(first.is \o rest.is, rest.d, first.ok /\ rest.ok)

\* resolveSlide: what the instructions leave below their n results goes
resolveSlide(n, is, env, d) ==
  LET r == resolves(is, env, d)
      m == r.d - d - n
  IN Resolved(r.is \o <<<<"SLIDE", n, m>>>>, d + n, r.ok)

resolve(i, env, d) ==
  LET known == i[2] \in DOMAIN env
      var   == IF known THEN d - env[i[2]] ELSE 0
  IN
  CASE i[1] = "PUSHVAR" -> Resolved(<<<<"PUSHVAR", var>>>>, d + 1, known)
    [] i[1] \in {"PACKAP", "PACKCON", "PACK"} ->
         Resolved(<<<<i[1], var, i[3]>>>>, d - i[3], known)
    [] i[1] = "EVAL" -> LET r == resolves(i[2], env, d + 3)
                        IN Resolved(<<<<"EVAL", r.is>>>>, r.d - 2, r.ok)
    [] i[1] = "CATCH" -> LET r == resolves(i[2], env, d + 2)
                         IN Resolved(<<<<"PUSHCATCH">>>> \o r.is, r.d, r.ok)
    [] i[1] = "ATOM" -> resolveSlide(1, i[2], env, d)
    [] i[1] = "INIT" -> resolveSlide(0, i[2], env, d)
    [] i[1] \in {"MATCH", "MATCHCON", "MATCHINT"} ->
         LET alts == resolveAlts(i[2], env, d - 1)
         IN Resolved(<<<<i[1], [j \in DOMAIN alts |-> alts[j].alt]>>>>, d,
                     \A j \in DOMAIN alts : alts[j].ok)
    [] OTHER -> Resolved(<<i>>, d + effect(i), TRUE)

\* every alternative starts from the depth d without the scrutinee and must
\* leave one word more
resolveAlts(alts, env, d) ==
  [j \in DOMAIN alts |->
     IF alts[j][2] = <<>> THEN [alt |-> <<alts[j][1], <<>>>>, ok |-> TRUE]
     ELSE LET r == resolves(alts[j][2], env, d)
          IN [alt |-> <<alts[j][1], r.is>>, ok |-> r.ok /\ r.d = d + 1]]

instrResolve(is) == LET r == resolves(is, [x \in {} |-> 0], 0)
                    IN [is |-> r.is, ok |-> r.ok /\ r.d = 0]
=============================================================================

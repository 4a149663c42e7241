--------------------------------- MODULE Expr ---------------------------------
(***************************************************************************)
(* The expressions of the assembly language between the core passes and   *)
(* the code generator (lib/Lvm/Asm/Data.hs).                               *)
(***************************************************************************)
EXTENDS Integers, Sequences

\* Expr.  An identifier is an application to no arguments.
Ap(x, args)      == [k |-> "Ap", x |-> x, args |-> args]
Var(x)           == Ap(x, <<>>)
Let(x, e1, e2)   == [k |-> "Let", x |-> x, e1 |-> e1, e2 |-> e2]
LetRec(bs, e)    == [k |-> "LetRec", bs |-> bs, e |-> e]
Eval(x, e1, e2)  == [k |-> "Eval", x |-> x, e1 |-> e1, e2 |-> e2]
Match(x, alts)   == [k |-> "Match", x |-> x, alts |-> alts]
Prim(x, args)    == [k |-> "Prim", x |-> x, args |-> args]
Con(tag, args)   == [k |-> "Con", tag |-> tag, args |-> args]
ConTag(t, args)  == [k |-> "ConTag", tag |-> t, args |-> args]
Lit(i)           == [k |-> "Lit", i |-> i]
Note(occ, e)     == [k |-> "Note", occ |-> occ, e |-> e]

Alt(pat, e)      == [pat |-> pat, e |-> e]
PatVar(x)        == [p |-> "PatVar", ids |-> <<x>>, tag |-> 0]
PatCon(tag, ids) == [p |-> "PatCon", ids |-> ids, tag |-> tag]
PatTag(tag, ids) == [p |-> "PatTag", ids |-> ids, tag |-> tag]
PatInt(i)        == [p |-> "PatInt", ids |-> <<>>, tag |-> i]

Top(params, body) == [params |-> params, body |-> body]
=============================================================================

------------------------------- MODULE FrontEnd -------------------------------
(***************************************************************************)
(* The compiler from Core to instructions (lib/Lvm/Core/Main.hs, compile): *)
(* dead declarations are removed, the passes of coreToAsm follow, then the *)
(* optimiser.  One action is one pass over the whole module.  What follows *)
(* is in CodeGen, Resolve, Rewrite and Emit.                               *)
(*                                                                         *)
(* A declaration is [kind, name, public, value, links]: links are what its *)
(* custom values refer to, identities <<kind, name>>.  The identity of a   *)
(* constructor is its tag.                                               *)
(***************************************************************************)
EXTENDS ToAsm

CONSTANTS
  Sources,     \* modules: sequences of declarations
  NoValue      \* the value of a declaration that is not one of a value

ASSUME SourcesAssumption ==
  \A s \in Sources : \E j \in DOMAIN s : s[j].name = "main"

VARIABLES
  source,      \* the module
  stage,       \* the pass that comes next
  decls,       \* its declarations, in Core
  tops         \* and in assembly language: from names to [params, body]

vars == <<source, stage, decls, tops>>

I   == INSTANCE Inline
Gen == INSTANCE Resolve WITH Tops <- tops, MinLong <- -100, MaxLong <- 100,
         Externs <- [x \in DOMAIN Externs |-> [arity |-> Externs[x], result |-> 0]]

IsValue(d) == d.kind = "value"
Values(ds) == LET vs == SelectSeq(ds, IsValue)
              IN [j \in DOMAIN vs |-> <<vs[j].name, vs[j].value>>]

globalNames == DOMAIN Externs \cup {decls[j].name : j \in {i \in DOMAIN decls : IsValue(decls[i])}}

Init ==
  /\ source \in Sources
  /\ stage = "dead"
  /\ decls = source
  /\ tops = [x \in {} |-> x]

-----------------------------------------------------------------------------
(* RemoveDead.hs                                                            *)

\* mutant: what an alternative matches on is not used by it
usagePatNone(pat) == {}

usagePat(pat) == IF pat.p = "PatCon" THEN {<<"con", ToString(pat.tag)>>} ELSE {}

\* the identities that an expression uses
RECURSIVE usageExpr(_, _)
usageExpr(locals, e) ==
  LET global(x) == {<<"value", y>> : y \in {x} \ locals} IN
  CASE e.c = "Let"    -> LET in == locals \cup Names(e.b.bs)
                         IN usageExpr(in, e.e) \cup
                            UNION {usageExpr(IF e.b.bind = "Rec" THEN in ELSE locals, e.b.bs[j][2])
                                     : j \in DOMAIN e.b.bs}
    [] e.c = "Lam"    -> usageExpr(locals \cup {e.x}, e.e)
    [] e.c = "Match"  ->
         global(e.x) \cup
         UNION {usageExpr(locals \cup PatNames(a.pat), a.e) \cup usagePat(a.pat) : a \in ToSet(e.alts)}
    [] e.c = "Ap"     -> usageExpr(locals, e.e1) \cup usageExpr(locals, e.e2)
    [] e.c = "ConTag" -> usageExpr(locals, e.e)
    [] e.c = "Var"    -> global(e.x)
    [] e.c = "ConId"  -> {<<"con", ToString(e.tag)>>}
    [] OTHER          -> {}

usageDecl(d) == d.links \cup (IF IsValue(d) THEN usageExpr({}, d.value) ELSE {})

\* an external is a value for the expressions
Identity(d) == <<IF d.kind = "extern" THEN "value" ELSE d.kind, d.name>>

\* only private declarations go that nothing uses, not even one that goes
coreRemoveDead(ds) ==
  LET used == {<<"value", "main">>, <<"value", "main$">>} \cup UNION {usageDecl(d) : d \in ToSet(ds)}
      isUsed(d) == d.public \/ Identity(d) \in used
  IN SelectSeq(ds, isUsed)

RemoveDead ==
  /\ stage = "dead"
  /\ decls' = coreRemoveDead(decls)
  /\ stage' = "rename"
  /\ UNCHANGED <<source, tops>>

-----------------------------------------------------------------------------
(* coreToAsm                                                                *)

\* every value is given to F, with its name as the root of the fresh names
OverValues(F(_, _)) ==
  decls' = [j \in DOMAIN decls |->
              IF IsValue(decls[j]) THEN [decls[j] EXCEPT !.value = F(@, decls[j].name)] ELSE decls[j]]

Pass(from, to, F(_, _)) ==
  /\ stage = from /\ stage' = to
  /\ OverValues(F)
  /\ UNCHANGED <<source, tops>>

Rename    == Pass("rename", "saturate", LAMBDA e, p : coreRename(globalNames, e, p))
Saturate  == Pass("saturate", "normalize", LAMBDA e, p : satExpr(e, p \o "s"))
Normalize == Pass("normalize", "sort", LAMBDA e, p : normBind(e, p \o "n"))
LetSort   == Pass("sort", "lift", LAMBDA e, p : lsExpr(e))
Lift      == Pass("lift", "asm", LAMBDA e, p : coreLift(globalNames, e))

ExprToTop ==
  /\ stage = "asm" /\ stage' = "occur"
  /\ LET vs == Values(decls)
         ds == FlattenSeq([j \in DOMAIN vs |-> asmDecl(vs[j][1], vs[j][2])])
     IN tops' = [x \in Names(ds) |-> ds[CHOOSE j \in DOMAIN ds : ds[j][1] = x][2]]
  /\ UNCHANGED <<source, decls>>

\* asmInline: the annotations, and the inlining
Occur  == /\ stage = "occur" /\ stage' = "inline"
          /\ tops' = [x \in DOMAIN tops |-> I!occTop(tops[x])]
          /\ UNCHANGED <<source, decls>>
Inline == /\ stage = "inline" /\ stage' = "generate"
          /\ tops' = [x \in DOMAIN tops |-> I!inlineTop(tops[x])]
          /\ UNCHANGED <<source, decls>>

Next == \/ RemoveDead \/ Rename \/ Saturate \/ Normalize \/ LetSort \/ Lift
        \/ ExprToTop \/ Occur \/ Inline

Spec == Init /\ [][Next]_vars

-----------------------------------------------------------------------------
(* Properties                                                               *)

CoreStages == {"dead", "rename", "saturate", "normalize", "sort", "lift", "asm"}
After(first) == LET order == <<"dead", "rename", "saturate", "normalize", "sort", "lift", "asm", "occur",
                               "inline", "generate">>
                    at(s) == CHOOSE n \in DOMAIN order : order[n] = s
                IN at(stage) > at(first)

\* all parts of the values, with the top that they are in
AllParts == UNION {Parts(v[2]) : v \in ToSet(Values(decls))}

\* what a declaration refers to: its links, its free variables and the constructors it
\* builds or matches on
Refers(d) ==
  d.links \cup
  IF ~IsValue(d) THEN {}
  ELSE LET parts == Parts(d.value)
           pats  == UNION {{a.pat : a \in ToSet(p.alts)} : p \in {q \in parts : q.c = "Match"}}
           tags  == {p.tag : p \in {q \in parts : q.c = "ConId"} \cup {q \in pats : q.p = "PatCon"}}
       IN {<<"value", x>> : x \in freeVar(d.value)} \cup {<<"con", ToString(tag)>> : tag \in tags}

\* Nothing that is left refers to a declaration that was removed.
NoDangling ==
  LET left == {Identity(d) : d \in ToSet(decls)}
      had  == {Identity(d) : d \in ToSet(source)}
  IN stage = "rename" => \A d \in ToSet(decls) : Refers(d) \cap had \subseteq left

\* the names that e binds, with repetition
RECURSIVE Binders(_)
Binders(e) ==
  CASE e.c = "Let"   -> [j \in DOMAIN e.b.bs |-> e.b.bs[j][1]]
                        \o FlattenSeq([j \in DOMAIN e.b.bs |-> Binders(e.b.bs[j][2])]) \o Binders(e.e)
    [] e.c = "Match" -> FlattenSeq([j \in DOMAIN e.alts |-> e.alts[j].pat.ids \o Binders(e.alts[j].e)])
    [] e.c = "Lam"   -> <<e.x>> \o Binders(e.e)
    [] e.c = "Ap"    -> Binders(e.e1) \o Binders(e.e2)
    [] e.c = "ConTag" -> Binders(e.e)
    [] OTHER         -> <<>>

LetBinders(e) == FlattenSeq(SetToSeq({[j \in DOMAIN p.b.bs |-> p.b.bs[j][1]]
                                        : p \in {q \in Parts(e) : q.c = "Let"}}))

\* does a binder of e have the name of one of scope, or of one around it?
RECURSIVE Shadows(_, _)
Shadows(scope, e) ==
  CASE e.c = "Let"   -> LET new == Names(e.b.bs) IN
                        \/ new \cap scope # {} \/ Shadows(scope \cup new, e.e)
                        \/ \E j \in DOMAIN e.b.bs :
                             Shadows(IF e.b.bind = "Rec" THEN scope \cup new ELSE scope, e.b.bs[j][2])
    [] e.c = "Match" -> \E a \in ToSet(e.alts) :
                          \/ PatNames(a.pat) \cap scope # {}
                          \/ Cardinality(PatNames(a.pat)) # Len(a.pat.ids)
                          \/ Shadows(scope \cup PatNames(a.pat), a.e)
    [] e.c = "Lam"   -> e.x \in scope \/ Shadows(scope \cup {e.x}, e.e)
    [] e.c = "Ap"    -> Shadows(scope, e.e1) \/ Shadows(scope, e.e2)
    [] e.c = "ConTag" -> Shadows(scope, e.e)
    [] OTHER         -> FALSE

\* NoShadow.hs 8-13: "no variables shadow each other and let-bound variables are
\* globally unique", and it stays so until lambdas are lifted: normalisation
\* relies on it when it moves bindings outwards, and so does the lifting.
NothingShadowed ==
  stage \in {"saturate", "normalize", "sort", "lift"} =>
    LET vs == Values(decls)
        lets == FlattenSeq([j \in DOMAIN vs |-> LetBinders(vs[j][2])])
    IN /\ \A v \in ToSet(vs) : ~Shadows(globalNames, v[2])
       /\ IsInjective(lets)
       /\ \A v \in ToSet(vs) : \A x \in ToSet(lets) : Cardinality({n \in DOMAIN Binders(v[2]) : Binders(v[2])[n] = x}) <= 1

\* the constructor or external that an application is of, and its number of arguments
RECURSIVE Applies(_)
Applies(e) == IF e.c = "Ap" THEN LET a == Applies(e.e1) IN <<a[1], a[2] + 1>> ELSE <<e, 0>>

\* Normalize.hs 9-12: no lambdas but at bindings, and every argument and every target
\* of an application is atomic, an argument not the call of an external.  The
\* passes that follow keep it.
Normalised ==
  LET ok(e) == CASE e.c = "Ap"  -> {e.e1.c, e.e2.c} \cap {"Lam", "Match", "Let"} = {} /\ ~isDirectAp(e.e2)
                 [] e.c = "Let" -> e.e.c # "Lam"
                 [] e.c = "Match" -> \A a \in ToSet(e.alts) : a.e.c # "Lam"
                 [] OTHER -> TRUE
  IN stage \in CoreStages /\ After("normalize") => \A e \in AllParts : ok(e)

\* LetSort.hs 15-17: "the smallest NonRec and Rec bindings".  Each binding of a group
\* needs all the others, and no other binding is one of itself.
SmallestGroups ==
  stage = "lift" =>
    \A e \in AllParts : e.c = "Let" =>
      IF e.b.bind = "Rec"
      THEN /\ \A j \in DOMAIN e.b.bs : DependsOn(e.b.bs, j) = DOMAIN e.b.bs
           /\ Len(e.b.bs) = 1 => e.b.bs[1][1] \in freeVar(e.b.bs[1][2])
      ELSE e.b.bs[1][1] \notin freeVar(e.b.bs[1][2])

\* Lift.hs 8-9: "each binding has either no free variables or no arguments", but for
\* the names that are themselves values of the module afterwards.
Closed ==
  stage = "asm" =>
    LET lifted == UNION {{e.b.bs[j][1] : j \in {i \in DOMAIN e.b.bs : ~isAtomic(e.b.bs[i][2])}}
                           : e \in {q \in AllParts : q.c = "Let" /\ q.b.bind # "Strict"}}
    IN \A e \in AllParts : e.c = "Let" /\ e.b.bind # "Strict" =>
         \A j \in DOMAIN e.b.bs :
           ~isAtomic(e.b.bs[j][2]) => freeVar(e.b.bs[j][2]) \subseteq globalNames \cup lifted

\* Every pass delivers what the comments of the later ones ask for, and none of the
\* passes in between undoes it: no reference to a removed declaration, no binder that
\* captures, atoms where asmTop expects them, the smallest groups of bindings and closed
\* functions after lifting (Main.hs 131-162).
PassesDeliver == NoDangling /\ NothingShadowed /\ Normalised /\ SmallestGroups /\ Closed

-----------------------------------------------------------------------------
\* what main shows, in assembly language
RECURSIVE AsmShows(_, _)
AsmShows(r, n) ==
  CASE r.v = "int" -> <<"int", r.i>>
    [] r.v = "exn" -> <<"exn", r.ths[1].known.i>>
    [] r.v = "con" -> <<"con", r.i, IF n = 0 THEN <<>>
                                    ELSE [j \in DOMAIN r.ths |-> AsmShows(Gen!Force(r.ths[j]), n - 1)]>>
    [] OTHER -> <<r.v>>

Depth == 2
Meant == Shows(RunsModule(Values(source), "main"), Depth)
Now   == IF stage \in CoreStages THEN Shows(RunsModule(Values(decls), "main"), Depth)
         ELSE AsmShows(Gen!Means(tops["main"].body, Gen!NoThunks), Depth)

\* Every pass keeps the meaning of the module: its result and the results in its
\* fields, the exception that is raised first, and that what is wanted as a value
\* has been evaluated.
KeepsMeaning == stage # "dead" => Now = Meant

\* The optimised program has code, in which every variable is on the stack and every
\* alternative leaves one word.
HasCode ==
  stage = "generate" =>
    \A x \in DOMAIN tops : Gen!instrResolve(Gen!cgTop(tops[x])).ok
=============================================================================

------------------------------ MODULE Imports ------------------------------
(***************************************************************************)
(* Import resolution of the compiler (lib/Lvm/Import.hs).  The files of    *)
(* all modules that are imported, directly or not, are read; an import of  *)
(* a whole module becomes imports of what it exports; every import is      *)
(* replaced by the declaration at the end of its chain of imports.         *)
(***************************************************************************)
EXTENDS Decls

imported(ds) == {ds[i].access.from : i \in {j \in DOMAIN ds : IsImport(ds[j])}}

(* loaded maps the modules read so far to their declarations: of all but   *)
(* the module that is compiled the public ones.  A file that cannot be     *)
(* read ends the compiler.                                                 *)
RECURSIVE readModules(_, _, _)
readModules(read, loaded, todo) ==
  IF todo \subseteq DOMAIN loaded THEN loaded
  ELSE LET x  == CHOOSE x \in todo \ DOMAIN loaded : TRUE
           ds == IF x \in DOMAIN read THEN FilterPublic(read[x]) ELSE <<>>
       IN  readModules(read, loaded @@ (x :> ds), todo \cup imported(ds))

expandDecl(loaded, d) ==
  LET As(e) == [e EXCEPT !.access = Imported(d.access.from, e.name, KindOf(e)),
                         !.public = d.public]
      ds    == loaded[d.access.from]
  IN  IF IsImport(d) /\ d.access.kind = "module"
      THEN [i \in DOMAIN ds |-> As(ds[i])] ELSE <<d>>

expandModule(loaded, m) ==
  [loaded EXCEPT ![m] = FlattenSeq([i \in DOMAIN @ |-> expandDecl(loaded, @[i])])]

-----------------------------------------------------------------------------
(* st: the declarations of the modules, what has been resolved in each of  *)
(* them, and whether no error was raised.                                  *)
lookupDecl(x, kind, ds) == SelectSeq(ds, LAMBDA d : d.name = x /\ KindOf(d) = kind)

Key(imp) == imp.access
Fail(st) == [st EXCEPT !.ok = FALSE]

(* The declaration d takes the place of the import imp in module m.        *)
Replace(st, m, imp, d) ==
  LET new == [d EXCEPT !.name = imp.name, !.access = imp.access, !.public = imp.public]
  IN  [st EXCEPT !.mods[m] = <<new>> \o @, !.seen[m] = @ \cup {Key(imp)}]

RECURSIVE resolveImport(_, _, _, _)
resolveImport(visited, m, st, imp) ==
  LET from  == imp.access.from
      ds    == lookupDecl(imp.access.name, imp.access.kind, st.mods[from])
      here  == SelectSeq(ds, LAMBDA d : ~IsImport(d))
      there == SelectSeq(ds, IsImport)
  IN  CASE ~st.ok                          -> st
        [] st.ok /\ m \in visited          -> Fail(st)
        [] st.ok /\ m \notin visited /\ Key(imp) \in st.seen[m] -> st
        [] OTHER ->
             IF Len(here) = 1 THEN Replace(st, m, imp, here[1])
             ELSE IF here = <<>> /\ Len(there) = 1
             THEN resolveImport(visited \cup {from}, m,
                                resolveImport(visited \cup {m}, from, st, there[1]), imp)
             ELSE Fail(st)

resolveImports(st, m) ==
  FoldLeft(LAMBDA s, imp : resolveImport({}, m, s, imp), st, SelectSeq(st.mods[m], IsImport))

(* The modules are visited in the order of their names.                    *)
lvmResolveImports(loaded, order) ==
  FoldLeft(resolveImports,
           [mods |-> loaded, seen |-> [m \in DOMAIN loaded |-> {}], ok |-> TRUE],
           SelectSeq(order, LAMBDA m : m \in DOMAIN loaded))

(* read maps the modules whose files can be read to their declarations.    *)
lvmImport(read, order, m, ds) ==
  LET loaded == readModules(read, m :> ds, imported(ds))
      known  == DOMAIN loaded \subseteq DOMAIN read \cup {m}
      self   == Import(m, m, NoName, "module").access \in {ds[i].access : i \in DOMAIN ds}
      st     == lvmResolveImports(expandModule(loaded, m), order)
  IN  IF ~known \/ self THEN [ok |-> FALSE, decls |-> <<>>]
      ELSE [ok |-> st.ok, decls |-> SelectSeq(st.mods[m], LAMBDA d : ~IsImport(d))]
=============================================================================

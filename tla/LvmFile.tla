------------------------------ MODULE LvmFile ------------------------------
(***************************************************************************)
(* The file of a compiled module: the writer (lib/Lvm/Write.hs) numbers    *)
(* the records it emits, from 1, and refers to a record by its number; the *)
(* reader of the compiler (lib/Lvm/Read.hs) turns the records back into    *)
(* declarations.  Bytes, lengths and magic numbers are not modelled: a     *)
(* file that ends early is one that nobody can read (module Loader).       *)
(***************************************************************************)
EXTENDS Decls

(* The emit monad: the records so far, for each declared name its kind and *)
(* number, newest first, and whether every name was found.                 *)
NoRecords == [recs |-> <<>>, env |-> <<>>, ok |-> TRUE]

Index(st) == Len(st.recs)
Put(st, r) == [st EXCEPT !.recs = Append(@, r)]
PutAs(st, x, kind, r) ==
  [st EXCEPT !.recs = Append(@, r),
             !.env  = <<[name |-> x, kind |-> kind, idx |-> Index(st) + 1]>> \o @]

(* 0: an undeclared identifier. *)
findIndex(env, kind, x) ==
  LET I == {i \in DOMAIN env : env[i].name = x /\ env[i].kind = kind}
  IN  IF I = {} THEN 0 ELSE env[Min(I)].idx

emitName(st, x)  == Put(st, [rec |-> "name", string |-> x])
emitKind(st, x)  == Put(st, [rec |-> "kind", string |-> x])
emitBytes(st)    == Put(st, [rec |-> "bytes"])
emitType(st, x)  == Put(st, [rec |-> "externtype", args |-> x])

emitModule(st, m) ==
  LET s == emitName(st, m) IN Put(s, [rec |-> "module", name |-> Index(s), major |-> 0])

IsCustomKind(kind) == kind \notin {"value", "con", "extern", "module"}

emitImport(st, d) ==
  LET s1 == emitModule(st, d.access.from)
      s2 == emitName(s1, d.access.name)
      s3 == emitName(s2, d.name)
      s4 == IF IsCustomKind(KindOf(d)) THEN emitKind(s3, KindOf(d)) ELSE s3
  IN  PutAs(s4, d.name, KindOf(d),
            [rec |-> "import", name |-> Index(s3), public |-> d.public, module |-> Index(s1),
             iname |-> Index(s2), custom |-> IsCustomKind(KindOf(d)),
             kind |-> IF IsCustomKind(KindOf(d)) THEN Index(s4) ELSE KindOf(d)])

(* Instructions name a record: a global of any sort is looked for as a     *)
(* value, a string is emitted on the spot.                                 *)
emitInstr(acc, in, env) ==
  LET st  == IF in.op = "PUSHBYTES" THEN emitBytes(acc.st) ELSE acc.st
      idx == IF in.op = "PUSHBYTES" THEN Index(st) ELSE findIndex(env, in.ref, in.name)
  IN  [st |-> [st EXCEPT !.ok = @ /\ idx # 0],
       is |-> Append(acc.is, [op |-> in.op, idx |-> idx, arity |-> in.arity])]

emitInstrs(st, code, env) ==
  LET acc == FoldLeft(LAMBDA a, in : emitInstr(a, in, env), [st |-> st, is |-> <<>>], code)
  IN  Put(acc.st, [rec |-> "code", code |-> acc.is])

emitDValue(st, d, env) ==
  LET enc == IF d.enc = NoName THEN 0 ELSE findIndex(env, "value", d.enc)
      s1  == emitInstrs(st, d.code, env)
      s2  == emitName(s1, d.name)
      s3  == [s2 EXCEPT !.ok = @ /\ (d.enc = NoName \/ enc # 0)]
  IN  PutAs(s3, d.name, "value",
            [rec |-> "value", name |-> Index(s2), public |-> d.public, arity |-> d.arity,
             enc |-> enc, code |-> Index(s1)])

(* Mutant: the fields in the wrong order. *)
emitDConSwapped(st, d, env) ==
  LET s == emitName(st, d.name)
  IN  PutAs(s, d.name, "con", [rec |-> "con", name |-> Index(s), public |-> d.public,
                               arity |-> d.tag, tag |-> d.arity, data |-> 0])

(* A constructor of a data type has a link to the declaration of its type. *)
emitDCon(st, d, env) ==
  LET s == emitName(st, d.name)
      t == IF d.type = NoName THEN 0 ELSE findIndex(env, "data", d.type)
  IN  PutAs([s EXCEPT !.ok = @ /\ (d.type = NoName \/ t # 0)], d.name, "con",
            [rec |-> "con", name |-> Index(s), public |-> d.public, arity |-> d.arity,
             tag |-> d.tag, data |-> t])

emitDCustom(st, d) ==
  LET s1 == emitName(st, d.name)
      s2 == emitKind(s1, d.type)
  IN  PutAs(s2, d.name, d.type, [rec |-> "custom", name |-> Index(s1), public |-> d.public,
                                 kind |-> Index(s2)])

(* An extern is declared as a value: an import of it is not.               *)
emitDExtern(st, d) ==
  LET s1 == emitType(st, d.arity)
      s2 == emitName(s1, d.lib)
      s3 == emitName(s2, d.name)
      s4 == emitName(s3, d.name)
  IN  PutAs(s4, d.name, "value",
            [rec |-> "extern", name |-> Index(s4), public |-> d.public, arity |-> d.arity,
             type |-> Index(s1), lib |-> Index(s2), symbol |-> Index(s3), link |-> d.link])

emitDecl(st, d, env) ==
  CASE d.decl = "extern" /\ d.call = "instr" -> st
    [] IsImported(d)                         -> emitImport(st, d)
    [] ~IsImported(d) /\ d.decl = "value"    -> emitDValue(st, d, env)
    [] ~IsImported(d) /\ d.decl = "con"      -> emitDCon(st, d, env)
    [] ~IsImported(d) /\ d.decl = "custom"   -> emitDCustom(st, d)
    [] OTHER                                 -> emitDExtern(st, d)

emitLvmModule(m, ds, env) ==
  FoldLeft(LAMBDA st, d : emitDecl(st, d, env), emitModule(NoRecords, m), ds)

(* runEmit ties a knot: the numbers that are looked up are those of the    *)
(* same run.  They do not depend on what is looked up.                     *)
lvmWrite(m, ds) == emitLvmModule(m, ds, emitLvmModule(m, ds, <<>>).env)

-----------------------------------------------------------------------------
StringAt(recs, i) == recs[i].string
ModuleName(recs) == StringAt(recs, recs[2].name)

readDecl(recs, r) ==
  LET Read(d) == [d EXCEPT !.public = r.public]
      x == StringAt(recs, r.name)
  IN  CASE r.rec = "value" -> Read([Decl("abstract", x) EXCEPT !.arity = r.arity])
        [] r.rec = "con"   ->
             Read(Con(x, IF r.data = 0 THEN NoName ELSE StringAt(recs, recs[r.data].name),
                      r.arity, r.tag))
        [] r.rec = "import" ->
             Read(Import(x, StringAt(recs, recs[r.module].name), StringAt(recs, r.iname),
                         IF r.custom THEN StringAt(recs, r.kind) ELSE r.kind))
        [] r.rec = "custom" -> Read([Decl("custom", x) EXCEPT !.type = StringAt(recs, r.kind)])
        [] r.rec = "extern" ->
             Read(Extern(x, recs[r.type].args, r.link, NoName, StringAt(recs, r.lib)))

lvmRead(recs) ==
  LET decls == SelectSeq(recs, LAMBDA r : r.rec \in {"value", "con", "import", "custom", "extern"})
  IN  [i \in DOMAIN decls |-> readDecl(recs, decls[i])]
=============================================================================

------------------------------- MODULE Decls -------------------------------
(***************************************************************************)
(* The declarations of a module (lib/Lvm/Core/Module.hs), what the parser  *)
(* makes of its export and import lists, and the two passes over the       *)
(* declarations that need no other module: which of them are public        *)
(* (modulePublic) and which are kept (RemoveDead.hs).                      *)
(*                                                                         *)
(* The body of a value is abstracted to the sequence of its references to  *)
(* global names: [ref |-> "value" | "con" | "bytes", name, op], where op   *)
(* is "call" for a saturated call in the tail and else the instruction     *)
(* that a constructor is used by.  The customs of a declaration are        *)
(* abstracted to the field type: the type of a constructor, the kind of a  *)
(* custom declaration.                                                     *)
(***************************************************************************)
EXTENDS Integers, SequencesExt

NoName == "-"

(* Access: Defined, or Imported with the module, name and kind of the      *)
(* declaration it stands for.                                              *)
Imported(mid, x, kind) == [from |-> mid, name |-> x, kind |-> kind]
Defined == Imported(NoName, NoName, NoName)

Decl(d, x) ==
  [decl |-> d, name |-> x, public |-> FALSE, access |-> Defined, arity |-> 0,
   tag |-> 0, type |-> NoName, enc |-> NoName, code |-> <<>>,
   link |-> NoName, call |-> NoName, lib |-> NoName]

Value(x, arity, code) == [Decl("value", x) EXCEPT !.arity = arity, !.code = code]
(* A data type and its constructors are public, whatever is exported.      *)
Con(x, type, arity, tag) ==
  [Decl("con", x) EXCEPT !.type = type, !.arity = arity, !.tag = tag, !.public = type # NoName]
Data(x) == [Decl("custom", x) EXCEPT !.type = "data", !.public = TRUE]
Extern(x, arity, link, call, lib) ==
  [Decl("extern", x) EXCEPT !.arity = arity, !.link = link, !.call = call, !.lib = lib]

(* abstract x = mid.y with the arity that the programmer states: the other *)
(* module is not read.                                                     *)
AbstractValue(x, mid, y, arity) ==
  [Decl("abstract", x) EXCEPT !.access = Imported(mid, y, "value"), !.arity = arity]
AbstractCon(x, mid, y, arity, tag) ==
  [Con(x, NoName, arity, tag) EXCEPT !.access = Imported(mid, y, "con")]

(* import mid, and the items of import mid(..): x = y, and T(C, ..).       *)
Import(x, mid, y, kind) == [Decl("import", x) EXCEPT !.access = Imported(mid, y, kind)]
ImportModule(mid) == Import(mid, mid, NoName, "module")
ImportData(mid, t, cs) ==
  <<Import(t, mid, t, "data")>> \o [i \in DOMAIN cs |-> Import(cs[i], mid, cs[i], "con")]

IsImport(d) == d.decl = "import"
IsImported(d) == d.access # Defined
IsGlobal(d) == d.decl \in {"value", "abstract", "extern"}

KindOf(d) ==
  CASE d.decl \in {"value", "abstract"} -> "value"
    [] d.decl = "con"                   -> "con"
    [] d.decl = "extern"                -> "extern"
    [] d.decl = "custom"                -> d.type
    [] d.decl = "import"                -> d.access.kind

FilterNothing(ds) == ds   \* mutant
FilterPublic(ds) == SelectSeq(ds, LAMBDA d : d.public)

-----------------------------------------------------------------------------
(* Export lists: T without parentheses is a type and a constructor.        *)
Exports(items) ==
  LET Of(kinds) == {items[i].name : i \in {j \in DOMAIN items : items[j].kind \in kinds}}
  IN  [implicit |-> items = <<>>, values |-> Of({"value"}), cons |-> Of({"con", "type"}),
       data |-> Of({"type", "typeall", "typewith"}), datacons |-> Of({"typeall"}),
       mods |-> Of({"module"})]

IsExported(m, ex, d, listed) ==
  IF ex.implicit THEN ~IsImported(d) /\ d.public
  ELSE listed \/ (IF IsImported(d) THEN d.access.from ELSE m) \in ex.mods

ImportPublic(m, ex, d) ==
  /\ ~ex.implicit
  /\ LET Listed(names) == IsExported(m, ex, d, d.name \in names)
     IN  CASE d.access.kind \in {"value", "extern"} -> Listed(ex.values)
           [] d.access.kind = "con"                 -> Listed(ex.cons)
           [] d.access.kind = "module"              -> Listed(ex.mods)
           [] d.access.kind = "data"                -> Listed(ex.data)
           [] OTHER                                 -> FALSE

DeclPublic(m, ex, d) ==
  CASE IsGlobal(d)         -> IsExported(m, ex, d, d.name \in ex.values)
    [] d.decl = "con"      -> IsExported(m, ex, d, \/ d.name \in ex.cons
                                                   \/ d.type \in ex.datacons)
    [] d.decl = "custom"   -> IsExported(m, ex, d, d.name \in ex.data)
    [] d.decl = "import"   -> ImportPublic(m, ex, d)

modulePublic(m, ex, ds) ==
  [i \in DOMAIN ds |-> [ds[i] EXCEPT !.public = @ \/ DeclPublic(m, ex, ds[i])]]

-----------------------------------------------------------------------------
(* Dead declarations are private ones that no value refers to; an extern   *)
(* is referred to as a value.  A constructor refers to its type.           *)
Identity(d) == <<IF d.decl = "extern" THEN "value" ELSE KindOf(d), d.name>>

Used(ds) ==
  {<<"value", "main$">>, <<"value", "main">>}
    \cup UNION {{<<u.ref, u.name>> : u \in ToSet(ds[i].code)}
                  \cup {<<"value", ds[i].enc>>, <<"data", ds[i].type>>} : i \in DOMAIN ds}

coreRemoveDead(ds) == SelectSeq(ds, LAMBDA d : d.public \/ Identity(d) \in Used(ds))

-----------------------------------------------------------------------------
(* What the code generator looks up for each reference: the last           *)
(* declaration of that name.  It fails on a name that is not declared.     *)
Declares(d, ref, x) ==
  d.name = x /\ IF ref = "con" THEN d.decl = "con" ELSE IsGlobal(d)

Found(ds, ref, x) == {i \in DOMAIN ds : Declares(ds[i], ref, x)}
Lookup(ds, ref, x) == ds[Max(Found(ds, ref, x))]

Instr(op, u, d) == [op |-> op, ref |-> u.ref, name |-> u.name, arity |-> d.arity]

RefInstr(u, d) ==
  CASE d.decl = "con"                            -> <<Instr(u.op, u, d)>>
    [] d.decl = "extern" /\ d.call = "instr"     -> <<>>
    [] d.decl = "extern" /\ d.call # "instr"     -> <<Instr("CALL", u, d)>>
    [] d.decl \in {"value", "abstract"} ->
         <<Instr(IF u.op = "call" /\ d.arity # 0 THEN "ENTERCODE" ELSE "PUSHCODE", u, d)>>

Instrs(ds, code) ==
  FlattenSeq([i \in DOMAIN code |->
    IF code[i].ref = "bytes" THEN <<Instr("PUSHBYTES", code[i], [arity |-> 0])>>
    ELSE RefInstr(code[i], Lookup(ds, code[i].ref, code[i].name))])

CanCompile(ds) ==
  \A i \in DOMAIN ds : \A u \in ToSet(ds[i].code) :
    u.ref = "bytes" \/ Found(ds, u.ref, u.name) # {}

asmToLvm(ds) == [i \in DOMAIN ds |-> [ds[i] EXCEPT !.code = Instrs(ds, @)]]
=============================================================================

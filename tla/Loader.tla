------------------------------- MODULE Loader -------------------------------
(***************************************************************************)
(* Separate compilation and linking: the compiler, run on one module at a  *)
(* time (lib/Lvm/Core/Main.hs), the files it leaves, and the loader of the *)
(* runtime (module Linker) on those files.                                 *)
(*                                                                         *)
(* A module is compiled against the files that its imports have at that    *)
(* moment; sources change, and nothing recompiles what depends on them.    *)
(***************************************************************************)
EXTENDS Imports, Linker

CONSTANT
  Projects      \* for each module the sequence of the versions of its source

NoFile == [state |-> "none", recs |-> <<>>, decls |-> <<>>]

(* The writer opens the file before it has the numbers of its records: it  *)
(* may stop, or be stopped, with a file that ends early.                   *)
Cut == [NoFile EXCEPT !.state = "cut"]

-----------------------------------------------------------------------------
(* The compiler.                                                           *)
Source(m) == project[m][version[m]]

(* The files that lvmRead can read. *)
Readable == {m \in Names : files[m].state = "whole"}
Read == [m \in Readable |-> lvmRead(files[m].recs)]

Chased(m) == lvmImport(Read, Modules, m,
                       modulePublic(m, Exports(Source(m).exports), Source(m).decls))
CoreModule(m) ==
  coreRemoveDead(modulePublic(m, Exports(Source(m).exports), Chased(m).decls))

(* What compile writes: nothing when a step before the writer fails.       *)
Compiled(m) ==
  IF ~Chased(m).ok \/ ~CanCompile(CoreModule(m)) THEN NoFile
  ELSE LET ds  == asmToLvm(CoreModule(m))
           out == lvmWrite(m, ds)
       IN  IF out.ok THEN [state |-> "whole", recs |-> out.recs, decls |-> ds] ELSE Cut

Compile(m) ==
  /\ phase = "building"
  /\ LET file == Compiled(m)
     IN  file # NoFile /\ files' = [files EXCEPT ![m] = file]
  /\ UNCHANGED <<project, version, phase, why, linkVars, exitVars>>

(* The compiler is stopped while it writes.                                *)
Interrupt(m) ==
  /\ phase = "building"
  /\ Compiled(m) # NoFile
  /\ files' = [files EXCEPT ![m] = Cut]
  /\ UNCHANGED <<project, version, phase, why, linkVars, exitVars>>

Edit(m) ==
  /\ phase = "building"
  /\ version[m] < Len(project[m])
  /\ version' = [version EXCEPT ![m] = @ + 1]
  /\ UNCHANGED <<project, files, phase, why, linkVars, exitVars>>

-----------------------------------------------------------------------------
Init ==
  /\ project \in Projects
  /\ version = [m \in Names |-> 1]
  /\ files = [m \in Names |-> NoFile]
  /\ LinkInit

Build == \E m \in Names : Compile(m) \/ Interrupt(m) \/ Edit(m)
Next == Build \/ StartModule(Modules[1]) \/ Load \/ Exit

(* The loader is a loop of one thread: it goes on while it can.            *)
Spec == Init /\ [][Next]_vars /\ WF_vars(Load \/ Exit)

-----------------------------------------------------------------------------
(* What names denote, from the declarations alone: the public declaration  *)
(* of that name and kind, which may be imported in its turn.               *)
RECURSIVE Origin(_, _, _)
Origin(access, seen, default) ==
  LET ds == IF access.from \notin Names \/ access \in seen THEN <<>>
            ELSE SelectSeq(files[access.from].decls, LAMBDA d :
                   d.public /\ d.name = access.name /\ KindOf(d) = access.kind)
  IN  CASE ds = <<>> -> default
        [] ds # <<>> /\ IsImported(ds[1]) -> Origin(ds[1].access, seen \cup {access}, default)
        [] OTHER -> [in |-> access.from, decl |-> ds[1]]

Unknown == [in |-> NoName, decl |-> Decl("unknown", NoName)]

Denotes(m, u) ==
  LET d == Lookup(files[m].decls, u.ref, u.name)
  IN  IF IsImported(d) THEN Origin(d.access, {}, Unknown) ELSE [in |-> m, decl |-> d]

(* Every file is what compiling its source now would give, and every       *)
(* abstract declaration states the arity of a declaration that there is:   *)
(* the compiler does not look.                                             *)
Fresh == \A m \in Names : files[m].state = "whole" /\ files[m] = Compiled(m)

Honest ==
  \A m \in Names : \A d \in ToSet(Source(m).decls) :
    IsImported(d) /\ ~IsImport(d) =>
      LET o == Origin(d.access, {}, Unknown) IN o # Unknown /\ o.decl.arity = d.arity

-----------------------------------------------------------------------------
(* Linking is by number, twice: the writer numbers the records of a file,  *)
(* the loader follows numbers to imports and imports to the records of     *)
(* another file.  Whatever was compiled when, a resolved instruction       *)
(* refers to the declaration that its name denotes (resolve_instrs).       *)
LinkedAsNamed ==
  \A m \in DOMAIN mods : \A i \in ValueRecords(m) : \A k \in DOMAIN CodeOf(m, i) :
    LET in == CodeOf(m, i)[k]
        d  == Lookup(files[Module_name(m)].decls, "value", Name(m, mods[m].recs[i].name))
        o  == Denotes(Module_name(m), d.code[k])
    IN  in.ptr # NoPtr /\ in.op # "PUSHBYTES" =>
          /\ Module_name(in.ptr[1]) = o.in
          /\ Name(in.ptr[1], Rec(in.ptr).name) = o.decl.name
          /\ Rec(in.ptr).rec = KindOf(o.decl)

(* What an instruction refers to has the arity it was generated for.       *)
SizesAgree ==
  \A in \in Instructions : in.op # "PUSHBYTES" => Rec(in.ptr).arity = in.arity

(* What the compiler accepts is loaded: when no file is older than what it *)
(* was compiled against and no abstract declaration lies, the loader finds *)
(* every module and every symbol, of the right kind, and the code agrees   *)
(* with what is loaded.  Code is generated for the arities found at the    *)
(* end of a chain of imports; the loader checks neither those of NEWCON    *)
(* nor those of ENTERCODE (resolve_instrs).                                *)
FreshLoads ==
  Fresh /\ Honest => /\ why \notin {"file", "symbol", "circular", "kind", "size"}
                     /\ phase = "loaded" => SizesAgree

(* Loading ends: reading modules that import each other, following chains  *)
(* of imports to the end, or round to the import that is being resolved    *)
(* (resolve_index).                                                        *)
LoadEnds == phase = "loading" ~> phase \in {"done", "failed"}
=============================================================================

------------------------------- MODULE Linker -------------------------------
(***************************************************************************)
(* The loader of the runtime (core/loader.c), from the files of compiled   *)
(* modules to a running program, and the exit.                             *)
(*                                                                         *)
(* The loader reads the main module, and the modules it imports when it    *)
(* comes to an import of them; a module is in the ring of loaded modules   *)
(* before its own imports are resolved, so that modules can import each    *)
(* other.  An import is resolved to a record of the other module that may  *)
(* itself be an import, whose own fixup may not be set yet.  The code is   *)
(* resolved when all modules are loaded.                                   *)
(*                                                                         *)
(* A pointer to a record is <<m, i>>, record i of the m-th loaded module.  *)
(* Who writes the files is left open here (LinkSpec); module Loader adds   *)
(* the compiler.                                                           *)
(***************************************************************************)
EXTENDS LvmFile, TLC

CONSTANTS
  Modules,      \* the names of modules, in their order
  Primitives, LibPath, Exported   \* as in DynamicLibs

(* There is a main module, the first.                                      *)
ASSUME ModulesAssumption == Modules \in Seq(STRING) /\ Modules # <<>>

(* A path that the search for a library ends with has a separator in it,   *)
(* and is found under itself (searchpath).                                 *)
ASSUME LibPathAssumption ==
  \A n \in DOMAIN LibPath :
    LibPath[n] \in DOMAIN LibPath /\ LibPath[LibPath[n]] = LibPath[n]

VARIABLES
  project,      \* the project that is built and, for each module, the
  version,      \* version of its source: as in Loader
  files,        \* for each module its file
  phase,        \* of the runtime
  why,          \* why it stopped
  mods,         \* the loaded modules, in the order of loading
  calls,        \* the active calls of resolve_external_records, innermost last
  at,           \* the instruction that resolve_code is at
  entry,        \* the record of the main function
  symbols,      \* the symbols of records: <<module, record, path of the library>>
  fixed,        \* the records of the modules are roots of the collector
  libs, handles

buildVars == <<project, version, files>>
linkVars  == <<mods, calls, at, entry>>
exitVars  == <<symbols, fixed, libs, handles>>
vars == <<buildVars, phase, why, linkVars, exitVars>>

Libs == INSTANCE DynamicLibs

Names == ToSet(Modules)
NoPtr == <<0, 0>>

-----------------------------------------------------------------------------
(* Files.  The loader checks that the number of a record is in range       *)
(* (Check_record) but not its kind (Check_tag never raises), and that a    *)
(* file is of the module it is looked up for not at all: what is stated    *)
(* here of a whole file is what it relies on.  A file is of the module of  *)
(* its name, the modules it names are modules, and the code of a value is  *)
(* code.                                                                   *)
IsSeq(s) == Len(s) \in Nat /\ s = [i \in 1 .. Len(s) |-> s[i]]

NamesModule(recs, i, m) ==
  /\ i \in DOMAIN recs /\ recs[i].rec = "module"
  /\ recs[i].name \in DOMAIN recs
  /\ recs[recs[i].name].rec = "name" /\ recs[recs[i].name].string = m

RecordOK(recs, r) ==
  /\ "rec" \in DOMAIN r
  /\ r.rec = "import" => /\ "module" \in DOMAIN r
                         /\ \E m \in Names : NamesModule(recs, r.module, m)
  /\ r.rec = "value" => "code" \in DOMAIN r /\ r.code \in DOMAIN recs /\ recs[r.code].rec = "code"
  /\ r.rec = "code" => "code" \in DOMAIN r /\ IsSeq(r.code)

WholeFile(m, recs) ==
  IsSeq(recs) /\ NamesModule(recs, 2, m) /\ \A i \in DOMAIN recs : RecordOK(recs, recs[i])

FilesOK == \A m \in Names : files[m].state = "whole" => WholeFile(m, files[m].recs)

-----------------------------------------------------------------------------
(* The loader.                                                             *)
Rec(p) == mods[p[1]].recs[p[2]]
Module_name(m) == ModuleName(mods[m].recs)
Name(m, i) == StringAt(mods[m].recs, i)

Fails(reason) ==
  /\ phase' = "failed" /\ why' = reason
  /\ UNCHANGED <<buildVars, linkVars, symbols, fixed>>

(* read_records: fields that the file has no value for start as zero.      *)
WithField(r, x, v) == [y \in DOMAIN r \cup {x} |-> IF y = x THEN v ELSE r[y]]

InMemory(r) ==
  CASE r.rec = "import" -> WithField(r, "fixup", NoPtr)
    [] r.rec = "value"  -> WithField(r, "fun", IF r.arity = 0 THEN "caf" ELSE "code")
    [] r.rec = "code"   ->
         [r EXCEPT !.code = [k \in DOMAIN r.code |-> WithField(r.code[k], "ptr", NoPtr)]]
    [] OTHER -> r

(* Mutant: the new module is the last of the ring. *)
LinkedToMain(parent, m) ==
  LET new == [recs |-> [i \in DOMAIN files[m].recs |-> InMemory(files[m].recs[i])], next |-> 1]
  IN  Append(IF parent = 0 THEN mods ELSE [mods EXCEPT ![parent].next = Len(mods) + 1], new)

(* The new module is linked behind its parent before it is resolved.       *)
Linked(parent, m) ==
  LET recs == files[m].recs
      new  == [recs |-> [i \in DOMAIN recs |-> InMemory(recs[i])],
               next |-> IF parent = 0 THEN 1 ELSE mods[parent].next]
  IN  Append(IF parent = 0 THEN mods ELSE [mods EXCEPT ![parent].next = Len(mods) + 1], new)

read_module(parent, m) ==
  /\ files[m].state = "whole"
  /\ mods' = Linked(parent, m)
  /\ calls' = Append(calls, [m |-> Len(mods) + 1, i |-> 1, got |-> 0])

StartModule(m) ==
  /\ phase = "building"
  /\ IF files[m].state = "whole"
     THEN /\ read_module(0, m)
          /\ phase' = "loading"
          /\ UNCHANGED <<buildVars, why, at, entry, exitVars>>
     ELSE Fails("file") /\ UNCHANGED <<libs, handles>>

(* The modules of the ring, from m on, up to m again. *)
Ring(m) ==
  LET after[k \in 0 .. Len(mods)] == IF k = 0 THEN m ELSE mods[after[k - 1]].next
      len == Min({k \in 1 .. Len(mods) : after[k] = m} \cup {Len(mods)})
  IN  [k \in 1 .. len |-> after[k - 1]]

(* Mutant: a module looks for nothing but itself. *)
find_moduleSelf(m, name) == IF Module_name(m) = name THEN m ELSE 0

(* find_module: 0 when the module must be read. *)
find_module(m, name) ==
  LET named == {k \in DOMAIN Ring(m) : Module_name(Ring(m)[k]) = name}
  IN  IF named = {} THEN 0 ELSE Ring(m)[Min(named)]

(* Kinds of the records are compared, of an import the kind of what it     *)
(* stands for, custom kinds by their name.                                 *)
KindName(m, r) ==
  CASE r.rec = "import" -> IF r.custom THEN Name(m, r.kind) ELSE r.kind
    [] r.rec = "custom" -> Name(m, r.kind)
    [] OTHER            -> r.rec

HasName(r) == r.rec \in {"value", "con", "import", "extern", "custom"}

match_kind_rec(m, kind, r) == KindName(m, r) = kind

(* The first public record of that name and kind, 0 if there is none.      *)
find_symbol(m, name, kind) ==
  LET recs  == mods[m].recs
      found == {i \in DOMAIN recs : /\ HasName(recs[i]) /\ recs[i].public
                                    /\ match_kind_rec(m, kind, recs[i])
                                    /\ Name(m, recs[i].name) = name}
  IN  IF found = {} THEN 0 ELSE Min(found)

Call == calls[Len(calls)]
Record == mods[Call.m].recs[Call.i]
AtRecord(kind) ==
  phase = "loading" /\ Call.i <= Len(mods[Call.m].recs) /\ Record.rec = kind

NextRecordSkips == calls' = [calls EXCEPT ![Len(calls)].i = @ + 2, ![Len(calls)].got = 0]   \* mutant
NextRecord == calls' = [calls EXCEPT ![Len(calls)].i = @ + 1, ![Len(calls)].got = 0]

ImportedNameHere == Name(Call.m, Record.name)   \* mutant
ImportedName == Name(Call.m, Record.iname)
ImportedModule == StringAt(mods[Call.m].recs, mods[Call.m].recs[Record.module].name)
Target == IF Call.got # 0 THEN Call.got ELSE find_module(Call.m, ImportedModule)

(* An import from a module that is not loaded: it is read first.           *)
LoadImported ==
  /\ AtRecord("import") /\ Target = 0
  /\ IF files[ImportedModule].state = "whole"
     THEN /\ read_module(Call.m, ImportedModule)
          /\ UNCHANGED <<buildVars, phase, why, at, entry, exitVars>>
     ELSE Fails("file") /\ UNCHANGED <<libs, handles>>

ResolveImport ==
  /\ AtRecord("import") /\ Target # 0
  /\ LET i == find_symbol(Target, ImportedName, KindName(Call.m, Record))
     IN  IF i = 0 THEN Fails("symbol") /\ UNCHANGED <<libs, handles>>
         ELSE /\ mods' = [mods EXCEPT ![Call.m].recs[Call.i].fixup = <<Target, i>>]
              /\ NextRecord
              /\ UNCHANGED <<buildVars, phase, why, at, entry, exitVars>>

LibName == Name(Call.m, Record.lib)
SymbolName == Name(Call.m, Record.symbol)

(* The reference count is raised before the symbol is looked up.           *)
ResolveDynamic ==
  /\ AtRecord("extern") /\ Record.link = "dynamic"
  /\ IF ~Libs!CanOpen(LibName) THEN Fails("library") /\ UNCHANGED <<libs, handles>>
     ELSE /\ Libs!dynamic_open(LibName)
          /\ IF Libs!HasSymbol(LibName, SymbolName)
             THEN /\ symbols' = symbols \cup {<<Call.m, Call.i, Libs!LibOf(LibName)>>}
                  /\ NextRecord
                  /\ UNCHANGED <<buildVars, phase, why, mods, at, entry, fixed>>
             ELSE Fails("library")

ResolveStatic ==
  /\ AtRecord("extern") /\ Record.link # "dynamic"
  /\ IF Record.link = "static" /\ ~Libs!load_static_symbol(SymbolName, LibName)
     THEN Fails("library") /\ UNCHANGED <<libs, handles>>
     ELSE NextRecord /\ UNCHANGED <<buildVars, phase, why, mods, at, entry, exitVars>>

SkipRecord ==
  /\ phase = "loading" /\ Call.i <= Len(mods[Call.m].recs)
  /\ Record.rec \notin {"import", "extern"}
  /\ LET recs == mods[Call.m].recs
         rest == {j \in Call.i .. Len(recs) : recs[j].rec \in {"import", "extern"}}
     IN  calls' = [calls EXCEPT ![Len(calls)].i = Min(rest \cup {Len(recs) + 1})]
  /\ UNCHANGED <<buildVars, phase, why, mods, at, entry, exitVars>>

(* read_module returns: to the import that it was called for, or, of the   *)
(* main module, to load_module, which goes round the ring.                 *)
ReadReturns ==
  /\ phase = "loading" /\ Call.i > Len(mods[Call.m].recs)
  /\ calls' = IF Len(calls) = 1 THEN <<>>
              ELSE [Front(calls) EXCEPT ![Len(calls) - 1].got = Call.m]
  /\ phase' = IF Len(calls) = 1 THEN "resolving" ELSE "loading"
  /\ UNCHANGED <<buildVars, why, mods, at, entry, exitVars>>

-----------------------------------------------------------------------------
(* resolve_code: every instruction that names a record.                    *)
Code == mods[at.m].recs[at.i].code
Instruction == Code[at.k]
Named == <<at.m, Instruction.idx>>
Reached == IF at.ptr = NoPtr THEN Named ELSE at.ptr

AtCode == phase = "resolving" /\ at.i <= Len(mods[at.m].recs)
              /\ mods[at.m].recs[at.i].rec = "code"
AtInstruction == AtCode /\ at.k <= Len(Code)

RecKind(op) ==
  CASE op \in {"PUSHCODE", "ENTERCODE"} -> "value"
    [] op = "CALL"                      -> "extern"
    [] op = "PUSHBYTES"                 -> "bytes"
    [] OTHER                            -> "con"

(* Three of the instructions on constructors compare their size with the   *)
(* constructor that was loaded, a call its arguments with the type.        *)
SizeMatches(in, p) ==
  CASE in.op \in {"ALLOCCON", "RETURNCON"} -> Rec(p).arity = in.arity
    [] in.op = "CALL" -> mods[p[1]].recs[Rec(p).type].args = in.arity
    [] OTHER          -> TRUE

(* resolve_index: one step along a chain of imports.  The chain is         *)
(* circular when it is back at the record that the instruction names.      *)
CircularNever(p) == FALSE   \* mutant
Circular(p) == Rec(p).fixup = Named

FollowImport ==
  /\ AtInstruction /\ Rec(Reached).rec = "import"
  /\ IF Circular(Reached) THEN Fails("circular") /\ UNCHANGED <<libs, handles>>
     ELSE /\ at' = [at EXCEPT !.ptr = Rec(Reached).fixup]
          /\ UNCHANGED <<buildVars, phase, why, mods, calls, entry, exitVars>>

Resolved(in, p) ==
  [in EXCEPT !.ptr = p,
             !.op  = IF @ = "PUSHCODE" /\ Rec(p).arity = 0 THEN "PUSHCAF" ELSE @]

ResolveInstruction ==
  /\ AtInstruction /\ Rec(Reached).rec # "import"
  /\ IF Rec(Reached).rec # RecKind(Instruction.op)
     THEN Fails("kind") /\ UNCHANGED <<libs, handles>>
     ELSE IF ~SizeMatches(Instruction, Reached)
     THEN Fails("size") /\ UNCHANGED <<libs, handles>>
     ELSE /\ mods' = [mods EXCEPT ![at.m].recs[at.i].code[at.k] = Resolved(@, Reached)]
          /\ at' = [at EXCEPT !.k = @ + 1, !.ptr = NoPtr]
          /\ UNCHANGED <<buildVars, phase, why, calls, entry, exitVars>>

NextCode ==
  /\ phase = "resolving" /\ ~AtInstruction
  /\ LET recs == mods[at.m].recs
         rest == {j \in at.i + 1 .. Len(recs) : recs[j].rec = "code"}
         Begin(m, i) == [m |-> m, i |-> i, k |-> 1, ptr |-> NoPtr]
     IN  IF rest # {} THEN at' = Begin(at.m, Min(rest)) /\ UNCHANGED phase
         ELSE IF mods[at.m].next # 1 THEN at' = Begin(mods[at.m].next, 1) /\ UNCHANGED phase
         ELSE phase' = "loaded" /\ UNCHANGED at
  /\ UNCHANGED <<buildVars, why, mods, calls, entry, exitVars>>

-----------------------------------------------------------------------------
(* start_module: find_code looks for a value of the main module, not for   *)
(* one that it imports, and not at the public flag.                        *)
find_code(m, name) ==
  LET found == {i \in DOMAIN mods[m].recs : /\ mods[m].recs[i].rec = "value"
                                            /\ Name(m, mods[m].recs[i].name) = name}
  IN  IF found = {} THEN NoPtr ELSE <<m, Min(found)>>

Start ==
  /\ phase = "loaded"
  /\ LET code == IF find_code(1, "main$") # NoPtr THEN find_code(1, "main$")
                 ELSE find_code(1, "main")
     IN  IF code = NoPtr THEN Fails("main") /\ UNCHANGED <<libs, handles>>
         ELSE /\ entry' = code /\ phase' = "running"
              /\ UNCHANGED <<buildVars, why, mods, calls, at, exitVars>>

(* done_gc: two collections.  The records stay roots until the block that  *)
(* owns them is finalised, and what they refer to is marked up to then.    *)
(* The module may be marked already, when a collection is in progress.     *)
FirstCollection ==
  /\ phase = "running" /\ phase' = "collected"
  /\ \E marked \in BOOLEAN : fixed' = marked
  /\ UNCHANGED <<buildVars, why, linkVars, symbols, libs, handles>>

SecondCollection ==
  /\ phase = "collected"
  /\ IF ~fixed /\ symbols # {}
     THEN \E s \in symbols : /\ Libs!dynamic_release(s[3])
                             /\ symbols' = symbols \ {s}
                             /\ UNCHANGED <<phase, fixed>>
     ELSE phase' = "closing" /\ fixed' = FALSE /\ UNCHANGED <<symbols, libs, handles>>
  /\ UNCHANGED <<buildVars, why, linkVars>>

(* done_dynamic closes what is left. *)
DoneDynamic ==
  /\ phase = "closing"
  /\ IF libs = <<>> THEN phase' = "done" /\ UNCHANGED <<libs, handles>>
     ELSE Libs!dynamic_close(1) /\ UNCHANGED phase
  /\ UNCHANGED <<buildVars, why, linkVars, symbols, fixed>>

-----------------------------------------------------------------------------
LinkInit ==
  /\ FilesOK
  /\ phase = "building" /\ why = NoName
  /\ mods = <<>> /\ calls = <<>>
  /\ at = [m |-> 1, i |-> 1, k |-> 1, ptr |-> NoPtr]
  /\ entry = NoPtr /\ symbols = {} /\ fixed = TRUE
  /\ Libs!DynInit

Load ==
  \/ LoadImported \/ ResolveImport \/ ResolveDynamic \/ ResolveStatic \/ SkipRecord
  \/ ReadReturns \/ FollowImport \/ ResolveInstruction \/ NextCode \/ Start
Exit == FirstCollection \/ SecondCollection \/ DoneDynamic

(* Whoever writes files leaves files as above.                             *)
WriteFiles ==
  /\ phase = "building" /\ FilesOK'
  /\ UNCHANGED <<phase, why, linkVars, exitVars>>

LinkNext == WriteFiles \/ StartModule(Modules[1]) \/ Load \/ Exit
LinkSpec == LinkInit /\ [][LinkNext]_vars

-----------------------------------------------------------------------------
ValueRecords(m) == {i \in DOMAIN mods[m].recs : mods[m].recs[i].rec = "value"}
CodeOf(m, i) == mods[m].recs[mods[m].recs[i].code].code
Instructions == UNION {{c[k] : k \in DOMAIN c} :
                       c \in UNION {{CodeOf(m, i) : i \in ValueRecords(m)} : m \in DOMAIN mods}}

-----------------------------------------------------------------------------
(* The files are as above and the variables have their types; a call of resolve_external_records is   *)
(* at a record of a loaded module, or just behind the last one.            *)
TypeOK ==
  /\ FilesOK
  /\ phase \in {"building", "loading", "resolving", "loaded", "running", "collected",
                "closing", "done", "failed"}
  /\ why \in {NoName, "file", "symbol", "library", "circular", "kind", "size", "main"}
  /\ \A m \in DOMAIN mods : mods[m].next \in DOMAIN mods
  /\ \A c \in ToSet(calls) : c.m \in DOMAIN mods /\ c.i \in 1 .. Len(mods[c.m].recs) + 1
  /\ fixed \in BOOLEAN /\ handles \in [DOMAIN Exported -> Nat]

(* No code runs before every import of every loaded module has a fixup and *)
(* every instruction its pointer: the ring that load_module goes round     *)
(* misses no module that was linked into it while it was read.             *)
NothingUnresolved ==
  phase \in {"loaded", "running"} =>
    /\ \A in \in Instructions : in.ptr # NoPtr
    /\ \A m \in DOMAIN mods : \A r \in ToSet(mods[m].recs) :
         r.rec = "import" => r.fixup # NoPtr

(* Modules that import each other are loaded once (find_module), so that   *)
(* there is one block for each constant of the program.                    *)
OneCopy ==
  /\ \A m, n \in DOMAIN mods : Module_name(m) = Module_name(n) => m = n
  /\ \A m \in DOMAIN mods : ToSet(Ring(m)) = DOMAIN mods

(* Both at once: every module that is reached is read once, however the    *)
(* imports go round, and resolved completely, and the ring is closed       *)
(* (load_module, find_module).                                             *)
LinkedOnce == TypeOK /\ NothingUnresolved /\ OneCopy

(* A library is open as long as a symbol of it lives, and is counted once  *)
(* for each; it is opened once, whatever names it is loaded by             *)
(* (dynamic_open), and closed at the end (done_dynamic).                   *)
SymbolsCounted ==
  /\ phase \notin {"failed", "closing", "done"} =>
       \A i \in DOMAIN libs :
         libs[i].refcount = Cardinality({s \in symbols : s[3] = libs[i].path})
  /\ phase \notin {"closing", "done"} => \A s \in symbols : handles[s[3]] = 1
  /\ \A p \in DOMAIN handles : handles[p] <= IF phase = "done" THEN 0 ELSE 1
=============================================================================

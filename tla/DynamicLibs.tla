---------------------------- MODULE DynamicLibs ----------------------------
(***************************************************************************)
(* The dynamic libraries of the runtime (core/dynamic.c) and the tables it *)
(* finds external functions in.                                            *)
(*                                                                         *)
(* libs is the list dynamic_libs, handles the number of times each library *)
(* is open in the operating system.  A symbol is a custom block that keeps *)
(* its library open until it is finalised.                                 *)
(***************************************************************************)
EXTENDS Integers, SequencesExt

CONSTANTS
  Primitives,   \* the names of the functions inside the runtime
  LibPath,      \* for each name of a library that can be found, its path
  Exported      \* for each path of a library that can be opened, its functions

VARIABLES libs, handles
dynVars == <<libs, handles>>

DynInit == libs = <<>> /\ handles = [p \in DOMAIN Exported |-> 0]

(* searchpath_dll: the name itself when nothing is found. *)
PathOf(name) == IF name \in DOMAIN LibPath THEN LibPath[name] ELSE name

(* First by name, then, when it is found on the search path, by path.      *)
OpenByName(name) == {i \in DOMAIN libs : libs[i].name = name}
OpenByPath(name) == IF name \in DOMAIN LibPath
                    THEN {i \in DOMAIN libs : libs[i].path = LibPath[name]} ELSE {}
AlreadyOpen(name) == IF OpenByName(name) # {} THEN OpenByName(name) ELSE OpenByPath(name)

CountedNot(ls, i) == ls   \* mutant
Counted(ls, i) == [ls EXCEPT ![i].refcount = @ + 1]

dynamic_open(name) ==
  IF AlreadyOpen(name) # {}
  THEN libs' = Counted(libs, Min(AlreadyOpen(name))) /\ UNCHANGED handles
  ELSE /\ libs' = <<[name |-> name, path |-> PathOf(name), refcount |-> 1]>> \o libs
       /\ handles' = [handles EXCEPT ![PathOf(name)] = @ + 1]

CanOpen(name) == AlreadyOpen(name) # {} \/ PathOf(name) \in DOMAIN Exported

(* The library that dynamic_open returns. *)
LibOf(name) == IF AlreadyOpen(name) # {} THEN libs[Min(AlreadyOpen(name))].path ELSE PathOf(name)

HasSymbol(name, symbol) == symbol \in Exported[LibOf(name)]

dynamic_close(i) ==
  /\ libs' = RemoveAt(libs, i)
  /\ handles' = [handles EXCEPT ![libs[i].path] = @ - 1]

(* The finaliser of a symbol. *)
dynamic_release(path) ==
  LET i == CHOOSE i \in DOMAIN libs : libs[i].path = path
  IN  IF libs[i].refcount > 1
      THEN libs' = [libs EXCEPT ![i].refcount = @ - 1] /\ UNCHANGED handles
      ELSE dynamic_close(i)

load_static_symbol(name, lib) == lib = "" /\ name \in Primitives
=============================================================================

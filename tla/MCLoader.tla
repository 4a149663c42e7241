------------------------------ MODULE MCLoader ------------------------------
(***************************************************************************)
(* Projects of three modules: import lists with renaming, modules and      *)
(* types that are exported as a whole, modules that import each other,     *)
(* circular abstract declarations, an edit of a module that others have    *)
(* been compiled against, externs of each sort.                            *)
(***************************************************************************)
EXTENDS Loader

MCModules == <<"Main", "A", "B">>
MCPrimitives == {"prim"}
MCLibPath == "m" :> "libm" @@ "libm" :> "libm"
MCExported == "libm" :> {"sin", "cos"} @@ "other" :> {"f"}

Ref(x) == [ref |-> "value", name |-> x, op |-> NoName]
TailCall(x) == [ref |-> "value", name |-> x, op |-> "call"]
Built(op, x) == [ref |-> "con", name |-> x, op |-> op]
Str == [ref |-> "bytes", name |-> NoName, op |-> NoName]
Item(kind, x) == [kind |-> kind, name |-> x]
Private(exports, ds) == [exports |-> exports, decls |-> ds]
Public(ds) == [exports |-> <<>>, decls |-> [i \in DOMAIN ds |-> [ds[i] EXCEPT !.public = TRUE]]]

Main(ds) == Private(<<Item("value", "main")>>, ds)
Project(m, a, b) == "Main" :> m @@ "A" :> a @@ "B" :> b

(* A passes on all of B; the constructor changes its size. *)
List(arity, tag) ==
  Private(<<Item("typeall", "T"), Item("value", "f")>>,
          <<Data("T"), Con("T", "T", arity, tag), Value("dead", 0, <<Str>>),
            Value("f", 1, <<Built("ALLOCCON", "T"), Str, Ref("g")>>),
            [Value("g", 0, <<Built("NEWCON", "T")>>) EXCEPT !.enc = "f"]>>)
Passed(op) ==
  Project(<<Main(<<Value("main", 0, <<Ref("h"), Built(op, "C")>>),
                   Import("C", "A", "T", "con"), Import("h", "A", "f", "value")>>),
            Main(<<Import("g", "B", "g", "value"), Value("main", 0, <<Ref("g")>>)>>)>>,
          <<Private(<<Item("module", "B"), Item("value", "h")>>,
                    <<ImportModule("B"), Value("h", 1, <<TailCall("f"), Built("RETURNCON", "T")>>)>>)>>,
          <<List(1, 0), List(2, 1)>>)

(* A and B use each other. *)
Mutual ==
  Project(<<Main(<<Import("f", "A", "f", "value"), Value("main", 0, <<TailCall("f")>>)>>
                 \o ImportData("B", "T", <<"T">>))>>,
          <<Public(<<AbstractValue("g", "B", "g", 2), Value("f", 1, <<TailCall("g"), Ref("f")>>)>>)>>,
          <<Public(<<AbstractValue("f", "A", "f", 1), Value("g", 2, <<Ref("f"), TailCall("k")>>),
                     Value("k", 0, <<Built("MATCHCON", "T")>>), Data("T"),
                     Con("T", "T", 0, 3)>>)>>)

(* A function moves to another module; then it is gone. *)
Moves ==
  Project(<<Main(<<AbstractValue("f", "A", "f", 1), Value("main", 0, <<TailCall("f")>>)>>),
            Main(<<Import("f", "A", "f", "value"), Value("main", 0, <<TailCall("f")>>)>>)>>,
          <<Public(<<Value("f", 1, <<>>)>>),
            Private(<<Item("value", "f")>>, <<Import("f", "B", "f", "value")>>),
            Public(<<Value("f1", 1, <<>>)>>)>>,
          <<Public(<<Value("f", 0, <<>>)>>)>>)

(* x stands for itself. *)
CircularFrom(d) ==
  Project(<<Main(<<d, Value("main", 0, <<Ref(d.name)>>)>>)>>,
          <<Private(<<Item("value", "x"), Item("value", "f")>>,
                    <<AbstractValue("x", "B", "x", 0), Value("f", 0, <<Ref("x")>>)>>)>>,
          <<Private(<<Item("value", "x")>>, <<AbstractValue("x", "A", "x", 0)>>)>>)

(* Externs: of two names of a library, of the runtime, an instruction; one *)
(* that is not there; one that is imported.                                *)
Externs(x, lib) ==
  Project(<<Main(<<Extern("sin", 1, "dynamic", "c", "m"), Import("c", "A", "c", "value"),
                   Value("main", 0, <<Ref("sin"), Ref("c")>>)>>)>>,
          <<Private(<<Item("value", "c")>>,
                    <<Extern("cos", 1, "dynamic", "c", "libm"), Extern("add", 2, "static", "instr", ""),
                      Extern("prim", 1, "static", "c", ""), Extern("late", 1, "runtime", "c", ""),
                      Value("c", 0, <<Ref("cos"), Ref("add"), Ref("prim"), Ref("late"), Ref("b")>>),
                      Import("b", "B", "b", "value")>>)>>,
          <<Private(<<Item("value", "b"), Item("value", x)>>,
                    <<Value("b", 0, <<Ref(x)>>),
                      Extern(x, 1, IF lib = "" THEN "static" ELSE "dynamic", "c", lib)>>)>>)

(* No main: it is imported. *)
NoMain ==
  Project(<<Private(<<Item("value", "main"), Item("value", "sin")>>,
                    <<Import("main", "A", "main", "value"), ImportModule("B")>>),
            Private(<<>>, <<ImportModule("B"), Value("main", 0, <<Ref("sin")>>)>>)>>,
          <<Public(<<Value("main", 0, <<>>)>>)>>,
          <<Private(<<Item("value", "sin")>>, <<Extern("sin", 1, "dynamic", "c", "m")>>)>>)

(* A and B have nothing to do with each other. *)
Apart ==
  Project(<<Main(<<Import("h", "A", "f", "value"), Import("b", "B", "b", "value"),
                   Value("main", 0, <<TailCall("h"), Ref("b")>>)>>)>>,
          <<Public(<<Value("f", 1, <<Ref("h")>>), Value("h", 1, <<Str>>)>>)>>,
          <<Public(<<Value("b", 0, <<Str>>)>>)>>)

MCProjects ==
  {Apart, Passed("NEWCON"), Passed("ALLOCCON"), Mutual, Moves, NoMain,
   CircularFrom(AbstractValue("f", "A", "f", 0)),
   Externs("f", "other"), Externs("f", "m"), Externs("f", "none"), Externs("f", "")}

(* The chain leads into a circle that the main module is not part of. *)
RhoProjects == {CircularFrom(AbstractValue("x", "A", "x", 0))}
=============================================================================

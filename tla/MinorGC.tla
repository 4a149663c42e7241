------------------------------- MODULE MinorGC -------------------------------
(***************************************************************************)
(* The young generation: allocation and the write barrier                 *)
(* (heap/heapfast.h), the table of references from the major heap, and    *)
(* the minor collection that promotes what is alive (heap/minor_gc.c).    *)
(*                                                                         *)
(* A block is the address of its first word in the young area,            *)
(* 1 .. young_end - 1, or one of the blocks Old of the major heap, which  *)
(* FreeList hands out.  A cell is a field <<b, i>>, or the field          *)
(* <<r, 0>> of a root r: a word of a thread stack, a local or global C    *)
(* root, a word of a fixed block.  They are all written without a barrier *)
(* and all scanned.                                                       *)
(*                                                                         *)
(* A collection is one step for every call of oldify_one and for every    *)
(* turn of its tail call; nothing else runs in between.                   *)
(***************************************************************************)
EXTENDS Integers, Sequences, FiniteSets

CONSTANTS
  YoungMax,      \* words of the largest young area
  MinorSizes,    \* the sizes that set_minor_heap_size may give it
  Old,           \* blocks of the major heap: numbers above YoungMax
  Roots,         \* root cells: a sequence of negative numbers
  NF,            \* fields of the largest block
  YoungLimits,   \* Max_young_wosize: a larger block is not allocated in the young area
  Reserve,       \* ref_table_reserve
  MaxRefs,       \* bound: entries of the reference table
  MaxSteps,      \* bound: steps of the mutator in a behaviour
  Bytes,         \* what the words of a string may look like
  Unbarriered,   \* are there large applications, that NEWAP fills with plain stores?
  Link           \* a link of the to-do list, in the place of a value

ASSUME YoungAssumption ==
  /\ YoungMax \in Nat /\ MinorSizes \subseteq 1 .. YoungMax /\ MinorSizes # {}
  /\ NF \in Nat \ {0} /\ YoungLimits \subseteq 0 .. NF
  /\ \A n \in MinorSizes, m \in YoungLimits : n > m
ASSUME OldAssumption   == IsFiniteSet(Old) /\ Old \subseteq Int /\ \A b \in Old : b > YoungMax
ASSUME RootsAssumption == Roots \in Seq(Int) /\ \A k \in 1 .. Len(Roots) : Roots[k] < 0
ASSUME TableAssumption == Reserve \in Nat \ {0} /\ {MaxRefs, MaxSteps} \subseteq Nat /\ Unbarriered \in BOOLEAN

Young == 1 .. YoungMax
Imm   == 0                         \* an immediate value, or a block outside the heap
Root  == {Roots[k] : k \in 1 .. Len(Roots)}
Cell  == ((Young \cup Old) \X (0 .. NF - 1)) \cup (Root \X {0})
Value == {Imm} \cup Young \cup Old

ASSUME BytesAssumption == Bytes \subseteq Value /\ Link \notin Value

VARIABLES
  max_young,   \* the one of YoungLimits that the runtime has been built with
  hd,          \* headers: Free, Forwarded, or a size and a kind
  field,       \* the contents of the cells
  young_end,   \* the first word behind the young area
  young_ptr,   \* the words young_ptr .. young_end - 1 are in use
  ref_table, ref_table_size, ref_table_limit,
  force_major_slice,
  pc,          \* where in minor_collection the program is
  k,           \* the index of the loop there
  work,        \* the block whose copy oldify_mopup completes, Imm for none
  call,        \* the arguments of oldify_one
  todo,        \* oldify_todo_list, which is linked through the copies
  before,      \* auxiliary: the heap when the collection began
  steps        \* auxiliary: counts the steps of the mutator

area      == <<max_young, young_end>>
tableVars == <<ref_table, ref_table_size, ref_table_limit>>
callVars  == <<pc, k, work, call, todo, before>>
gcVars    == <<callVars, steps>>
vars == <<hd, field, area, young_ptr, tableVars, force_major_slice, gcVars>>

Free      == [size |-> 0, kind |-> "free"]
Forwarded == [size |-> 0, kind |-> "forwarded"]    \* the header 0
\* tags below Infix_tag, Forward_tag, from No_scan_tag on
Kinds   == {"scan", "ind", "raw"}
Header  == [size: 1 .. NF, kind: Kinds] \cup {Free, Forwarded}
NoCall  == <<>>

IsYoung(v) == v \in Young
Used       == {b \in Young \cup Old : hd[b] # Free}
Indices(b) == 0 .. hd[b].size - 1
TableSize(n) == n \div 8 + 1    \* the code divides a size that is never so small

-----------------------------------------------------------------------------
\* init_gc and set_minor_heap_size
Init ==
  /\ max_young \in YoungLimits
  /\ hd = [b \in Young \cup Old |-> Free]
  /\ field = [c \in Cell |-> Imm]
  /\ young_end \in {n + 1 : n \in MinorSizes}
  /\ young_ptr = young_end
  /\ ref_table = <<>>
  /\ ref_table_size = TableSize(young_end - 1)
  /\ ref_table_limit = ref_table_size
  /\ force_major_slice = FALSE
  /\ pc = "mutator" /\ k = 0 /\ work = Imm /\ call = NoCall /\ todo = <<>>
  /\ before = <<>> /\ steps = 0

\* minor_collection has emptied the young area; a new one, and a new table
SetMinorHeapSize ==
  /\ pc = "mutator" /\ young_ptr = young_end
  /\ \E n \in MinorSizes :
       /\ young_end' = n + 1
       /\ young_ptr' = young_end'
       /\ ref_table_size' = TableSize(n)
       /\ ref_table_limit' = ref_table_size'
  /\ ref_table' = <<>>
  /\ UNCHANGED <<max_young, hd, field, force_major_slice, gcVars>>

-----------------------------------------------------------------------------
(* The write barrier.  A table is [refs, size, limit, urge].                *)

Table == [refs |-> ref_table, size |-> ref_table_size, limit |-> ref_table_limit,
          urge |-> force_major_slice]

\* mutant: the table goes on up to its end, and nobody is urged to collect
ReallocNoUrge(t) ==
  IF t.limit = t.size THEN [t EXCEPT !.limit = t.size + Reserve]
  ELSE [t EXCEPT !.size = 2 * t.size, !.limit = 2 * t.size + Reserve]

\* At the threshold, the reserve is used and a collection is urged; at the end of
\* the reserve the table grows.
realloc_ref_table(t) ==
  IF t.limit = t.size
  THEN [t EXCEPT !.limit = t.size + Reserve, !.urge = TRUE]
  ELSE [t EXCEPT !.size = 2 * t.size, !.limit = 2 * t.size + Reserve]

\* mutant: a cell is entered when its old value is not a block at all
EnterFirst(t, c, old, v) ==
  IF c[1] \in Old /\ IsYoung(v) /\ old = Imm
  THEN LET u == [t EXCEPT !.refs = Append(@, c)]
       IN IF Len(u.refs) >= u.limit THEN realloc_ref_table(u) ELSE u
  ELSE t

\* The second half of Modify (and all of Initialize, where the old value is
\* not a young block): c, which held old, is given v.
Enter(t, c, old, v) ==
  IF c[1] \in Old /\ IsYoung(v) /\ ~IsYoung(old)
  THEN LET u == [t EXCEPT !.refs = Append(@, c)]
       IN IF Len(u.refs) >= u.limit THEN realloc_ref_table(u) ELSE u
  ELSE t

\* vs[i + 1] is stored in field i of b, one after the other.
EnterAll(t, b, vs) ==
  LET entered[i \in 0 .. Len(vs)] ==
        IF i = 0 THEN t
        ELSE Enter(entered[i - 1], <<b, i - 1>>, field[<<b, i - 1>>], vs[i])
  IN entered[Len(vs)]

SetTable(t) ==
  /\ Len(t.refs) <= MaxRefs
  /\ ref_table' = t.refs /\ ref_table_size' = t.size
  /\ ref_table_limit' = t.limit /\ force_major_slice' = t.urge

\* what the cells of b become: the words vs, and nothing behind them
Filled(f, b, vs) ==
  [c \in Cell |-> IF c[1] # b THEN f[c]
                  ELSE IF c[2] < Len(vs) THEN vs[c[2] + 1] ELSE Imm]

-----------------------------------------------------------------------------
(* The mutator: the evaluator and the primitives                            *)

Held    == {field[<<r, 0>>] : r \in Root}
Mutates == pc = "mutator" /\ steps < MaxSteps /\ steps' = steps + 1

\* the blocks that the program has at hand
HeldBlock == Held \ {Imm}

\* the block that fl_allocate finds
NextFree == CHOOSE b \in Old : hd[b] = Free

\* Everything that may have to be promoted has room in the major heap (a bound:
\* the code ends with a fatal error when it has not).
Room(n) ==
  Cardinality({b \in Young : hd[b] # Free}) + n <= Cardinality({b \in Old : hd[b] = Free})

Contents(n, kind) == IF kind = "raw" THEN [1 .. n -> Bytes] ELSE [1 .. n -> Held \cup {Imm}]

\* Alloc_small, and the plain stores that fill the block
AllocSmall ==
  /\ Mutates
  /\ \E n \in 1 .. max_young, kind \in {"scan", "raw"}, r \in Root :
       /\ young_ptr - (n + 1) >= 1     \* young_limit; else Garbage_collection_function
       /\ Room(1)
       /\ young_ptr' = young_ptr - (n + 1)
       /\ hd' = [hd EXCEPT ![young_ptr'] = [size |-> n, kind |-> kind]]
       /\ \E vs \in Contents(n, kind) :
            field' = [Filled(field, young_ptr', vs) EXCEPT ![<<r, 0>>] = young_ptr']
  /\ UNCHANGED <<area, tableVars, force_major_slice, callVars>>

\* Alloc_large: the fields are given their values by Initialize (alloc.c, ALLOC) or,
\* in NEWAP and NEWNAP, by plain stores.  alloc_shr urges a slice now and then.
AllocLarge ==
  /\ Mutates
  /\ \E n \in max_young + 1 .. NF, r \in Root, barrier \in {TRUE, ~Unbarriered} :
       /\ Room(1)
       /\ hd' = [hd EXCEPT ![NextFree] = [size |-> n, kind |-> "scan"]]
       /\ \E vs \in Contents(n, "scan"), urge \in BOOLEAN :
            LET t == IF barrier THEN EnterAll(Table, NextFree, vs) ELSE Table
            IN /\ field' = [Filled(field, NextFree, vs) EXCEPT ![<<r, 0>>] = NextFree]
               /\ SetTable([t EXCEPT !.urge = @ \/ urge])
  /\ UNCHANGED <<area, young_ptr, callVars>>

\* a word is pushed, popped, or loaded from a field
Load ==
  /\ Mutates
  /\ LET loaded(b) == {field[<<b, i>>] : i \in Indices(b)}
         scanned   == {b \in HeldBlock : hd[b].kind # "raw"}
     IN \E r \in Root, v \in Held \cup {Imm} \cup UNION {loaded(b) : b \in scanned} :
          field' = [field EXCEPT ![<<r, 0>>] = v]
  /\ UNCHANGED <<hd, area, young_ptr, tableVars, force_major_slice, callVars>>

Modify ==
  /\ Mutates
  /\ \E b \in HeldBlock, v \in Held \cup {Imm} :
       /\ hd[b].kind = "scan"
       /\ \E i \in Indices(b) :
            /\ field' = [field EXCEPT ![<<b, i>>] = v]
            /\ SetTable(Enter(Table, <<b, i>>, field[<<b, i>>], v))
  /\ UNCHANGED <<hd, area, young_ptr, callVars>>

\* Indirect: Store_field, then Truncate to one field.  Not to itself: the
\* evaluator finds a thunk that needs itself blackholed.
Indirect ==
  /\ Mutates
  /\ \E b \in HeldBlock, v \in Held \cup {Imm} :
       /\ hd[b].kind = "scan" /\ v # b
       /\ v # Imm => hd[v].kind # "ind"
       /\ hd' = [hd EXCEPT ![b] = [size |-> 1, kind |-> "ind"]]
       /\ field' = Filled(field, b, <<v>>)
       /\ SetTable(Enter(Table, <<b, 0>>, field[<<b, 0>>], v))
  /\ UNCHANGED <<area, young_ptr, callVars>>

\* Update of b by a value w that fits: Downsize, then Store_field for every field
\* -- also when these are the bytes of a string
UpdateInPlace ==
  /\ Mutates
  /\ \E b \in HeldBlock, w \in HeldBlock :
       /\ hd[b].kind = "scan" /\ w # b
       /\ hd[w].kind \in {"scan", "raw"} /\ hd[w].size <= hd[b].size
       /\ hd' = [hd EXCEPT ![b] = hd[w]]
       /\ LET vs == [i \in 1 .. hd[w].size |-> field[<<w, i - 1>>]]
          IN /\ field' = Filled(field, b, vs)
             /\ SetTable(EnterAll(Table, b, vs))
  /\ UNCHANGED <<area, young_ptr, callVars>>

Mutator == AllocSmall \/ AllocLarge \/ Load \/ Modify \/ Indirect \/ UpdateInPlace

-----------------------------------------------------------------------------
(* minor_collection: called when the young area is full, from               *)
(* check_urgent_gc, and by the handler of Sig_gc                            *)

StartCollection ==
  /\ pc = "mutator" /\ young_ptr # young_end
  /\ pc' = "roots" /\ k' = 1
  /\ before' = [hd |-> hd, field |-> field]
  /\ UNCHANGED <<hd, field, area, young_ptr, tableVars, force_major_slice, work, call, todo, steps>>

mutatorVars == <<area, young_ptr, tableVars, force_major_slice, before, steps>>

\* oldify_local_roots
ScanRoot ==
  /\ pc = "roots" /\ call = NoCall
  /\ \/ /\ k <= Len(Roots)
        /\ call' = <<field[<<Roots[k], 0>>], <<Roots[k], 0>>>>
        /\ k' = k + 1 /\ UNCHANGED pc
     \/ /\ k > Len(Roots)
        /\ pc' = "refs" /\ k' = 1 /\ UNCHANGED call
  /\ UNCHANGED <<hd, field, mutatorVars, work, todo>>

\* the loop over ref_table in empty_minor_heap
ScanRef ==
  /\ pc = "refs" /\ call = NoCall
  /\ \/ /\ k <= Len(ref_table)
        /\ call' = <<field[ref_table[k]], ref_table[k]>>
        /\ k' = k + 1 /\ UNCHANGED pc
     \/ /\ k > Len(ref_table)
        /\ pc' = "mopup" /\ k' = 0 /\ UNCHANGED call
  /\ UNCHANGED <<hd, field, mutatorVars, work, todo>>

\* mutant: the list is not advanced
TakeTodoAgain ==
  /\ pc = "mopup" /\ call = NoCall /\ work = Imm
  /\ \/ /\ todo # <<>>
        /\ work' = Head(todo) /\ k' = 0 /\ UNCHANGED <<todo, pc>>
     \/ /\ todo = <<>>
        /\ pc' = "emptied" /\ UNCHANGED <<work, todo, k>>
  /\ UNCHANGED <<hd, field, mutatorVars, call>>

\* oldify_mopup takes the first block off the list, before its copy is completed
TakeTodo ==
  /\ pc = "mopup" /\ call = NoCall /\ work = Imm
  /\ \/ /\ todo # <<>>
        /\ work' = Head(todo) /\ todo' = Tail(todo) /\ k' = 0 /\ UNCHANGED pc
     \/ /\ todo = <<>>
        /\ pc' = "emptied" /\ UNCHANGED <<work, todo, k>>
  /\ UNCHANGED <<hd, field, mutatorVars, call>>

\* mutant: the first field is taken for the one that holds the forward pointer
CompleteFieldAll ==
  /\ pc = "mopup" /\ call = NoCall /\ work # Imm
  /\ LET copy == field[<<work, 0>>]
         f    == field[<<work, k>>]
     IN /\ \/ /\ IsYoung(f)
              /\ call' = <<f, <<copy, k>>>> /\ UNCHANGED field
           \/ /\ ~IsYoung(f)
              /\ field' = [field EXCEPT ![<<copy, k>>] = f] /\ UNCHANGED call
        /\ k' = k + 1
        /\ work' = IF k + 1 < hd[copy].size THEN work ELSE Imm
  /\ UNCHANGED <<hd, mutatorVars, pc, todo>>

\* One turn of its loop over the fields.  The first one has been copied already:
\* its place in the block holds the forward pointer.
CompleteField ==
  /\ pc = "mopup" /\ call = NoCall /\ work # Imm
  /\ LET copy == field[<<work, 0>>]
         f    == field[<<IF k = 0 THEN copy ELSE work, k>>]
     IN /\ \/ /\ IsYoung(f)
              /\ call' = <<f, <<copy, k>>>> /\ UNCHANGED field
           \/ /\ ~IsYoung(f)
              /\ field' = [field EXCEPT ![<<copy, k>>] = f] /\ UNCHANGED call
        /\ k' = k + 1
        /\ work' = IF k + 1 < hd[copy].size THEN work ELSE Imm
  /\ UNCHANGED <<hd, mutatorVars, pc, todo>>

-----------------------------------------------------------------------------
(* oldify_one(v, p)                                                         *)

V == call[1]
P == call[2]

\* p is given w, and the call ends
Return(f, w) == field' = [f EXCEPT ![P] = w] /\ call' = NoCall

NotYoung ==
  /\ call # NoCall /\ ~IsYoung(V)
  /\ Return(field, V)
  /\ UNCHANGED <<hd, todo>>

AlreadyForwarded ==
  /\ call # NoCall /\ IsYoung(V) /\ hd[V] = Forwarded
  /\ Return(field, field[<<V, 0>>])
  /\ UNCHANGED <<hd, todo>>

\* A block of several fields: the first one is saved in the copy, the second one of
\* the copy links the to-do list.
Promote ==
  /\ call # NoCall /\ IsYoung(V) /\ hd[V].kind = "scan" /\ hd[V].size > 1
  /\ hd' = [hd EXCEPT ![NextFree] = hd[V], ![V] = Forwarded]
  /\ Return([field EXCEPT ![<<NextFree, 0>>] = field[<<V, 0>>], ![<<NextFree, 1>>] = Link,
                          ![<<V, 0>>] = NextFree],
            NextFree)
  /\ todo' = <<V>> \o todo

\* A block of one field: the call goes on with that field.
PromoteSmall ==
  /\ call # NoCall /\ IsYoung(V) /\ hd[V].kind = "scan" /\ hd[V].size = 1
  /\ hd' = [hd EXCEPT ![NextFree] = hd[V], ![V] = Forwarded]
  /\ field' = [field EXCEPT ![P] = NextFree, ![<<V, 0>>] = NextFree]
  /\ call' = <<field[<<V, 0>>], <<NextFree, 0>>>>
  /\ UNCHANGED todo

PromoteRaw ==
  /\ call # NoCall /\ IsYoung(V) /\ hd[V].kind = "raw"
  /\ hd' = [hd EXCEPT ![NextFree] = hd[V], ![V] = Forwarded]
  /\ LET copied == Filled(field, NextFree, [i \in 1 .. hd[V].size |-> field[<<V, i - 1>>]])
     IN Return([copied EXCEPT ![<<V, 0>>] = NextFree], NextFree)
  /\ UNCHANGED todo

\* mutant: the indirection is skipped and its target taken as it is
FollowOnce ==
  /\ call # NoCall /\ IsYoung(V) /\ hd[V].kind = "ind"
  /\ Return(field, field[<<V, 0>>])
  /\ UNCHANGED <<hd, todo>>

\* An indirection is not copied: the call goes on with what it leads to.
Follow ==
  /\ call # NoCall /\ IsYoung(V) /\ hd[V].kind = "ind"
  /\ call' = <<field[<<V, 0>>], P>>
  /\ UNCHANGED <<hd, field, todo>>

oldify_one ==
  /\ NotYoung \/ AlreadyForwarded \/ Promote \/ PromoteSmall \/ PromoteRaw \/ Follow
  /\ UNCHANGED <<mutatorVars, pc, k, work>>

-----------------------------------------------------------------------------
\* The end of empty_minor_heap: the young area and the table are empty, and the
\* reserve of the table is free again.
EmptyYoung ==
  /\ pc = "emptied"
  /\ hd' = [b \in Young \cup Old |-> IF b \in Young THEN Free ELSE hd[b]]
  /\ field' = [c \in Cell |-> IF IsYoung(c[1]) THEN Imm ELSE field[c]]
  /\ young_ptr' = young_end
  /\ ref_table' = <<>> /\ ref_table_limit' = ref_table_size
  /\ before' = <<>>
  /\ pc' = "slice"
  /\ UNCHANGED <<area, ref_table_size, force_major_slice, k, work, call, todo, steps>>

\* Some set that is closed under references has the roots and not b.
Unreachable(b) ==
  \E S \in SUBSET (Old \ {b}) :
    /\ Held \cap Old \subseteq S
    /\ \A o \in S : hd[o].kind \in {"scan", "ind"}
                    => \A i \in Indices(o) : field[<<o, i>>] \in Old => field[<<o, i>>] \in S

\* major_collection_slice (see MajorGC): some of what the program cannot reach is
\* freed.  The urge is answered.
MajorSlice ==
  /\ pc = "slice"
  /\ \E dead \in SUBSET {b \in Old : hd[b] # Free /\ Unreachable(b)} :
       /\ hd' = [b \in Young \cup Old |-> IF b \in dead THEN Free ELSE hd[b]]
       /\ field' = [c \in Cell |-> IF c[1] \in dead THEN Imm ELSE field[c]]
  /\ force_major_slice' = FALSE
  /\ pc' = "mutator" /\ k' = 0
  /\ UNCHANGED <<area, young_ptr, tableVars, work, call, todo, before, steps>>

Collect == ScanRoot \/ ScanRef \/ TakeTodo \/ CompleteField \/ oldify_one \/ EmptyYoung
           \/ MajorSlice

Next == SetMinorHeapSize \/ Mutator \/ StartCollection \/ Collect

Spec == Init /\ [][Next]_vars

\* minor_collection is a call that goes on until it returns
FairSpec == Spec /\ WF_vars(Collect)

-----------------------------------------------------------------------------
(* Properties                                                               *)

\* Headers, fields and the table hold what minor_gc.c and heapfast.h may put there: only
\* fields of old blocks are entered in the table, and oldify_one is given values.
TypeOK ==
  /\ hd \in [Young \cup Old -> Header]
  /\ field \in [Cell -> Value \cup {Link}]
  /\ max_young \in YoungLimits
  /\ young_end \in {n + 1 : n \in MinorSizes} /\ young_ptr \in 1 .. young_end
  /\ ref_table \in Seq(Old \X (0 .. NF - 1))
  /\ force_major_slice \in BOOLEAN
  /\ pc \in {"mutator", "roots", "refs", "mopup", "emptied", "slice"}
  /\ call # NoCall => V \in Value /\ P \in Cell

\* What the mutator does in any number of steps -- stores of young blocks into old
\* ones, updates in place, indirections, truncations -- leaves no reference from the
\* major heap to the young area that the table does not know.
RefsKnown ==
  pc = "mutator" => \A c \in Cell : c[1] \in Old /\ IsYoung(field[c])
                               => \E i \in DOMAIN ref_table : ref_table[i] = c

\* Asserts in Modify and realloc_ref_table (minor_gc.c 223-234): the pointer stays
\* below the limit, the limit within the memory of the table, and when the reserve
\* is in use a collection has been urged.
TableInBounds ==
  /\ Len(ref_table) < ref_table_limit
  /\ ref_table_limit \in {ref_table_size, ref_table_size + Reserve}
  /\ ref_table_limit > ref_table_size => force_major_slice

\* Once the young area is emptied nothing refers to it: no root, no block of the
\* major heap, promoted or not, and no link of the to-do list is left.
NothingYoung ==
  pc = "slice" => \A c \in Cell : field[c] \in Old \cup {Imm}

\* Assert in oldify_one (minor_gc.c 83): only blocks are promoted that are in use.
PromotesBlocks == call # NoCall /\ IsYoung(V) => V >= young_ptr /\ hd[V] # Free

\* The reference table through Modify, Initialize, Update and a collection that is
\* urged late: nothing is missing from it and nothing is written behind its end
\* (heapfast.h 45-77, minor_gc.c 222-246).
TableSound == RefsKnown /\ TableInBounds

\* The young area is left for good: what is promoted was in use, and afterwards no
\* reference to the area remains (minor_gc.c 74-192).
NoneLeftYoung == NothingYoung /\ PromotesBlocks

\* the block that v led to when the collection began
Behind(v) ==
  LET last[u \in Value] ==
        IF IsYoung(u) /\ before.hd[u].kind = "ind" THEN last[before.field[<<u, 0>>]] ELSE u
  IN last[v]

\* where that is now
Image(v) == IF IsYoung(Behind(v)) THEN field[<<Behind(v), 0>>] ELSE Behind(v)

Promoted == {b \in Young : hd[b] = Forwarded}

\* The collection keeps the heap as it was, but for where the blocks are and for young
\* indirections: roots and old blocks refer to what they referred to, each
\* promoted block has one copy, in a block that was free, with its contents.
HeapPreserved ==
  pc = "emptied" =>
    LET copy(b) == field[<<b, 0>>]
    IN /\ \A c \in Cell :
            \/ c[1] \in Root
            \/ c[1] \in Old /\ before.hd[c[1]].kind \in {"scan", "ind"} /\ c[2] \in Indices(c[1])
            => field[c] = Image(before.field[c])
       /\ \A b \in Old : before.hd[b] # Free => hd[b] = before.hd[b]
       /\ \A b \in Promoted :
            /\ copy(b) \in Old /\ before.hd[copy(b)] = Free /\ hd[copy(b)] = before.hd[b]
            /\ \A i \in Indices(copy(b)) :
                 field[<<copy(b), i>>] = IF before.hd[b].kind = "raw" THEN before.field[<<b, i>>]
                                         ELSE Image(before.field[<<b, i>>])
       /\ \A a, b \in Promoted : copy(a) = copy(b) => a = b

\* A collection ends, also when blocks refer to each other in a circle and through
\* indirections.
CollectionEnds == pc = "roots" ~> pc = "mutator"
=============================================================================

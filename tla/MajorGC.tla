------------------------------- MODULE MajorGC -------------------------------
(***************************************************************************)
(* The incremental mark-and-sweep collector of the major heap             *)
(* (heap/major_gc.c), the write barrier and the allocator that cooperate  *)
(* with it (heap/heapfast.h, heap/memory.c), and the evaluator as a mutator *)
(* that runs between two iterations of a slice.                           *)
(*                                                                         *)
(* A block is a slot 1..N in address order; its contents are NF fields,   *)
(* each a block or NULL (an immediate value or a block outside the heap). *)
(* How free memory is cut into blocks is the business of FreeList.        *)
(*                                                                         *)
(* roots is the set of major blocks the mutator holds: in thread stacks,  *)
(* global, local and fixed-block roots, and in young blocks.  A slice     *)
(* starts with an empty minor heap, so when a cycle starts roots is what  *)
(* darken_all_roots scans.  The set is what the properties need: which    *)
(* stack slot holds a block does not matter to this collector.            *)
(*                                                                         *)
(* The weak list and the finalisation table are empty: no primitive and   *)
(* no other caller in the repository creates an entry.  Their subphases   *)
(* are the steps they then take.                                          *)
(***************************************************************************)
EXTENDS Integers, FiniteSets

CONSTANTS
  N,            \* block slots
  Initial,      \* slots 1..Initial are in the first chunk, the rest absent
  NF,           \* fields of a block
  GraySize,     \* initial gray_vals_size
  GrayLimits    \* stat_heap_size / 128 may be any of these: below it gray_vals grows

ASSUME NAssumption    == N \in Nat \ {0} /\ Initial \in 0 .. N
ASSUME NFAssumption   == NF \in Nat \ {0}
ASSUME GrayAssumption == GraySize \in Nat /\ GraySize >= 2 /\ GrayLimits \subseteq Nat

VARIABLES
  color,         \* header colour; "absent": not in a chunk yet
  fields,        \* the contents of a block
  fwd,           \* the blocks with Forward_tag (= Ind_tag)
  roots,         \* the blocks the mutator holds
  gc_phase, gc_subphase,
  gray_vals,     \* the entries of the mark stack
  gray_size,     \* gray_vals_size
  heap_is_pure,
  markhp,        \* rescan pointer, NoHp when there is none
  gc_sweep_hp,
  toDarken       \* the blocks that the C loop in progress has yet to darken

vars == <<color, fields, fwd, roots, gc_phase, gc_subphase, gray_vals,
          gray_size, heap_is_pure, markhp, gc_sweep_hp, toDarken>>

heapVars  == <<color, fields, fwd>>
stackVars == <<gray_vals, gray_size, heap_is_pure>>
phaseVars == <<gc_phase, gc_subphase, markhp, gc_sweep_hp>>

Block  == 1 .. N
NULL   == 0
NoHp   == 0
Index  == 0 .. NF - 1
Colors == {"absent", "blue", "white", "gray", "black"}

White == {o \in Block : color[o] = "white"}
Gray  == {o \in Block : color[o] = "gray"}
Black == {o \in Block : color[o] = "black"}
Allocated == White \cup Gray \cup Black

Children(o) == {fields[o][i] : i \in Index} \ {NULL}

Init ==
  /\ color = [o \in Block |-> IF o <= Initial THEN "blue" ELSE "absent"]
  /\ fields = [o \in Block |-> [i \in Index |-> NULL]]
  /\ fwd = {}
  /\ roots = {}
  /\ gc_phase = "idle" /\ gc_subphase = "main"
  /\ gray_vals = {} /\ gray_size = GraySize
  /\ heap_is_pure = TRUE
  /\ markhp = NoHp /\ gc_sweep_hp = 1
  /\ toDarken = {}

-----------------------------------------------------------------------------
(* darken and realloc_gray_vals                                            *)

\* mutant: entries are dropped and nobody is told
PushGrayKeepsPure(new) ==
  /\ \E kept \in SUBSET new :
       /\ Cardinality(kept) <= gray_size \div 2
       /\ gray_vals' = kept
  /\ UNCHANGED <<gray_size, heap_is_pure>>

\* What the stack and the purity flag become when the entries would be new.
PushGray(new) ==
  \/ /\ Cardinality(new) < gray_size
     /\ gray_vals' = new
     /\ UNCHANGED <<gray_size, heap_is_pure>>
  \/ /\ Cardinality(new) >= gray_size
     /\ \E limit \in GrayLimits : gray_size < limit   \* realloc succeeds, or fails
     /\ \/ /\ gray_vals' = new
           /\ gray_size' = 2 * gray_size
           /\ UNCHANGED heap_is_pure
        \/ /\ gray_vals' = {}
           /\ heap_is_pure' = FALSE
           /\ UNCHANGED gray_size
  \/ /\ Cardinality(new) >= gray_size
     /\ \E limit \in GrayLimits : gray_size >= limit  \* the upper half is dropped
     /\ \E kept \in SUBSET new :
          /\ Cardinality(kept) = gray_size \div 2
          /\ gray_vals' = kept
     /\ heap_is_pure' = FALSE
     /\ UNCHANGED gray_size

Darken(o) ==
  IF o \in White
  THEN /\ color' = [color EXCEPT ![o] = "gray"]
       /\ PushGray(gray_vals \cup {o})
  ELSE UNCHANGED <<color, stackVars>>

\* The next darken of the loop in progress: over the roots (do_roots) or over
\* the fields of the block being marked.  No other code runs in between.
DarkenNext ==
  /\ \E o \in toDarken : Darken(o) /\ toDarken' = toDarken \ {o}
  /\ UNCHANGED <<fields, fwd, roots, phaseVars>>

-----------------------------------------------------------------------------
(* The mutator.  The collector is not in the middle of a loop.             *)

Mutating == toDarken = {}

\* load a field onto the stack or into a young block
Read(o, i) ==
  /\ Mutating
  /\ o \in roots
  /\ fields[o][i] # NULL
  /\ roots' = roots \cup {fields[o][i]}
  /\ UNCHANGED <<heapVars, phaseVars, stackVars, toDarken>>

Drop(o) ==
  /\ Mutating
  /\ o \in roots
  /\ roots' = roots \ {o}
  /\ UNCHANGED <<heapVars, phaseVars, stackVars, toDarken>>

\* mutant: the barrier protects nothing
BarrierOff(old) == UNCHANGED <<color, stackVars>>

Barrier(old) ==
  IF gc_phase = "mark" /\ old # NULL THEN Darken(old)
  ELSE UNCHANGED <<color, stackVars>>

\* Modify: the overwritten value is darkened while marking.  An indirection is
\* only ever stored into by another update.
Modify(o, i, v) ==
  /\ Mutating
  /\ o \in roots \ fwd
  /\ v \in roots \cup {NULL}
  /\ fields' = [fields EXCEPT ![o][i] = v]
  /\ Barrier(fields[o][i])
  /\ UNCHANGED <<fwd, roots, phaseVars, toDarken>>

\* Indirect: an updated thunk, whose other fields are already erased (the
\* erasure of a field is a Modify to NULL), becomes an indirection to its
\* value, which is never an indirection itself
Indirect(o, v) ==
  /\ Mutating
  /\ o \in roots
  /\ v \in (roots \cup {NULL}) \ (fwd \cup {o})
  /\ \A i \in Index \ {0} : fields[o][i] = NULL
  /\ fields' = [fields EXCEPT ![o][0] = v]
  /\ fwd' = fwd \cup {o}
  /\ Barrier(fields[o][0])
  /\ UNCHANGED <<roots, phaseVars, toDarken>>

\* mutant: black from the start of marking, but white all over the sweep
allocation_color_white_in_sweep(o) ==
  IF gc_phase = "mark" THEN "black" ELSE "white"

allocation_color(o) ==
  IF gc_phase = "mark" \/ (gc_phase = "sweep" /\ o >= gc_sweep_hp)
  THEN "black" ELSE "white"

\* alloc_shr: a large block, or one promoted by a minor collection, from the
\* free list or else from a new chunk (expand_heap), with initial contents the
\* mutator holds (Initialize has no barrier)
alloc_shr(o, f) ==
  /\ Mutating
  /\ color[o] \in {"blue", "absent"}
  /\ f \in [Index -> roots \cup {NULL}]
  /\ color' = [color EXCEPT ![o] = allocation_color(o)]
  /\ fields' = [fields EXCEPT ![o] = f]
  /\ roots' = roots \cup {o}
  /\ UNCHANGED <<fwd, phaseVars, stackVars, toDarken>>

Mutator ==
  \/ \E o \in Block, i \in Index : Read(o, i)
  \/ \E o \in Block : Drop(o)
  \/ \E o \in Block, i \in Index : \E v \in Block \cup {NULL} : Modify(o, i, v)
  \/ \E o \in Block : \E v \in Block \cup {NULL} : Indirect(o, v)
  \/ \E o \in Block : \E f \in [Index -> Block \cup {NULL}] : alloc_shr(o, f)

-----------------------------------------------------------------------------
(* The collector: a slice is any number of iterations of the loops below.  *)

start_cycle ==
  /\ gc_phase = "idle"
  /\ toDarken' = roots
  /\ gc_phase' = "mark" /\ gc_subphase' = "main"
  /\ markhp' = NoHp
  /\ UNCHANGED <<heapVars, roots, stackVars, gc_sweep_hp>>

Marking == gc_phase = "mark" /\ toDarken = {}

\* mutant: every child is taken for an indirection
ShortcutAll(c) == IF c = NULL THEN NULL ELSE fields[c][0]

\* Field(v,i) = Forward_val(child): the mark loop shortens indirections
Shortcut(c) == IF c \in fwd THEN fields[c][0] ELSE c

\* pop a gray block, blacken it and darken its white children; the child
\* that is darkened is the indirection, not the block behind it
MarkBlock(v) ==
  /\ Marking
  /\ v \in gray_vals
  /\ color' = [color EXCEPT ![v] = "black"]
  /\ gray_vals' = gray_vals \ {v}
  /\ toDarken' = {c \in Children(v) : color'[c] = "white"}
  /\ fields' = [fields EXCEPT ![v] = [i \in Index |-> Shortcut(fields[v][i])]]
  /\ UNCHANGED <<fwd, roots, gray_size, heap_is_pure, phaseVars>>

\* the stack is empty: walk the heap for gray blocks that fell off it
Rescan ==
  /\ Marking /\ gray_vals = {} /\ markhp # NoHp
  /\ IF markhp = N + 1
     THEN markhp' = NoHp /\ UNCHANGED gray_vals
     ELSE /\ gray_vals' = {markhp} \cap Gray
          /\ markhp' = markhp + 1
  /\ UNCHANGED <<heapVars, roots, gray_size, heap_is_pure, gc_phase,
                 gc_subphase, gc_sweep_hp, toDarken>>

StartRescan ==
  /\ Marking /\ gray_vals = {} /\ markhp = NoHp /\ ~heap_is_pure
  /\ heap_is_pure' = TRUE
  /\ markhp' = 1
  /\ UNCHANGED <<heapVars, roots, gray_vals, gray_size, gc_phase, gc_subphase,
                 gc_sweep_hp, toDarken>>

\* mutant: the purity of the heap is not looked at
MarkingDoneImpure == Marking /\ gray_vals = {} /\ markhp = NoHp

MarkingDone == Marking /\ gray_vals = {} /\ markhp = NoHp /\ heap_is_pure

\* with no weak array and no finalised value a subphase only gives way to the
\* next
NextSubphase ==
  /\ MarkingDone
  /\ gc_subphase # "final"
  /\ gc_subphase' = IF gc_subphase = "main" THEN "weak" ELSE "final"
  /\ UNCHANGED <<heapVars, roots, stackVars, gc_phase, markhp, gc_sweep_hp,
                 toDarken>>

StartSweep ==
  /\ MarkingDone
  /\ gc_subphase = "final"
  /\ gc_phase' = "sweep"
  /\ gc_sweep_hp' = 1
  /\ UNCHANGED <<heapVars, roots, stackVars, gc_subphase, markhp, toDarken>>

\* mutant: a survivor keeps its mark
SweptColorKeeps(c) == IF c = "white" THEN "blue" ELSE c

SweptColor(c) == IF c = "white" THEN "blue" ELSE IF c = "black" THEN "white" ELSE c

\* a freed block loses its contents (fl_merge_block reuses the words)
SweepBlock ==
  /\ gc_phase = "sweep" /\ gc_sweep_hp <= N
  /\ color' = [color EXCEPT ![gc_sweep_hp] = SweptColor(@)]
  /\ IF color[gc_sweep_hp] = "white"
     THEN /\ fields' = [fields EXCEPT ![gc_sweep_hp] = [i \in Index |-> NULL]]
          /\ fwd' = fwd \ {gc_sweep_hp}
     ELSE UNCHANGED <<fields, fwd>>
  /\ gc_sweep_hp' = gc_sweep_hp + 1
  /\ UNCHANGED <<roots, stackVars, gc_phase, gc_subphase, markhp, toDarken>>

EndSweep ==
  /\ gc_phase = "sweep" /\ gc_sweep_hp = N + 1
  /\ gc_phase' = "idle"
  /\ UNCHANGED <<heapVars, roots, stackVars, gc_subphase, markhp, gc_sweep_hp,
                 toDarken>>

mark_slice == \/ DarkenNext
              \/ \E v \in Block : MarkBlock(v)
              \/ Rescan \/ StartRescan \/ NextSubphase \/ StartSweep

sweep_slice == SweepBlock \/ EndSweep

Collector == start_cycle \/ mark_slice \/ sweep_slice

Next == Mutator \/ Collector

Spec == Init /\ [][Next]_vars

\* Every minor collection runs a slice, and minor_collection is called
\* whenever the minor heap is full: a program that goes on allocating goes on
\* collecting.
FairSpec == Spec /\ WF_vars(Collector)

-----------------------------------------------------------------------------
(* Properties                                                              *)

\* The variables of major_gc.c have their types; markhp and the sweep pointer stay in
\* the heap or just behind it.
TypeOK ==
  /\ color \in [Block -> Colors]
  /\ fields \in [Block -> [Index -> Block \cup {NULL}]]
  /\ fwd \subseteq Block
  /\ roots \subseteq Block
  /\ gc_phase \in {"idle", "mark", "sweep"}
  /\ gc_subphase \in {"main", "weak", "final"}
  /\ gray_vals \subseteq Block
  /\ gray_size \in Nat
  /\ heap_is_pure \in BOOLEAN
  /\ markhp \in 0 .. N + 1
  /\ gc_sweep_hp \in 1 .. N + 1
  /\ toDarken \subseteq Block

\* What the mutator can reach from its roots: in every set that holds the
\* roots and the children of its members.
Reachable ==
  {o \in Block : \A S \in SUBSET Block :
     roots \subseteq S /\ (\A p \in S : Children(p) \subseteq S) => o \in S}

\* The collector never frees a block the program can still reach, wherever the
\* mutator runs between two steps of a slice (major_gc.c 109-278).
ReachableAllocated == Reachable \subseteq Allocated

\* heap_check (gc_ctrl.c 52-110, 150-190): a block that is not waiting to be
\* swept has no field that refers to free memory.
HeapCheck ==
  \A o \in Allocated :
    (gc_phase = "sweep" /\ o \in White /\ o >= gc_sweep_hp)
      \/ Children(o) \subseteq Allocated

\* The comment on heap_is_pure (major_gc.c 43-44) with the rescan in progress:
\* a gray block the stack has forgotten is still ahead of markhp.
Purity ==
  heap_is_pure => \A o \in Gray : \/ o \in gray_vals
                                  \/ markhp # NoHp /\ o >= markhp

\* The assertions of the collector: an entry of gray_vals is gray
\* (major_gc.c 122), sweeping meets no gray block (266), a cycle starts with an
\* empty stack and no mark left over from the one before (98).
Assertions ==
  /\ gray_vals \subseteq Gray
  /\ gc_phase # "mark" => Gray = {} /\ gray_vals = {} /\ heap_is_pure
  /\ gc_phase = "idle" => Black = {}

\* What the runtime takes for granted at every step of mark_slice and sweep_slice
\* (major_gc.c 109-278), however small the mark stack is and wherever the mutator
\* runs in between: no field refers to free memory, no gray block is forgotten
\* while the heap is called pure, and the assertions hold.
CollectorChecks == HeapCheck /\ Purity /\ Assertions

\* Tricolour end of marking: when the sweep starts no reachable block is white.
NoWhiteReachable == MarkingDone => Reachable \cap White = {}

\* The value behind a chain of at most k indirections.
Behind[k \in Nat] ==
  [v \in Block \cup {NULL} |->
     IF k = 0 \/ v \notin fwd THEN v ELSE Behind[k - 1][fields[v][0]]]

Seen(o, i) == Behind[N][fields[o][i]]

\* A step of the collector changes nothing the program can see: the value a
\* field leads to, through the indirections that marking shortens, stays the
\* same (major_gc.c 128-137).
CollectorInvisible ==
  [][Collector => \A o \in Reachable', i \in Index : Seen(o, i)' = Seen(o, i)]_vars

\* Garbage does not survive for ever: it is collected in this cycle or the next.
GarbageCollected ==
  \A o \in Block :
    (o \in Allocated \ Reachable) ~> (o \notin Allocated \/ o \in Reachable)
=============================================================================

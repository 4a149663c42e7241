-------------------------------- MODULE MCHeap --------------------------------
(***************************************************************************)
(* Instances for the major heap.  A behaviour is one of the free list, in  *)
(* a heap of one chunk that may grow by a second one above or below it, or *)
(* one of the collector with blocks of two fields, which other runs take   *)
(* with one field: here the question is whether garbage goes.              *)
(***************************************************************************)
EXTENDS FreeList

VARIABLES
  part,        \* "list" or "garbage"
  color, fields, fwd, roots, phase, subphase, gray_vals, gray_size,
  heap_is_pure, markhp, sweep_hp, toDarken

Major == INSTANCE MajorGC WITH N <- 2, Initial <- 2, NF <- 2, GraySize <- 2, GrayLimits <- {0},
           gc_phase <- phase, gc_subphase <- subphase, gc_sweep_hp <- sweep_hp

MCChunks == [c \in {2, 9} |-> IF c = 2 THEN 6 ELSE 4]
MCFirst  == DOMAIN MCChunks

majorVars == <<color, fields, fwd, roots, phase, subphase, gray_vals, gray_size,
               heap_is_pure, markhp, sweep_hp, toDarken>>
allVars   == <<part, vars, majorVars>>

MCInit == part \in {"list", "garbage"} /\ Init /\ Major!Init

ListNext    == part = "list" /\ Next /\ UNCHANGED <<part, majorVars>>
GarbageNext == part = "garbage" /\ Major!Next /\ UNCHANGED <<part, vars>>

\* the fairness of FairSpec, in FreeList and in MajorGC
ListCollects == /\ part = "list" /\ (start_cycle \/ StartSweep \/ sweep_slice)
                /\ UNCHANGED <<part, majorVars>>
GarbageCollects == part = "garbage" /\ Major!Collector /\ UNCHANGED <<part, vars>>

MCSpec == /\ MCInit /\ [][ListNext \/ GarbageNext]_allVars
          /\ WF_allVars(ListCollects) /\ WF_allVars(GarbageCollects)

\* Garbage in the major heap does not survive for ever: it is collected in this
\* cycle or the next (mark_slice and sweep_slice, major_gc.c 109-278).
GarbageCollected == Major!GarbageCollected
=============================================================================

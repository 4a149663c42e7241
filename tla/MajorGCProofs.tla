---------------------------- MODULE MajorGCProofs ----------------------------
(***************************************************************************)
(* The collector never frees a block the program can reach, for every     *)
(* heap size, block size and mark stack size.                             *)
(*                                                                         *)
(* The heart of the argument is SATB (snapshot at the beginning).  It     *)
(* avoids reachability, which a first-order prover cannot unfold, by      *)
(* quantifying over the sets that contain the marking frontier and are    *)
(* closed under the white children of their unmarked members: every such  *)
(* set holds all that must still be marked.  When marking is done the     *)
(* empty set is one of them.                                              *)
(***************************************************************************)
EXTENDS MajorGC, InductionLemmas, FiniteSetTheorems, TLAPS

\* White blocks that the sweep in progress is about to free.
Doomed == IF gc_phase = "sweep" THEN {o \in White : o >= gc_sweep_hp} ELSE {}
Live == Allocated \ Doomed

LiveInv ==
  /\ roots \subseteq Live
  /\ \A o \in Live : Children(o) \subseteq Live

\* Colours and the loop in progress, phase by phase.
ColorInv ==
  /\ Assertions
  /\ toDarken \subseteq White
  /\ toDarken # {} => gc_phase = "mark"
  /\ gc_phase = "sweep" => \A o \in Black : o >= gc_sweep_hp

Closed(S) ==
  /\ Gray \cup toDarken \subseteq S
  /\ \A o \in S \cap (White \cup Gray) : Children(o) \cap White \subseteq S

Shielded(S) ==
  /\ roots \cap White \subseteq S
  /\ \A o \in Black : Children(o) \cap White \subseteq S

SATB == gc_phase = "mark" => \A S \in SUBSET Block : Closed(S) => Shielded(S)

\* The inductive invariant.
GCInv == TypeOK /\ LiveInv /\ ColorInv /\ Purity /\ SATB

\* What a block refers to are blocks.
LEMMA ChildrenType == TypeOK => \A o \in Block : Children(o) \subseteq Block
  BY DEF TypeOK, Children

\* The empty heap satisfies the invariant.
LEMMA GCInit == Init => GCInv
<1> SUFFICES ASSUME Init PROVE GCInv
  OBVIOUS
<1> USE NAssumption, NFAssumption, GrayAssumption DEF Init
<1>1. TypeOK
  BY DEF TypeOK, Block, Index, NULL, NoHp, Colors
<1>2. Allocated = {}
  BY DEF Allocated, White, Gray, Black
<1>3. LiveInv
  BY <1>2 DEF LiveInv, Live
<1>4. ColorInv /\ Purity
  BY DEF ColorInv, Assertions, Purity, White, Gray, Black
<1>5. SATB
  BY DEF SATB
<1>6. QED
  BY <1>1, <1>3, <1>4, <1>5 DEF GCInv

-----------------------------------------------------------------------------
(* TypeOK                                                                  *)

\* Pushing on the mark stack may forget entries, but then the heap is not pure.
LEMMA PushGrayType ==
  ASSUME TypeOK, NEW new \in SUBSET Block, PushGray(new)
  PROVE  /\ gray_vals' \subseteq new
         /\ gray_size' \in Nat
         /\ heap_is_pure' \in BOOLEAN
         /\ heap_is_pure' => heap_is_pure /\ gray_vals' = new
<1>1. gray_vals' \subseteq new /\ gray_size' \in Nat
  BY DEF PushGray, TypeOK
<1>2. heap_is_pure' = heap_is_pure \/ heap_is_pure' = FALSE
  BY DEF PushGray
<1>3. heap_is_pure' = FALSE \/ (heap_is_pure' = heap_is_pure /\ gray_vals' = new)
  BY DEF PushGray
<1>4. heap_is_pure \in BOOLEAN
  BY DEF TypeOK
<1>5. heap_is_pure' \in BOOLEAN
  BY <1>2, <1>4
<1>6. heap_is_pure' => heap_is_pure /\ gray_vals' = new
  BY <1>3
<1>7. QED
  BY <1>1, <1>5, <1>6

\* Darkening one block keeps the types.
LEMMA DarkenType ==
  ASSUME TypeOK, NEW o, Darken(o)
  PROVE  /\ color' \in [Block -> Colors]
         /\ gray_vals' \subseteq Block
         /\ gray_size' \in Nat
         /\ heap_is_pure' \in BOOLEAN
<1>1. CASE o \in White
  <2>1. gray_vals \cup {o} \in SUBSET Block
    BY <1>1 DEF TypeOK, White
  <2>2. PushGray(gray_vals \cup {o}) /\ color' = [color EXCEPT ![o] = "gray"]
    BY <1>1 DEF Darken
  <2>3. gray_vals' \subseteq Block /\ gray_size' \in Nat /\ heap_is_pure' \in BOOLEAN
    BY <2>1, <2>2, PushGrayType
  <2>4. color' \in [Block -> Colors]
    BY <2>2 DEF TypeOK, Colors
  <2>5. QED
    BY <2>3, <2>4
<1>2. CASE o \notin White
  BY <1>2 DEF Darken, TypeOK, stackVars
<1>3. QED
  BY <1>1, <1>2

\* What a darkening does to the colours and to the stack.
LEMMA DarkenEffect ==
  ASSUME TypeOK, ColorInv, Purity, NEW o, Darken(o)
  PROVE  /\ Allocated' = Allocated
         /\ White' = White \ {o} /\ Black' = Black
         /\ Gray' = Gray \cup ({o} \cap White)
         /\ gray_vals' \subseteq Gray'
         /\ heap_is_pure' =>
              \A p \in Gray' : p \in gray_vals' \/ (markhp # NoHp /\ p >= markhp)
<1>1. CASE o \in White
  <2>1. gray_vals \cup {o} \in SUBSET Block
    BY <1>1 DEF TypeOK, White
  <2>2. PushGray(gray_vals \cup {o}) /\ color' = [color EXCEPT ![o] = "gray"]
    BY <1>1 DEF Darken
  <2>3. /\ gray_vals' \subseteq gray_vals \cup {o}
        /\ heap_is_pure' => heap_is_pure /\ gray_vals' = gray_vals \cup {o}
    BY <2>1, <2>2, PushGrayType
  <2>4. /\ White' = White \ {o} /\ Black' = Black
        /\ Gray' = Gray \cup {o}
    BY <1>1, <2>2 DEF TypeOK, White, Gray, Black
  <2>5. QED
    BY <1>1, <2>3, <2>4 DEF Allocated, ColorInv, Assertions, Purity
<1>2. CASE o \notin White
  <2>1. UNCHANGED <<color, gray_vals, heap_is_pure>>
    BY <1>2 DEF Darken, stackVars
  <2>2. White' = White /\ Black' = Black /\ Gray' = Gray /\ Allocated' = Allocated
    BY <2>1 DEF White, Black, Gray, Allocated
  <2>3. QED
    BY <1>2, <2>1, <2>2 DEF ColorInv, Assertions, Purity
<1>3. QED
  BY <1>1, <1>2

\* Every step keeps the types.
LEMMA TypeStep == TypeOK /\ [Next]_vars => TypeOK'
<1> SUFFICES ASSUME TypeOK, [Next]_vars PROVE TypeOK'
  OBVIOUS
<1>1. ASSUME NEW o \in Block, NEW i \in Index, Read(o, i) PROVE TypeOK'
  BY <1>1 DEF Read, TypeOK, heapVars, phaseVars, stackVars, NULL
<1>2. ASSUME NEW o \in Block, Drop(o) PROVE TypeOK'
  BY <1>2 DEF Drop, TypeOK, heapVars, phaseVars, stackVars
<1>3. ASSUME NEW old, Barrier(old)
      PROVE  /\ color' \in [Block -> Colors] /\ gray_vals' \subseteq Block
             /\ gray_size' \in Nat /\ heap_is_pure' \in BOOLEAN
  <2>1. CASE gc_phase = "mark" /\ old # NULL
    BY <1>3, <2>1, DarkenType DEF Barrier
  <2>2. CASE ~(gc_phase = "mark" /\ old # NULL)
    BY <1>3, <2>2 DEF Barrier, TypeOK, stackVars
  <2>3. QED
    BY <2>1, <2>2
<1>4. ASSUME NEW o \in Block, NEW i \in Index, NEW v \in Block \cup {NULL},
             Modify(o, i, v)
      PROVE TypeOK'
  <2>1. Barrier(fields[o][i])
    BY <1>4 DEF Modify
  <2>2. fields' \in [Block -> [Index -> Block \cup {NULL}]]
    BY <1>4 DEF Modify, TypeOK
  <2>3. QED
    BY <1>3, <1>4, <2>1, <2>2 DEF Modify, TypeOK, phaseVars
<1>5. ASSUME NEW o \in Block, NEW v \in Block \cup {NULL}, Indirect(o, v)
      PROVE TypeOK'
  <2>1. Barrier(fields[o][0])
    BY <1>5 DEF Indirect
  <2>2. fields' \in [Block -> [Index -> Block \cup {NULL}]] /\ fwd' \subseteq Block
    BY <1>5 DEF Indirect, TypeOK
  <2>3. QED
    BY <1>3, <1>5, <2>1, <2>2 DEF Indirect, TypeOK, phaseVars
<1>6. ASSUME NEW o \in Block, NEW f \in [Index -> Block \cup {NULL}],
             alloc_shr(o, f)
      PROVE TypeOK'
  BY <1>6 DEF alloc_shr, allocation_color, TypeOK, phaseVars, stackVars, Colors
<1>7. CASE start_cycle
  BY <1>7, NAssumption DEF start_cycle, TypeOK, heapVars, stackVars, NoHp
<1>8. CASE DarkenNext
  <2>1. PICK o \in toDarken : Darken(o) /\ toDarken' = toDarken \ {o}
    BY <1>8 DEF DarkenNext
  <2>2. QED
    BY <1>8, <2>1, DarkenType DEF DarkenNext, TypeOK, phaseVars
<1>9. ASSUME NEW v \in Block, MarkBlock(v) PROVE TypeOK'
  <2>1. 0 \in Index
    BY NFAssumption DEF Index
  <2>2. \A i \in Index : Shortcut(fields[v][i]) \in Block \cup {NULL}
    BY <2>1 DEF TypeOK, Shortcut
  <2>3. fields' \in [Block -> [Index -> Block \cup {NULL}]]
    BY <1>9, <2>2 DEF MarkBlock, TypeOK
  <2>4. toDarken' \subseteq Block
    BY <1>9, ChildrenType DEF MarkBlock
  <2>5. color' \in [Block -> Colors]
    BY <1>9 DEF MarkBlock, TypeOK, Colors
  <2>6. QED
    BY <1>9, <2>3, <2>4, <2>5 DEF MarkBlock, TypeOK, phaseVars
<1>10. CASE Rescan
  BY <1>10, NAssumption
  DEF Rescan, TypeOK, heapVars, Gray, NoHp
<1>11. CASE StartRescan
  BY <1>11, NAssumption DEF StartRescan, TypeOK, heapVars
<1>12. CASE NextSubphase
  BY <1>12 DEF NextSubphase, TypeOK, heapVars, stackVars
<1>13. CASE StartSweep
  BY <1>13, NAssumption DEF StartSweep, TypeOK, heapVars, stackVars
<1>14. CASE SweepBlock
  <2>1. color' \in [Block -> Colors]
    BY <1>14 DEF SweepBlock, SweptColor, TypeOK, Colors, Block
  <2>2. fields' \in [Block -> [Index -> Block \cup {NULL}]] /\ fwd' \subseteq Block
    BY <1>14 DEF SweepBlock, TypeOK
  <2>3. gc_sweep_hp' \in 1 .. N + 1
    BY <1>14, NAssumption DEF SweepBlock, TypeOK
  <2>4. QED
    BY <1>14, <2>1, <2>2, <2>3 DEF SweepBlock, TypeOK, stackVars
<1>15. CASE EndSweep
  BY <1>15 DEF EndSweep, TypeOK, heapVars, stackVars
<1>16. CASE UNCHANGED vars
  BY <1>16 DEF vars, TypeOK
<1>17. QED
  BY <1>1, <1>2, <1>4, <1>5, <1>6, <1>7, <1>8, <1>9, <1>10, <1>11, <1>12, <1>13,
     <1>14, <1>15, <1>16
  DEF Next, Mutator, Collector, mark_slice, sweep_slice

-----------------------------------------------------------------------------
(* The mutator                                                             *)

\* The block a barrier darkens.
Hit(old) == IF gc_phase = "mark" THEN {old} \cap White ELSE {}

\* What the write barrier does to the colours: the overwritten value turns gray, if it was
\* white, and is on the stack if the heap is still pure.
LEMMA BarrierEffect ==
  ASSUME TypeOK, ColorInv, Purity, NEW old, Barrier(old)
  PROVE  /\ Allocated' = Allocated
         /\ White' = White \ Hit(old) /\ Black' = Black
         /\ Gray' = Gray \cup Hit(old)
         /\ gray_vals' \subseteq Gray'
         /\ heap_is_pure' =>
              \A p \in Gray' : p \in gray_vals' \/ (markhp # NoHp /\ p >= markhp)
         /\ gc_phase # "mark" => UNCHANGED <<color, gray_vals, heap_is_pure>>
<1>1. CASE gc_phase = "mark" /\ old # NULL
  <2>1. Darken(old)
    BY <1>1 DEF Barrier
  <2>2. QED
    BY <1>1, <2>1, DarkenEffect DEF Hit
<1>2. CASE ~(gc_phase = "mark" /\ old # NULL)
  <2>1. UNCHANGED <<color, gray_vals, heap_is_pure>>
    BY <1>2 DEF Barrier, stackVars
  <2>2. White' = White /\ Black' = Black /\ Gray' = Gray /\ Allocated' = Allocated
    BY <2>1 DEF White, Black, Gray, Allocated
  <2>3. Hit(old) = {}
    BY <1>2 DEF Hit, White, Block, NULL
  <2>4. QED
    BY <2>1, <2>2, <2>3 DEF ColorInv, Assertions, Purity
<1>3. QED
  BY <1>1, <1>2

\* What Modify and Indirect have in common.
Store(o, i, v) ==
  /\ Mutating
  /\ o \in roots
  /\ v \in roots \cup {NULL}
  /\ fields' = [fields EXCEPT ![o][i] = v]
  /\ Barrier(fields[o][i])
  /\ UNCHANGED <<roots, phaseVars, toDarken>>

\* A store into a reachable block keeps the invariant, because of the barrier.
LEMMA StoreStep ==
  ASSUME GCInv, NEW o \in Block, NEW i \in Index, NEW v \in Block \cup {NULL},
         Store(o, i, v)
  PROVE  LiveInv' /\ ColorInv' /\ Purity' /\ SATB'
<1> DEFINE old == fields[o][i]
<1>1. /\ Allocated' = Allocated
      /\ White' = White \ Hit(old) /\ Black' = Black
      /\ Gray' = Gray \cup Hit(old)
      /\ gray_vals' \subseteq Gray'
      /\ heap_is_pure' =>
           \A p \in Gray' : p \in gray_vals' \/ (markhp # NoHp /\ p >= markhp)
      /\ gc_phase # "mark" => UNCHANGED <<color, gray_vals, heap_is_pure>>
  BY BarrierEffect DEF Store, GCInv
<1>2. /\ UNCHANGED <<roots, gc_phase, gc_subphase, markhp, gc_sweep_hp, toDarken>>
      /\ toDarken = {} /\ o \in roots /\ v \in roots \cup {NULL}
  BY DEF Store, Mutating, phaseVars
<1>3. /\ \A p \in Block \ {o} : Children(p)' = Children(p)
      /\ Children(o)' \subseteq Children(o) \cup ({v} \ {NULL})
      /\ Children(o) \subseteq Children(o)' \cup {old}
  BY DEF Store, Children, GCInv, TypeOK
<1>4. Hit(old) \subseteq {old} \cap White /\ (gc_phase # "mark" => Hit(old) = {})
  BY DEF Hit
<1>5. Live' = Live
  BY <1>1, <1>2, <1>4 DEF Live, Doomed
<1>6. LiveInv'
  BY <1>2, <1>3, <1>5 DEF GCInv, LiveInv, Live, Allocated, White, Gray, Black
<1>7. ColorInv'
  BY <1>1, <1>2, <1>4 DEF GCInv, ColorInv, Assertions
<1>8. Purity'
  BY <1>1, <1>2 DEF Purity
<1>9. ASSUME gc_phase = "mark", NEW S \in SUBSET Block, Closed(S)'
      PROVE  Shielded(S)'
  <2>1. Hit(old) = {old} \cap White
    BY <1>9 DEF Hit
  <2>2. Gray \cup toDarken \cup Hit(old) \subseteq S
    BY <1>1, <1>2, <1>9 DEF Closed
  <2>3. ASSUME NEW p \in S \cap (White \cup Gray), NEW c \in Children(p) \cap White
        PROVE  c \in S
    <3>1. CASE c = old
      BY <2>1, <2>2, <2>3, <3>1
    <3>2. CASE c # old
      BY <1>1, <1>3, <1>4, <1>9, <2>3, <3>2 DEF Closed, White, Gray
    <3>3. QED
      BY <3>1, <3>2
  <2>4. Shielded(S)
    BY <1>9, <2>2, <2>3 DEF Closed, GCInv, SATB
  <2>5. roots' \cap White' \subseteq S
    BY <1>1, <1>2, <2>4 DEF Shielded
  <2>6. ASSUME NEW p \in Black', NEW c \in Children(p)' \cap White' PROVE c \in S
    <3>1. c \in Children(p) \/ c \in roots
      BY <1>1, <1>2, <1>3, <2>6 DEF Black
    <3>2. QED
      BY <1>1, <2>4, <2>6, <3>1 DEF Shielded
  <2>7. QED
    BY <2>5, <2>6 DEF Shielded
<1>10. SATB'
  BY <1>2, <1>9 DEF SATB
<1>11. QED
  BY <1>6, <1>7, <1>8, <1>10

\* So does every other step of the program.
LEMMA MutatorStep ==
  ASSUME GCInv, Mutator
  PROVE  LiveInv' /\ ColorInv' /\ Purity' /\ SATB'
<1>1. ASSUME NEW o \in Block, NEW i \in Index, Read(o, i)
      PROVE LiveInv' /\ ColorInv' /\ Purity' /\ SATB'
  <2>1. /\ roots' = roots \cup {fields[o][i]} /\ o \in roots
        /\ fields[o][i] \in Children(o) /\ toDarken = {}
        /\ UNCHANGED <<color, fields, gc_phase, markhp, gc_sweep_hp, gray_vals,
                       heap_is_pure, toDarken>>
    BY <1>1 DEF Read, Mutating, heapVars, phaseVars, stackVars, Children
  <2>2. /\ White' = White /\ Gray' = Gray /\ Black' = Black /\ Live' = Live
        /\ \A p \in Block : Children(p)' = Children(p)
    BY <2>1 DEF White, Gray, Black, Live, Doomed, Allocated, Children
  <2>3. LiveInv'
    BY <2>1, <2>2 DEF GCInv, LiveInv, Live, Allocated, White, Gray, Black
  <2>4. ColorInv' /\ Purity'
    BY <2>1, <2>2 DEF GCInv, ColorInv, Assertions, Purity
  <2>5. o \in Live
    BY <2>1 DEF GCInv, LiveInv
  <2>6. ASSUME gc_phase = "mark", NEW S \in SUBSET Block, Closed(S)'
        PROVE  Shielded(S)'
    <3>1. Closed(S)
      BY <2>1, <2>2, <2>6 DEF Closed, White, Gray
    <3>2. Shielded(S)
      BY <2>6, <3>1 DEF GCInv, SATB
    <3>3. fields[o][i] \in White => fields[o][i] \in S
      <4>1. CASE o \in Black
        BY <2>1, <3>2, <4>1 DEF Shielded
      <4>2. CASE o \in White \cup Gray
        BY <2>1, <3>1, <3>2, <4>2 DEF Shielded, Closed
      <4>3. QED
        BY <2>5, <4>1, <4>2 DEF Live, Allocated
    <3>4. QED
      BY <2>1, <2>2, <3>2, <3>3 DEF Shielded, Black
  <2>7. SATB'
    BY <2>1, <2>6 DEF SATB
  <2>8. QED
    BY <2>3, <2>4, <2>7
<1>2. ASSUME NEW o \in Block, Drop(o)
      PROVE LiveInv' /\ ColorInv' /\ Purity' /\ SATB'
  <2>1. /\ roots' \subseteq roots
        /\ UNCHANGED <<color, fields, gc_phase, markhp, gc_sweep_hp, gray_vals,
                       heap_is_pure, toDarken>>
    BY <1>2 DEF Drop, heapVars, phaseVars, stackVars
  <2>2. /\ White' = White /\ Gray' = Gray /\ Black' = Black /\ Live' = Live
        /\ \A p \in Block : Children(p)' = Children(p)
    BY <2>1 DEF White, Gray, Black, Live, Doomed, Allocated, Children
  <2>3. LiveInv'
    BY <2>1, <2>2 DEF GCInv, LiveInv, Live, Allocated, White, Gray, Black
  <2>4. ColorInv' /\ Purity'
    BY <2>1, <2>2 DEF GCInv, ColorInv, Assertions, Purity
  <2>5. ASSUME gc_phase = "mark", NEW S \in SUBSET Block, Closed(S)'
        PROVE  Shielded(S)'
    <3>1. Closed(S)
      BY <2>1, <2>2, <2>5 DEF Closed, White, Gray
    <3>2. Shielded(S)
      BY <2>5, <3>1 DEF GCInv, SATB
    <3>3. QED
      BY <2>1, <2>2, <3>2 DEF Shielded, Black
  <2>6. SATB'
    BY <2>1, <2>5 DEF SATB
  <2>7. QED
    BY <2>3, <2>4, <2>6
<1>3. ASSUME NEW o \in Block, NEW i \in Index, NEW v \in Block \cup {NULL},
             Modify(o, i, v)
      PROVE LiveInv' /\ ColorInv' /\ Purity' /\ SATB'
  <2>1. Store(o, i, v)
    BY <1>3 DEF Modify, Store
  <2>2. QED
    BY <2>1, StoreStep
<1>4. ASSUME NEW o \in Block, NEW v \in Block \cup {NULL}, Indirect(o, v)
      PROVE LiveInv' /\ ColorInv' /\ Purity' /\ SATB'
  <2>1. Store(o, 0, v) /\ 0 \in Index
    BY <1>4, NFAssumption DEF Indirect, Store, Index
  <2>2. QED
    BY <2>1, StoreStep
<1>5. ASSUME NEW o \in Block, NEW f \in [Index -> Block \cup {NULL}],
             alloc_shr(o, f)
      PROVE LiveInv' /\ ColorInv' /\ Purity' /\ SATB'
  <2>1. /\ o \notin Allocated /\ toDarken = {}
        /\ color' = [color EXCEPT ![o] = allocation_color(o)]
        /\ fields' = [fields EXCEPT ![o] = f]
        /\ roots' = roots \cup {o}
        /\ f \in [Index -> roots \cup {NULL}]
        /\ UNCHANGED <<gc_phase, markhp, gc_sweep_hp, gray_vals, heap_is_pure,
                       toDarken>>
    BY <1>5 DEF alloc_shr, Mutating, phaseVars, stackVars, Allocated, White, Gray, Black
  <2>2. /\ \A p \in Block \ {o} : Children(p)' = Children(p)
        /\ Children(o)' \subseteq roots
    BY <2>1 DEF Children, GCInv, TypeOK
  <2>3. Gray' = Gray /\ Allocated' = Allocated \cup {o}
    BY <2>1 DEF allocation_color, Allocated, Gray, White, Black, GCInv, TypeOK
  <2>4. CASE allocation_color(o) = "black"
    <3>1. White' = White /\ Black' = Black \cup {o}
      BY <2>1, <2>4 DEF Allocated, Gray, White, Black, GCInv, TypeOK
    <3>2. gc_phase = "mark" \/ (gc_phase = "sweep" /\ o >= gc_sweep_hp)
      BY <2>4 DEF allocation_color
    <3>3. Live' = Live \cup {o}
      BY <2>1, <2>3, <3>1 DEF Live, Doomed, Allocated
    <3>4. LiveInv'
      BY <2>1, <2>2, <3>3 DEF GCInv, LiveInv, Live, Allocated, White, Gray, Black
    <3>5. ColorInv'
      BY <2>1, <2>3, <3>1, <3>2 DEF GCInv, ColorInv, Assertions
    <3>6. Purity'
      BY <2>1, <2>3 DEF GCInv, Purity
    <3>7. ASSUME gc_phase = "mark", NEW S \in SUBSET Block, Closed(S)'
          PROVE  Shielded(S)'
      <4>1. Closed(S)
        BY <2>1, <2>2, <2>3, <3>1, <3>7 DEF Closed, White, Gray, Allocated
      <4>2. Shielded(S)
        BY <3>7, <4>1 DEF GCInv, SATB
      <4>3. roots' \cap White' \subseteq S
        BY <2>1, <3>1, <4>2 DEF Shielded, Allocated
      <4>4. ASSUME NEW p \in Black' PROVE Children(p)' \cap White' \subseteq S
        <5>1. CASE p = o
          BY <2>2, <3>1, <4>2, <5>1 DEF Shielded
        <5>2. CASE p # o
          BY <2>2, <3>1, <4>2, <4>4, <5>2 DEF Shielded, Black
        <5>3. QED
          BY <5>1, <5>2
      <4>5. QED
        BY <4>3, <4>4 DEF Shielded
    <3>8. SATB'
      BY <2>1, <3>7 DEF SATB
    <3>9. QED
      BY <3>4, <3>5, <3>6, <3>8
  <2>5. CASE allocation_color(o) = "white"
    <3>1. White' = White \cup {o} /\ Black' = Black
      BY <2>1, <2>5 DEF Allocated, Gray, White, Black, GCInv, TypeOK
    <3>2. gc_phase # "mark" /\ (gc_phase = "sweep" => ~(o >= gc_sweep_hp))
      BY <2>5 DEF allocation_color
    <3>3. Live' = Live \cup {o}
      BY <2>1, <2>3, <3>1, <3>2 DEF Live, Doomed, Allocated
    <3>4. LiveInv'
      BY <2>1, <2>2, <3>3 DEF GCInv, LiveInv, Live, Allocated, White, Gray, Black
    <3>5. ColorInv' /\ Purity' /\ SATB'
      BY <2>1, <2>3, <3>1, <3>2 DEF GCInv, ColorInv, Assertions, Purity, SATB
    <3>6. QED
      BY <3>4, <3>5
  <2>6. QED
    BY <2>4, <2>5 DEF allocation_color
<1>6. QED
  BY <1>1, <1>2, <1>3, <1>4, <1>5 DEF Mutator

-----------------------------------------------------------------------------
(* The collector                                                           *)

\* Marking one block keeps the invariant: what it refers to, past indirections, is
\* about to be darkened.
LEMMA MarkBlockStep ==
  ASSUME GCInv, NEW v \in Block, MarkBlock(v)
  PROVE  LiveInv' /\ ColorInv' /\ Purity' /\ SATB'
<1>1. /\ gc_phase = "mark" /\ toDarken = {} /\ v \in gray_vals /\ v \in Gray
      /\ color' = [color EXCEPT ![v] = "black"]
      /\ gray_vals' = gray_vals \ {v}
      /\ toDarken' = {c \in Children(v) : color'[c] = "white"}
      /\ fields' = [fields EXCEPT ![v] = [i \in Index |-> Shortcut(fields[v][i])]]
      /\ UNCHANGED <<roots, gc_phase, gc_sweep_hp, markhp, heap_is_pure>>
  BY DEF MarkBlock, Marking, phaseVars, GCInv, ColorInv, Assertions
<1>2. White' = White /\ Gray' = Gray \ {v} /\ Black' = Black \cup {v}
  BY <1>1 DEF White, Gray, Black, GCInv, TypeOK
<1>3. toDarken' = Children(v) \cap White
  BY <1>1, <1>2, ChildrenType DEF White, GCInv
<1>4. \A p \in Block \ {v} : Children(p)' = Children(p)
  BY <1>1 DEF Children, GCInv, TypeOK
<1>5. ASSUME NEW t \in Children(v)'
      PROVE  \/ t \in Children(v)
             \/ \E c \in Children(v) : t \in Children(c)
  <2>1. PICK i \in Index : t = Shortcut(fields[v][i]) /\ t # NULL
    BY <1>1, <1>5 DEF Children, GCInv, TypeOK
  <2>2. CASE fields[v][i] \in fwd
    <3>1. fields[v][i] \in Children(v)
      BY <2>2 DEF Children, GCInv, TypeOK, Block, NULL
    <3>2. t \in Children(fields[v][i])
      BY <2>1, <2>2, NFAssumption DEF Children, Shortcut, Index
    <3>3. QED
      BY <3>1, <3>2
  <2>3. CASE fields[v][i] \notin fwd
    BY <2>1, <2>3 DEF Shortcut, Children
  <2>4. QED
    BY <2>2, <2>3
<1>6. Live = Allocated /\ Live' = Live
  BY <1>1, <1>2 DEF Live, Doomed, Allocated
<1>7. Live \subseteq Block /\ v \in Live
  BY <1>1, <1>6 DEF Allocated, White, Gray, Black
<1>8. LiveInv'
  <2>1. roots' \subseteq Live'
    BY <1>1, <1>6 DEF GCInv, LiveInv
  <2>2. ASSUME NEW p \in Live PROVE Children(p)' \subseteq Live
    <3>1. CASE p = v
      BY <1>5, <1>7, <3>1 DEF GCInv, LiveInv
    <3>2. CASE p # v
      BY <1>4, <1>7, <2>2, <3>2 DEF GCInv, LiveInv
    <3>3. QED
      BY <3>1, <3>2
  <2>3. QED
    BY <1>6, <2>1, <2>2 DEF LiveInv
<1>9. ColorInv' /\ Purity'
  BY <1>1, <1>2, <1>3 DEF GCInv, ColorInv, Assertions, Purity
<1>10. ASSUME NEW S \in SUBSET Block, Closed(S)' PROVE Shielded(S)'
  <2> DEFINE T == S \cup {v}
  <2>1. /\ Gray \ {v} \subseteq S /\ Children(v) \cap White \subseteq S
        /\ \A p \in S \cap (White \cup Gray) : Children(p) \cap White \subseteq S
    BY <1>2, <1>3, <1>4, <1>10 DEF Closed, White, Gray
  <2>2. Closed(T)
    BY <1>1, <2>1 DEF Closed
  <2>3. Shielded(T)
    BY <1>1, <2>2 DEF GCInv, SATB
  <2>4. v \notin White
    BY <1>1 DEF White, Gray
  <2>5. roots' \cap White' \subseteq S
    BY <1>1, <1>2, <2>3, <2>4 DEF Shielded
  <2>6. \A p \in Live : p \in Black \/ p = v \/ p \in S
                        \/ p \in White
    BY <1>6, <2>1 DEF Allocated
  <2>7. ASSUME NEW c \in Children(v), NEW t \in Children(c) \cap White
        PROVE  t \in S
    <3>1. c \in Live
      BY <1>7 DEF GCInv, LiveInv
    <3>2. CASE c \in Black
      BY <2>3, <2>4, <2>7, <3>2 DEF Shielded
    <3>3. CASE c \in White \cup Gray
      BY <2>1, <2>7, <3>3
    <3>4. QED
      BY <1>6, <3>1, <3>2, <3>3 DEF Allocated
  <2>8. ASSUME NEW p \in Black' PROVE Children(p)' \cap White' \subseteq S
    <3>1. CASE p = v
      BY <1>2, <1>5, <2>1, <2>7, <3>1
    <3>2. CASE p # v
      BY <1>2, <1>4, <2>3, <2>4, <2>8, <3>2 DEF Shielded, Black
    <3>3. QED
      BY <3>1, <3>2
  <2>9. QED
    BY <2>5, <2>8 DEF Shielded
<1>11. SATB'
  BY <1>10 DEF SATB
<1>12. QED
  BY <1>8, <1>9, <1>11

\* Sweeping one block keeps it: what is freed is not live.
LEMMA SweepBlockStep ==
  ASSUME GCInv, SweepBlock
  PROVE  LiveInv' /\ ColorInv' /\ Purity' /\ SATB'
<1>h. PICK h \in Block : h = gc_sweep_hp
  BY NAssumption DEF SweepBlock, GCInv, TypeOK, Block
<1>1. /\ gc_phase = "sweep" /\ gc_phase' = "sweep" /\ h \in Int
      /\ gc_sweep_hp = h /\ gc_sweep_hp' = h + 1
      /\ color' = [color EXCEPT ![h] = SweptColor(color[h])]
      /\ UNCHANGED <<roots, gray_vals, heap_is_pure, markhp, toDarken>>
  BY <1>h DEF SweepBlock, GCInv, TypeOK, Block, stackVars
<1>2. Gray = {} /\ gray_vals = {} /\ heap_is_pure /\ toDarken = {}
  BY <1>1 DEF GCInv, ColorInv, Assertions
<1>3. \A p \in Block \ {h} : Children(p)' = Children(p)
  BY <1>1, <1>h DEF SweepBlock, Children, GCInv, TypeOK
<1>4. ASSUME color[h] # "white" PROVE Children(h)' = Children(h)
  <2>1. UNCHANGED fields
    BY <1>4, <1>h DEF SweepBlock
  <2>2. QED
    BY <2>1 DEF Children
<1>5. /\ White' = IF h \in White THEN White \ {h}
                  ELSE IF h \in Black THEN White \cup {h} ELSE White
      /\ Black' = Black \ {h} /\ Gray' = {}
  BY <1>1, <1>2 DEF SweptColor, White, Gray, Black, GCInv, TypeOK
<1>6. \A o \in Block : o # h => (o >= h <=> o >= h + 1)
  BY <1>1 DEF Block
<1>7. Live' = Live
  <2>1. /\ Live = {o \in White : ~(o >= h)} \cup Black
        /\ Live' = {o \in White' : ~(o >= h + 1)} \cup Black'
    <3>1. Doomed = {o \in White : o >= h} /\ Doomed' = {o \in White' : o >= h + 1}
      BY <1>1 DEF Doomed
    <3>2. Allocated = White \cup Black /\ Allocated' = White' \cup Black'
      BY <1>2, <1>5 DEF Allocated
    <3>3. White \cap Black = {} /\ White' \cap Black' = {}
      BY DEF White, Black
    <3>4. QED
      BY <3>1, <3>2, <3>3 DEF Live
  <2>2. White \subseteq Block /\ Black \subseteq Block /\ White \cap Black = {}
    BY DEF White, Black
  <2>3. h >= h /\ ~(h >= h + 1)
    BY <1>1
  <2>4. CASE h \in White
    BY <1>5, <1>6, <2>1, <2>2, <2>3, <2>4
  <2>5. CASE h \in Black
    BY <1>5, <1>6, <2>1, <2>2, <2>3, <2>5
  <2>6. CASE h \notin White \cup Black
    BY <1>5, <1>6, <2>1, <2>2, <2>3, <2>6
  <2>7. QED
    BY <2>4, <2>5, <2>6
<1>8. color[h] = "white" => h \notin Live
  BY <1>1 DEF Live, Doomed, White
<1>9. LiveInv'
  <2>1. Live \subseteq Block
    BY DEF Live, Allocated, White, Gray, Black
  <2>2. \A p \in Live : Children(p)' = Children(p)
    BY <1>3, <1>4, <1>8, <2>1
  <2>3. QED
    BY <1>1, <1>7, <2>2 DEF GCInv, LiveInv
<1>10. ColorInv'
  <2>1. \A o \in Black' : o >= gc_sweep_hp'
    BY <1>1, <1>5, <1>6 DEF GCInv, ColorInv, Black
  <2>2. QED
    BY <1>1, <1>2, <1>5, <2>1 DEF ColorInv, Assertions
<1>11. Purity' /\ SATB'
  BY <1>1, <1>5 DEF Purity, SATB
<1>12. QED
  BY <1>9, <1>10, <1>11

\* Every step of the collector keeps the invariant.
LEMMA CollectorStep ==
  ASSUME GCInv, Collector
  PROVE  LiveInv' /\ ColorInv' /\ Purity' /\ SATB'
<1>1. CASE start_cycle
  <2>1. /\ gc_phase = "idle" /\ gc_phase' = "mark" /\ toDarken' = roots
        /\ UNCHANGED <<color, fields, roots, gray_vals, heap_is_pure, gc_sweep_hp>>
    BY <1>1 DEF start_cycle, heapVars, stackVars
  <2>2. /\ White' = White /\ Gray' = Gray /\ Black' = Black /\ Live' = Live
        /\ \A p \in Block : Children(p)' = Children(p)
    BY <2>1 DEF White, Gray, Black, Live, Doomed, Allocated, Children
  <2>3. Gray = {} /\ Black = {} /\ gray_vals = {} /\ Live = White
    BY <2>1 DEF GCInv, ColorInv, Assertions, Live, Allocated, Doomed
  <2>4. LiveInv'
    BY <2>1, <2>2 DEF GCInv, LiveInv, Live, Allocated, White, Gray, Black
  <2>5. ColorInv' /\ Purity'
    BY <2>1, <2>2, <2>3 DEF GCInv, LiveInv, ColorInv, Assertions, Purity
  <2>6. SATB'
    BY <2>1, <2>2, <2>3 DEF SATB, Closed, Shielded
  <2>7. QED
    BY <2>4, <2>5, <2>6
<1>2. CASE DarkenNext
  <2>1. PICK o \in toDarken : Darken(o) /\ toDarken' = toDarken \ {o}
    BY <1>2 DEF DarkenNext
  <2>2. /\ gc_phase = "mark" /\ o \in White
        /\ UNCHANGED <<fields, roots, gc_phase, markhp, gc_sweep_hp>>
    BY <1>2, <2>1 DEF DarkenNext, phaseVars, GCInv, ColorInv
  <2>3. /\ Allocated' = Allocated
        /\ White' = White \ {o} /\ Black' = Black
        /\ Gray' = Gray \cup ({o} \cap White)
        /\ gray_vals' \subseteq Gray'
        /\ heap_is_pure' =>
             \A p \in Gray' : p \in gray_vals' \/ (markhp # NoHp /\ p >= markhp)
    BY <2>1, DarkenEffect DEF GCInv
  <2>4. Live' = Live /\ \A p \in Block : Children(p)' = Children(p)
    BY <2>2, <2>3 DEF Live, Doomed, Children
  <2>5. LiveInv'
    BY <2>2, <2>4 DEF GCInv, LiveInv, Live, Allocated, White, Gray, Black
  <2>6. ColorInv'
    BY <2>1, <2>2, <2>3 DEF GCInv, ColorInv, Assertions
  <2>7. Purity'
    BY <2>2, <2>3 DEF Purity
  <2>8. ASSUME NEW S \in SUBSET Block, Closed(S)' PROVE Shielded(S)'
    <3>1. o \in S
      BY <2>2, <2>3, <2>8 DEF Closed
    <3>2. Closed(S)
      BY <2>1, <2>2, <2>3, <2>4, <2>8, <3>1 DEF Closed, White, Gray
    <3>3. QED
      BY <2>2, <2>3, <2>4, <3>2 DEF GCInv, SATB, Shielded, Black
  <2>9. QED
    BY <2>5, <2>6, <2>7, <2>8 DEF SATB
<1>3. ASSUME NEW v \in Block, MarkBlock(v)
      PROVE  LiveInv' /\ ColorInv' /\ Purity' /\ SATB'
  BY <1>3, MarkBlockStep
\* The steps that move a pointer or a phase and leave colours and contents alone.
<1>4. ASSUME UNCHANGED <<color, fields, roots, toDarken>>
      PROVE  /\ White' = White /\ Gray' = Gray /\ Black' = Black
             /\ Allocated' = Allocated
             /\ \A p \in Block : Children(p)' = Children(p)
             /\ \A S \in SUBSET Block : (Closed(S)' <=> Closed(S))
                                        /\ (Shielded(S)' <=> Shielded(S))
  <2>1. /\ White' = White /\ Gray' = Gray /\ Black' = Black
        /\ Allocated' = Allocated
        /\ \A p \in Block : Children(p)' = Children(p)
    BY <1>4 DEF White, Gray, Black, Allocated, Children
  <2>2. ASSUME NEW S \in SUBSET Block PROVE Closed(S)' <=> Closed(S)
    BY <1>4, <2>1, <2>2 DEF Closed
  <2>3. ASSUME NEW S \in SUBSET Block PROVE Shielded(S)' <=> Shielded(S)
    BY <1>4, <2>1 DEF Shielded, Black
  <2>4. QED
    BY <2>1, <2>2, <2>3
<1>5. CASE Rescan
  <2>1. /\ UNCHANGED <<color, fields, roots, toDarken, gc_phase, gc_sweep_hp,
                       heap_is_pure>>
        /\ gc_phase = "mark" /\ gray_vals = {} /\ markhp # NoHp
    BY <1>5 DEF Rescan, Marking, heapVars
  <2>2. LiveInv' /\ SATB'
    BY <1>4, <2>1 DEF GCInv, LiveInv, Live, Doomed, Allocated, White, Gray, Black, SATB
  <2>3. ColorInv'
    BY <1>4, <1>5, <2>1 DEF Rescan, GCInv, ColorInv, Assertions
  <2>4. Purity'
    <3>1. CASE markhp = N + 1
      BY <1>4, <1>5, <2>1, <3>1, NAssumption
      DEF Rescan, GCInv, Purity, Gray, Block, TypeOK
    <3>2. CASE markhp # N + 1
      BY <1>4, <1>5, <2>1, <3>2, NAssumption
      DEF Rescan, GCInv, Purity, Gray, Block, TypeOK, NoHp
    <3>3. QED
      BY <3>1, <3>2
  <2>5. QED
    BY <2>2, <2>3, <2>4
<1>6. CASE StartRescan
  <2>1. /\ UNCHANGED <<color, fields, roots, toDarken, gc_phase, gc_sweep_hp, gray_vals>>
        /\ gc_phase = "mark" /\ markhp' = 1
    BY <1>6 DEF StartRescan, Marking, heapVars
  <2>2. LiveInv' /\ SATB'
    BY <1>4, <2>1 DEF GCInv, LiveInv, Live, Doomed, Allocated, White, Gray, Black, SATB
  <2>3. ColorInv'
    BY <1>4, <2>1 DEF GCInv, ColorInv, Assertions
  <2>4. Purity'
    BY <2>1 DEF Purity, Gray, Block, NoHp
  <2>5. QED
    BY <2>2, <2>3, <2>4
<1>7. CASE NextSubphase
  <2>1. /\ UNCHANGED <<color, fields, roots, toDarken, gc_phase, gc_sweep_hp,
                       gray_vals, heap_is_pure, markhp>>
    BY <1>7 DEF NextSubphase, heapVars, stackVars
  <2>2. LiveInv' /\ SATB'
    BY <1>4, <2>1 DEF GCInv, LiveInv, Live, Doomed, Allocated, White, Gray, Black, SATB
  <2>3. ColorInv' /\ Purity'
    BY <1>4, <2>1 DEF GCInv, ColorInv, Assertions, Purity
  <2>4. QED
    BY <2>2, <2>3
<1>8. CASE StartSweep
  <2>1. /\ UNCHANGED <<color, fields, roots, toDarken, gray_vals, heap_is_pure, markhp>>
        /\ gc_phase = "mark" /\ gc_phase' = "sweep" /\ gc_sweep_hp' = 1
        /\ toDarken = {} /\ gray_vals = {} /\ markhp = NoHp /\ heap_is_pure
    BY <1>8 DEF StartSweep, MarkingDone, Marking, heapVars, stackVars
  <2>2. Gray = {}
    BY <2>1 DEF GCInv, Purity
  <2>3. Shielded({})
    BY <2>1, <2>2 DEF GCInv, SATB, Closed
  <2>4. Live = Allocated /\ Live' = Black
    BY <1>4, <2>1, <2>2
    DEF Live, Doomed, Allocated, White, Black, Block
  <2>5. roots \subseteq Black /\ \A o \in Black : Children(o) \subseteq Black
    BY <2>2, <2>3, <2>4 DEF Shielded, GCInv, LiveInv, Allocated
  <2>6. LiveInv'
    BY <1>4, <2>1, <2>4, <2>5 DEF LiveInv, Black
  <2>7. ColorInv'
    BY <1>4, <2>1, <2>2 DEF GCInv, ColorInv, Assertions, Black, Block
  <2>8. Purity' /\ SATB'
    BY <1>4, <2>1, <2>2 DEF Purity, SATB
  <2>9. QED
    BY <2>6, <2>7, <2>8
<1>9. CASE SweepBlock
  BY <1>9, SweepBlockStep
<1>10. CASE EndSweep
  <2>1. /\ UNCHANGED <<color, fields, roots, toDarken, gray_vals, heap_is_pure, markhp>>
        /\ gc_phase = "sweep" /\ gc_phase' = "idle" /\ gc_sweep_hp = N + 1
    BY <1>10 DEF EndSweep, heapVars, stackVars
  <2>2. \A o \in Block : ~(o >= N + 1)
    BY NAssumption DEF Block
  <2>3. Black = {} /\ Live' = Live
    BY <1>4, <2>1, <2>2 DEF GCInv, ColorInv, Live, Doomed, White, Black
  <2>4. LiveInv'
    BY <1>4, <2>1, <2>3 DEF GCInv, LiveInv, Live, Allocated, White, Gray, Black
  <2>5. ColorInv' /\ Purity' /\ SATB'
    BY <1>4, <2>1, <2>3 DEF GCInv, ColorInv, Assertions, Purity, SATB
  <2>6. QED
    BY <2>4, <2>5
<1>11. QED
  BY <1>1, <1>2, <1>3, <1>5, <1>6, <1>7, <1>8, <1>9, <1>10
  DEF Collector, mark_slice, sweep_slice

-----------------------------------------------------------------------------
(* The theorems                                                            *)

\* The inductive invariant holds in every state of every behaviour.
LEMMA GCInvInvariant == Spec => []GCInv
<1>1. GCInv /\ [Next]_vars => GCInv'
  <2> SUFFICES ASSUME GCInv, [Next]_vars PROVE GCInv'
    OBVIOUS
  <2>1. TypeOK'
    BY TypeStep DEF GCInv
  <2>2. CASE Mutator
    BY <2>1, <2>2, MutatorStep DEF GCInv
  <2>3. CASE Collector
    BY <2>1, <2>3, CollectorStep DEF GCInv
  <2>4. CASE UNCHANGED vars
    <3>1. LiveInv'
      BY <2>4 DEF vars, GCInv, LiveInv, Live, Doomed, Allocated, White, Gray, Black,
         Children
    <3>2. ColorInv' /\ Purity'
      BY <2>4 DEF vars, GCInv, ColorInv, Assertions, Purity, White, Gray, Black
    <3>3. SATB'
      <4>1. /\ White' = White /\ Gray' = Gray /\ Black' = Black
            /\ \A p \in Block : Children(p)' = Children(p)
            /\ UNCHANGED <<roots, toDarken, gc_phase>>
        BY <2>4 DEF vars, White, Gray, Black, Children
      <4>2. ASSUME NEW S \in SUBSET Block, Closed(S)' PROVE Closed(S)
        BY <4>1, <4>2 DEF Closed, White, Gray
      <4>3. ASSUME NEW S \in SUBSET Block, Shielded(S) PROVE Shielded(S)'
        BY <4>1, <4>3 DEF Shielded, Black
      <4>4. QED
        BY <4>1, <4>2, <4>3 DEF GCInv, SATB
    <3>4. QED
      BY <2>1, <3>1, <3>2, <3>3 DEF GCInv
  <2>5. QED
    BY <2>2, <2>3, <2>4 DEF Next
<1>2. QED
  BY GCInit, <1>1, PTL DEF Spec

\* The collector's variables keep their types in every reachable state.
THEOREM TypeCorrect == Spec => []TypeOK
<1>1. GCInv => TypeOK
  BY DEF GCInv
<1>2. QED
  BY GCInvInvariant, <1>1, PTL

\* No step of marking, sweeping or allocating, in whatever order they interleave
\* with the evaluator, leaves a reachable block in free memory: Live contains
\* the roots and is closed under contents, so it contains what they reach.
THEOREM NothingReachableFreed == Spec => []ReachableAllocated
<1>1. ASSUME GCInv PROVE ReachableAllocated
  <2>1. Live \in SUBSET Block /\ Live \subseteq Allocated
    BY DEF Live, Allocated, White, Gray, Black
  <2>2. roots \subseteq Live /\ \A p \in Live : Children(p) \subseteq Live
    BY <1>1 DEF GCInv, LiveInv
  <2>3. QED
    BY <2>1, <2>2 DEF ReachableAllocated, Reachable
<1>2. QED
  BY GCInvInvariant, <1>1, PTL

\* The heap check of the debug runtime never fails, whenever it runs.
THEOREM HeapChecks == Spec => []HeapCheck
<1>1. ASSUME GCInv PROVE HeapCheck
  BY <1>1 DEF GCInv, HeapCheck, LiveInv, Live, Doomed, Allocated, White, Gray, Black
<1>2. QED
  BY GCInvInvariant, <1>1, PTL

\* heap_is_pure is never wrong: no gray block is lost, however small the stack.
THEOREM PurityHolds == Spec => []Purity
<1>1. GCInv => Purity
  BY DEF GCInv
<1>2. QED
  BY GCInvInvariant, <1>1, PTL

\* The assertions written in major_gc.c hold.
THEOREM AssertionsHold == Spec => []Assertions
<1>1. GCInv => Assertions
  BY DEF GCInv, ColorInv
<1>2. QED
  BY GCInvInvariant, <1>1, PTL

\* Together they are what the collector takes for granted of the heap, for every
\* size of the heap, of its blocks and of the mark stack.
THEOREM CollectorChecked == Spec => []CollectorChecks
<1>1. HeapCheck /\ Purity /\ Assertions => CollectorChecks
  BY DEF CollectorChecks
<1>2. QED
  BY HeapChecks, PurityHolds, AssertionsHold, <1>1, PTL

\* When the sweep is about to start every reachable block is marked.
THEOREM MarkingComplete == Spec => []NoWhiteReachable
<1>1. ASSUME GCInv, MarkingDone PROVE Reachable \cap White = {}
  <2>1. gc_phase = "mark" /\ toDarken = {} /\ Gray = {}
    BY <1>1 DEF GCInv, Purity, MarkingDone, Marking
  <2>2. Shielded({})
    BY <1>1, <2>1 DEF GCInv, SATB, Closed
  <2>3. Live = White \cup Black /\ Black \in SUBSET Block
    BY <2>1 DEF Live, Doomed, Allocated, White, Black
  <2>4. roots \subseteq Black /\ \A o \in Black : Children(o) \subseteq Black
    BY <1>1, <2>2, <2>3 DEF Shielded, GCInv, LiveInv
  <2>5. Reachable \subseteq Black
    BY <2>3, <2>4 DEF Reachable
  <2>6. QED
    BY <2>5 DEF White, Black
<1>2. GCInv => NoWhiteReachable
  BY <1>1 DEF NoWhiteReachable
<1>3. QED
  BY GCInvInvariant, <1>2, PTL

-----------------------------------------------------------------------------
(* The program cannot see the collector: marking shortens chains of        *)
(* indirections, and sweeping takes blocks away, but what a field of a     *)
(* reachable block leads to stays the same.                                *)
(*                                                                         *)
(* A chain of indirections has an end because an update makes an           *)
(* indirection to a block that is none, so that no circle arises; it has   *)
(* at most N links because there are no more blocks.                       *)

-----------------------------------------------------------------------------
(* Chains of indirections                                                  *)

Place == Block \cup {NULL}

Contents == [Block -> [Index -> Place]]

\* rank falls along the indirections F of a heap with the fields f.
Falls(rank, f, F) ==
  /\ rank \in [Block -> Nat]
  /\ \A o \in F : f[o][0] \in F => rank[f[o][0]] < rank[o]

\* g is the recursive function Behind of a heap with the fields f and the indirections F.
Chases(g, f, F) ==
  g = [k \in Nat |-> [v \in Place |-> IF k = 0 \/ v \notin F THEN v ELSE g[k - 1][f[v][0]]]]

BehindIn(f, F) == CHOOSE g : Chases(g, f, F)

\* where the chain from v ends
End(f, F, v) == BehindIn(f, F)[N][v]

\* The recursive function exists.
LEMMA ChaseExists ==
  ASSUME NEW f \in Contents, NEW F \in SUBSET Block
  PROVE  \E g : Chases(g, f, F)
<1> DEFINE U    == Nat \X Place
           goes == {u \in U : u[1] > 0 /\ u[2] \in F}
           next == [u \in goes |-> <<u[1] - 1, f[u[2]][0]>>]
<1>1. goes \in SUBSET U
  OBVIOUS
<1>2. next \in [goes -> U]
  BY NFAssumption DEF Contents, Index
<1>3. PICK h : Follows(h, U, goes, next)
  <2> HIDE DEF U, goes, next
  <2>1. QED
    BY ONLY <1>1, <1>2, FollowExists, Zenon
<1> DEFINE g == [k \in Nat |-> [v \in Place |-> LET e == h[<<k, v>>] IN e[2]]]
<1>4. h = [u \in U |-> IF u \in goes THEN h[next[u]] ELSE u]
  BY <1>3 DEF Follows
<1>5. ASSUME NEW k \in Nat, NEW v \in Place
      PROVE  g[k][v] = IF k = 0 \/ v \notin F THEN v ELSE g[k - 1][f[v][0]]
  <2>1. <<k, v>> \in U /\ h[<<k, v>>] = IF <<k, v>> \in goes THEN h[next[<<k, v>>]] ELSE <<k, v>>
    BY <1>4
  <2>2. g[k][v] = LET e == h[<<k, v>>] IN e[2]
    OBVIOUS
  <2>3. CASE k = 0 \/ v \notin F
    BY <2>1, <2>2, <2>3
  <2>4. CASE ~(k = 0 \/ v \notin F)
    <3>1. <<k, v>> \in goes /\ next[<<k, v>>] = <<k - 1, f[v][0]>>
      BY <2>4
    <3>2. k - 1 \in Nat /\ f[v][0] \in Place
      BY <2>4, NFAssumption DEF Contents, Index
    <3>3. g[k - 1][f[v][0]] = LET e == h[<<k - 1, f[v][0]>>] IN e[2]
      BY <3>2
    <3>4. QED
      BY <3>1, <3>3, <2>1, <2>2, <2>4
  <2>5. QED
    BY <2>3, <2>4
<1>6. g = [k \in Nat |-> [v \in Place |-> g[k][v]]]
  OBVIOUS
<1> HIDE DEF g
<1>7. [k \in Nat |-> [v \in Place |-> g[k][v]]]
        = [k \in Nat |-> [v \in Place |-> IF k = 0 \/ v \notin F THEN v ELSE g[k - 1][f[v][0]]]]
  BY <1>5
<1>8. Chases(g, f, F)
  BY <1>6, <1>7 DEF Chases
<1>9. QED
  BY <1>8

\* Its equation.
LEMMA ChaseIs ==
  ASSUME NEW f \in Contents, NEW F \in SUBSET Block, NEW k \in Nat, NEW v \in Place
  PROVE  BehindIn(f, F)[k][v] = IF k = 0 \/ v \notin F THEN v ELSE BehindIn(f, F)[k - 1][f[v][0]]
<1>1. Chases(BehindIn(f, F), f, F)
  BY ChaseExists DEF BehindIn
<1> DEFINE g == BehindIn(f, F)
<1> HIDE DEF g
<1>2. g = [j \in Nat |-> [w \in Place |-> IF j = 0 \/ w \notin F THEN w ELSE g[j - 1][f[w][0]]]]
  BY <1>1 DEF Chases, g
<1>3. g[k] = [w \in Place |-> IF k = 0 \/ w \notin F THEN w ELSE g[k - 1][f[w][0]]]
  BY <1>2
<1>4. g[k][v] = IF k = 0 \/ v \notin F THEN v ELSE g[k - 1][f[v][0]]
  BY <1>3
<1>5. QED
  BY <1>4 DEF g

\* A link more does not lead further than as many links as there are indirections below.
LEMMA ChaseEnds ==
  ASSUME NEW f \in Contents, NEW F \in SUBSET Block, NEW rank, Falls(rank, f, F)
  PROVE  \A k \in Nat : \A v \in Place :
           (v \in F => Cardinality({o \in F : rank[o] <= rank[v]}) <= k)
             => BehindIn(f, F)[k + 1][v] = BehindIn(f, F)[k][v]
<1> DEFINE B        == BehindIn(f, F)
           Below(v) == {o \in F : rank[o] <= rank[v]}
           Near(v, k) == v \in F => Cardinality(Below(v)) <= k
           Stays(k) == \A v \in Place : Near(v, k) => B[k + 1][v] = B[k][v]
           T        == {k \in Nat : ~Stays(k)}
<1>1. \A k \in Nat, v \in Place : B[k][v] = IF k = 0 \/ v \notin F THEN v ELSE B[k - 1][f[v][0]]
  BY ChaseIs
<1>2. \A v \in Block : f[v][0] \in Place
  BY NFAssumption DEF Contents, Index
<1>3. IsFiniteSet(F)
  <2>1. IsFiniteSet(Block)
    BY FS_Interval, NAssumption DEF Block
  <2>2. QED
    BY <2>1, FS_Subset
<1>4. ASSUME NEW v \in F PROVE Cardinality(Below(v)) \in Nat /\ Cardinality(Below(v)) > 0
  <2>1. IsFiniteSet(Below(v))
    BY <1>3, FS_Subset
  <2>2. v \in Below(v)
    BY <1>4 DEF Falls
  <2>3. QED
    BY <2>1, <2>2, FS_EmptySet, FS_CardinalityType
<1>5. ASSUME NEW v \in F, f[v][0] \in F
      PROVE  Cardinality(Below(f[v][0])) < Cardinality(Below(v))
  <2> DEFINE w == f[v][0]
  <2>1. rank[w] < rank[v] /\ rank[w] \in Nat /\ rank[v] \in Nat /\ rank \in [Block -> Nat]
    BY <1>5 DEF Falls
  <2>2. Below(w) \subseteq Below(v) \ {v}
    BY <2>1
  <2>3. IsFiniteSet(Below(v)) /\ v \in Below(v)
    BY <1>3, <2>1, FS_Subset
  <2>4. Cardinality(Below(v) \ {v}) = Cardinality(Below(v)) - 1 /\ IsFiniteSet(Below(v) \ {v})
    BY <2>3, FS_RemoveElement
  <2>5. Cardinality(Below(w)) <= Cardinality(Below(v) \ {v})
    BY <2>2, <2>4, FS_Subset
  <2>6. Cardinality(Below(w)) \in Nat /\ Cardinality(Below(v)) \in Nat
    BY <1>4, <1>5
  <2>7. QED
    BY <2>4, <2>5, <2>6
<1> HIDE DEF B, Below
<1>6. ASSUME NEW k \in Nat, \A j \in Nat : j < k => Stays(j) PROVE Stays(k)
  <2> SUFFICES ASSUME NEW v \in Place, Near(v, k) PROVE B[k + 1][v] = B[k][v]
    OBVIOUS
  <2>1. CASE v \notin F
    BY <2>1, <1>1
  <2>2. CASE v \in F
    <3>1. k > 0 /\ k - 1 \in Nat
      BY <2>2, <1>4
    <3>2. B[k + 1][v] = B[k][f[v][0]] /\ B[k][v] = B[k - 1][f[v][0]]
      BY <2>2, <3>1, <1>1
    <3>3. Near(f[v][0], k - 1)
      BY <2>2, <3>1, <1>4, <1>5
    <3>4. f[v][0] \in Place
      BY <2>2, <1>2
    <3>5. Stays(k - 1) /\ (k - 1) + 1 = k
      BY <3>1, <1>6
    <3>6. QED
      BY <3>2, <3>3, <3>4, <3>5
  <2>3. QED
    BY <2>1, <2>2
<1>7. T = {}
  <2> HIDE DEF Stays
  <2> SUFFICES ASSUME T # {} PROVE FALSE
    OBVIOUS
  <2>1. PICK k \in T : \A j \in T : k <= j
    <3>1. T \in SUBSET Nat
      OBVIOUS
    <3> HIDE DEF T
    <3>2. QED
      BY <3>1, SmallestNumber
  <2>2. \A j \in Nat : j < k => Stays(j)
    BY <2>1
  <2>3. QED
    BY <2>1, <2>2, <1>6
<1>8. QED
  BY <1>7 DEF B, Below

\* The end of a chain is where its next link leads to.
LEMMA EndIs ==
  ASSUME NEW f \in Contents, NEW F \in SUBSET Block, NEW rank, Falls(rank, f, F), NEW v \in Place
  PROVE  End(f, F, v) = IF v \in F THEN End(f, F, f[v][0]) ELSE v
<1> DEFINE B == BehindIn(f, F)
           w == f[v][0]
           Below(x) == {o \in F : rank[o] <= rank[x]}
<1>1. CASE v \notin F
  BY <1>1, ChaseIs, NAssumption DEF End
<1>2. CASE v \in F
  <2>1. w \in Place /\ v \in Block
    BY <1>2, NFAssumption DEF Contents, Index
  <2>2. B[N][v] = B[N - 1][w]
    BY <1>2, ChaseIs, NAssumption
  <2>3. ASSUME w \in F PROVE Cardinality(Below(w)) <= N - 1
    <3>1. rank[w] < rank[v] /\ rank[w] \in Nat /\ rank[v] \in Nat
      BY <1>2, <2>1, <2>3 DEF Falls
    <3>2. Below(w) \subseteq Block \ {v}
      BY <3>1
    <3>3. IsFiniteSet(Block) /\ Cardinality(Block) = N
      BY FS_Interval, NAssumption DEF Block
    <3>4. IsFiniteSet(Block \ {v}) /\ Cardinality(Block \ {v}) = N - 1
      BY <2>1, <3>3, FS_RemoveElement
    <3>5. QED
      BY <3>2, <3>4, FS_Subset
  <2>4. PICK k \in Nat : k = N - 1 /\ k + 1 = N
    BY NAssumption
  <2>5. B[N][w] = B[N - 1][w]
    <3>1. \A j \in Nat : \A x \in Place :
            (x \in F => Cardinality(Below(x)) <= j) => B[j + 1][x] = B[j][x]
      BY ChaseEnds
    <3> HIDE DEF B, Below, w
    <3>2. B[k + 1][w] = B[k][w]
      BY <3>1, <2>1, <2>3, <2>4
    <3>3. QED
      BY <3>2, <2>4
  <2>6. QED
    BY <1>2, <2>2, <2>5 DEF End
<1>3. QED
  BY <1>1, <1>2

\* Two heaps whose chains from S agree, but for a link that the second skips, have the same
\* ends there.
LEMMA SameEnds ==
  ASSUME NEW f \in Contents, NEW F \in SUBSET Block, NEW g \in Contents, NEW G \in SUBSET Block,
         NEW rank, Falls(rank, f, F), Falls(rank, g, G), NEW S \in SUBSET Place,
         \A v \in S : /\ v \in G <=> v \in F
                      /\ v \in F => /\ f[v][0] \in S
                                    /\ \/ g[v][0] = f[v][0]
                                       \/ f[v][0] \in F /\ g[v][0] = f[f[v][0]][0]
  PROVE  \A v \in S : End(g, G, v) = End(f, F, v)
<1> DEFINE Same(v) == End(g, G, v) = End(f, F, v)
           T == {rank[v] : v \in {x \in S \cap F : ~Same(x)}}
<1>1. \A v \in Place : /\ End(f, F, v) = IF v \in F THEN End(f, F, f[v][0]) ELSE v
                       /\ End(g, G, v) = IF v \in G THEN End(g, G, g[v][0]) ELSE v
  BY EndIs
<1>2. \A v \in S : v \notin F => Same(v)
  BY <1>1
<1>3. rank \in [Block -> Nat] /\ \A v \in F : f[v][0] \in F => rank[f[v][0]] < rank[v]
  BY DEF Falls
<1>4. ASSUME NEW v \in S \cap F, \A w \in S \cap F : rank[w] < rank[v] => Same(w)
      PROVE  Same(v)
  <2> DEFINE w == f[v][0]
  <2>1. w \in S /\ Same(w)
    BY <1>2, <1>3, <1>4
  <2>2. End(f, F, v) = End(f, F, w) /\ End(g, G, v) = End(g, G, g[v][0])
    BY <1>1, <1>4
  <2>3. CASE g[v][0] = w
    BY <2>1, <2>2, <2>3
  <2>4. CASE w \in F /\ g[v][0] = f[w][0]
    <3> DEFINE u == f[w][0]
    <3>1. u \in S /\ End(f, F, w) = End(f, F, u)
      BY <2>1, <2>4, <1>1
    <3>2. u \in F => rank[u] < rank[w] /\ rank[w] < rank[v]
      BY <2>4, <1>3, <1>4
    <3>3. u \in F => rank[u] < rank[v]
      BY <3>2, <2>4, <1>3, <1>4
    <3>4. Same(u)
      BY <3>1, <3>3, <1>2, <1>4
    <3>5. QED
      BY <2>2, <2>4, <3>1, <3>4
  <2>5. QED
    BY <2>3, <2>4, <1>4
<1> HIDE DEF Same
<1>5. T = {}
  <2> SUFFICES ASSUME T # {} PROVE FALSE
    OBVIOUS
  <2>1. PICK n \in T : \A m \in T : n <= m
    <3>1. T \in SUBSET Nat
      BY <1>3
    <3> HIDE DEF T
    <3>2. QED
      BY <3>1, SmallestNumber
  <2>2. PICK v \in S \cap F : n = rank[v] /\ ~Same(v)
    BY <2>1
  <2>3. ASSUME NEW w \in S \cap F, rank[w] < rank[v] PROVE Same(w)
    <3>1. ~Same(w) => rank[w] \in T
      OBVIOUS
    <3>2. ~(n <= rank[w])
      BY <1>3, <2>2, <2>3
    <3>3. QED
      BY <2>1, <3>1, <3>2
  <2>4. QED
    BY <2>2, <2>3, <1>4
<1>6. QED
  BY <1>2, <1>5 DEF Same

-----------------------------------------------------------------------------
(* The invariant                                                           *)

\* Only blocks in use are indirections, and these make no circle.
ForwardInv ==
  /\ fwd \subseteq Allocated
  /\ \E rank : Falls(rank, fields, fwd)

\* The heap has the types of the lemmas.
LEMMA HeapTypes == TypeOK => fields \in Contents /\ fwd \in SUBSET Block
  BY DEF TypeOK, Contents, Place

\* A step that changes no indirection.
LEMMA LinksKept ==
  ASSUME ForwardInv, fwd' = fwd, \A o \in fwd : fields'[o][0] = fields[o][0], Allocated \subseteq Allocated'
  PROVE  ForwardInv'
<1>1. PICK rank : Falls(rank, fields, fwd)
  BY DEF ForwardInv
<1>2. Falls(rank, fields', fwd')
  BY <1>1 DEF Falls
<1>3. QED
  BY <1>2 DEF ForwardInv

\* An update makes an indirection to a block that is none.
LEMMA IndirectForward ==
  ASSUME GCInv, ForwardInv, NEW o \in Block, NEW v \in Block \cup {NULL}, Indirect(o, v)
  PROVE  ForwardInv'
<1>1. /\ o \in roots /\ v \notin fwd /\ v # o
      /\ fields' = [fields EXCEPT ![o][0] = v]
      /\ fwd' = fwd \cup {o}
      /\ Barrier(fields[o][0])
  BY DEF Indirect
<1>2. Allocated' = Allocated
  BY <1>1, BarrierEffect DEF GCInv
<1>3. PICK rank : Falls(rank, fields, fwd)
  BY DEF ForwardInv
<1>4. fields \in Contents /\ fwd \in SUBSET Block
  BY HeapTypes DEF GCInv
<1>5. /\ \A x \in Block \ {o} : fields'[x][0] = fields[x][0]
      /\ fields'[o][0] = v
  BY <1>1, <1>4, NFAssumption DEF Contents, Index
<1> DEFINE r == [x \in Block |-> IF x = o THEN 0 ELSE rank[x] + 1]
<1>6. Falls(r, fields', fwd')
  <2>1. r \in [Block -> Nat]
    BY <1>3 DEF Falls
  <2>2. ASSUME NEW x \in fwd', fields'[x][0] \in fwd' PROVE r[fields'[x][0]] < r[x]
    <3>1. x # o /\ x \in fwd /\ x \in Block /\ fields'[x][0] = fields[x][0]
      BY <2>2, <1>1, <1>4, <1>5
    <3>2. CASE fields[x][0] = o
      BY <3>1, <3>2, <1>3 DEF Falls
    <3>3. CASE fields[x][0] # o
      <4>1. fields[x][0] \in fwd /\ fields[x][0] \in Block
        BY <3>1, <3>3, <2>2, <1>1, <1>4
      <4>2. rank[fields[x][0]] < rank[x] /\ rank[x] \in Nat /\ rank[fields[x][0]] \in Nat
        BY <4>1, <3>1, <1>3 DEF Falls
      <4>3. QED
        BY <4>1, <4>2, <3>1, <3>3
    <3>4. QED
      BY <3>2, <3>3
  <2> HIDE DEF r
  <2>3. QED
    BY <2>1, <2>2 DEF Falls
<1>7. fwd' \subseteq Allocated'
  BY <1>1, <1>2 DEF ForwardInv, GCInv, LiveInv, Live
<1>8. QED
  BY <1>6, <1>7 DEF ForwardInv

\* What marking does to a field.
LEMMA MarkFields ==
  ASSUME GCInv, NEW b \in Block, MarkBlock(b)
  PROVE  /\ fwd' = fwd /\ Allocated' = Allocated
         /\ \A o \in Block, i \in Index :
              \/ fields'[o][i] = fields[o][i]
              \/ fields[o][i] \in fwd /\ fields'[o][i] = fields[fields[o][i]][0]
<1>1. /\ b \in gray_vals /\ fwd' = fwd
      /\ color' = [color EXCEPT ![b] = "black"]
      /\ fields' = [fields EXCEPT ![b] = [i \in Index |-> Shortcut(fields[b][i])]]
  BY DEF MarkBlock
<1>2. Allocated' = Allocated
  BY <1>1 DEF Allocated, White, Gray, Black, GCInv, ColorInv, Assertions, TypeOK
<1>3. ASSUME NEW o \in Block, NEW i \in Index
      PROVE  \/ fields'[o][i] = fields[o][i]
             \/ fields[o][i] \in fwd /\ fields'[o][i] = fields[fields[o][i]][0]
  <2>1. CASE o = b
    <3>1. fields'[o][i] = Shortcut(fields[o][i])
      BY <1>1, <2>1 DEF GCInv, TypeOK
    <3>2. QED
      BY <3>1 DEF Shortcut
  <2>2. CASE o # b
    BY <1>1, <2>2 DEF GCInv, TypeOK
  <2>3. QED
    BY <2>1, <2>2
<1>4. QED
  BY <1>1, <1>2, <1>3

\* Marking keeps the ranks.
LEMMA MarkRanks ==
  ASSUME GCInv, NEW b \in Block, MarkBlock(b), NEW rank, Falls(rank, fields, fwd)
  PROVE  Falls(rank, fields', fwd')
<1>1. /\ fwd' = fwd
      /\ \A o \in Block : \/ fields'[o][0] = fields[o][0]
                          \/ fields[o][0] \in fwd /\ fields'[o][0] = fields[fields[o][0]][0]
  BY MarkFields, NFAssumption DEF Index
<1>2. /\ rank \in [Block -> Nat] /\ fwd \subseteq Block
      /\ \A o \in fwd : fields[o][0] \in fwd => rank[fields[o][0]] < rank[o]
  BY DEF Falls, GCInv, TypeOK
<1>3. ASSUME NEW o \in fwd, fields'[o][0] \in fwd PROVE rank[fields'[o][0]] < rank[o]
  <2>1. CASE fields'[o][0] = fields[o][0]
    BY <2>1, <1>2, <1>3
  <2>2. CASE fields[o][0] \in fwd /\ fields'[o][0] = fields[fields[o][0]][0]
    <3>1. rank[fields'[o][0]] < rank[fields[o][0]] /\ rank[fields[o][0]] < rank[o]
      BY <2>2, <1>2, <1>3
    <3>2. QED
      BY <3>1, <2>2, <1>2, <1>3
  <2>3. QED
    BY <2>1, <2>2, <1>1, <1>2
<1>4. QED
  BY <1>1, <1>2, <1>3 DEF Falls

\* What sweeping does to a field: only those of the block that is freed change, and this
\* is none that the program can reach.
LEMMA SweepFields ==
  ASSUME GCInv, SweepBlock
  PROVE  \E h \in Block :
           /\ fwd' \subseteq fwd /\ fwd \subseteq fwd' \cup {h}
           /\ Allocated \subseteq Allocated' \cup {h}
           /\ \A o \in Block \ {h} : fields'[o] = fields[o]
           /\ \/ h \notin Live /\ h \notin fwd'
              \/ fields' = fields /\ fwd' = fwd /\ Allocated' = Allocated
<1>1. PICK h \in Block : h = gc_sweep_hp
  BY NAssumption DEF SweepBlock, GCInv, TypeOK, Block
<1>2. /\ gc_phase = "sweep" /\ color' = [color EXCEPT ![h] = SweptColor(color[h])]
      /\ IF color[h] = "white"
         THEN /\ fields' = [fields EXCEPT ![h] = [i \in Index |-> NULL]]
              /\ fwd' = fwd \ {h}
         ELSE UNCHANGED <<fields, fwd>>
  BY <1>1 DEF SweepBlock, GCInv, TypeOK
<1>3. Allocated \subseteq Allocated' \cup {h}
  BY <1>2 DEF Allocated, White, Gray, Black, GCInv, TypeOK
<1>4. CASE color[h] = "white"
  <2>1. h \notin Live
    BY <1>1, <1>2, <1>4 DEF Live, Doomed, White, Block
  <2>2. \A o \in Block \ {h} : fields'[o] = fields[o]
    BY <1>2, <1>4 DEF GCInv, TypeOK
  <2>3. QED
    BY <1>1, <1>2, <1>3, <1>4, <2>1, <2>2
<1>5. CASE color[h] # "white"
  <2>1. fields' = fields /\ fwd' = fwd
    BY <1>2, <1>5
  <2>2. Allocated' = Allocated
    BY <1>2, <1>5 DEF Allocated, White, Gray, Black, SweptColor, GCInv, TypeOK
  <2>3. QED
    BY <1>1, <2>1, <2>2
<1>6. QED
  BY <1>4, <1>5

\* Sweeping keeps the ranks.
LEMMA SweepRanks ==
  ASSUME GCInv, SweepBlock, NEW rank, Falls(rank, fields, fwd)
  PROVE  Falls(rank, fields', fwd')
<1>1. PICK h \in Block :
        /\ fwd' \subseteq fwd
        /\ \A o \in Block \ {h} : fields'[o] = fields[o]
        /\ h \notin fwd' \/ fields' = fields
  BY SweepFields
<1>2. \A o \in fwd' : fields'[o][0] = fields[o][0]
  BY <1>1 DEF GCInv, TypeOK
<1>3. QED
  BY <1>1, <1>2 DEF Falls

\* Every step of the program and of the collector keeps the invariant.
LEMMA ForwardStep == GCInv /\ ForwardInv /\ [Next]_vars => ForwardInv'
<1> SUFFICES ASSUME GCInv, ForwardInv, [Next]_vars PROVE ForwardInv'
  OBVIOUS
<1> USE DEF heapVars
<1>t. TypeOK /\ ColorInv /\ Purity
  BY DEF GCInv
<1>1. CASE UNCHANGED heapVars
  <2>1. Allocated' = Allocated
    BY <1>1 DEF Allocated, White, Gray, Black
  <2>2. QED
    BY <1>1, <2>1, LinksKept
<1>2. CASE DarkenNext
  <2>1. PICK o \in toDarken : Darken(o)
    BY <1>2 DEF DarkenNext
  <2>2. Allocated' = Allocated
    BY <2>1, <1>t, DarkenEffect
  <2>3. fields' = fields /\ fwd' = fwd
    BY <1>2 DEF DarkenNext
  <2>4. QED
    BY <2>2, <2>3, LinksKept
<1>3. ASSUME NEW o \in Block, NEW i \in Index, NEW v \in Block \cup {NULL}, Modify(o, i, v)
      PROVE  ForwardInv'
  <2>1. /\ o \notin fwd /\ fwd' = fwd /\ fields' = [fields EXCEPT ![o][i] = v]
        /\ Barrier(fields[o][i])
    BY <1>3 DEF Modify
  <2>2. Allocated' = Allocated
    BY <2>1, <1>t, BarrierEffect
  <2>3. \A x \in fwd : fields'[x][0] = fields[x][0]
    BY <2>1, <1>t DEF TypeOK
  <2>4. QED
    BY <2>1, <2>2, <2>3, LinksKept
<1>4. ASSUME NEW o \in Block, NEW f \in [Index -> Block \cup {NULL}], alloc_shr(o, f)
      PROVE  ForwardInv'
  <2>1. /\ color[o] \in {"blue", "absent"} /\ fwd' = fwd
        /\ color' = [color EXCEPT ![o] = allocation_color(o)]
        /\ fields' = [fields EXCEPT ![o] = f]
    BY <1>4 DEF alloc_shr
  <2>2. o \notin fwd
    BY <2>1 DEF ForwardInv, Allocated, White, Gray, Black
  <2>3. Allocated \subseteq Allocated'
    BY <2>1, <1>t DEF Allocated, White, Gray, Black, allocation_color, TypeOK
  <2>4. \A x \in fwd : fields'[x][0] = fields[x][0]
    BY <2>1, <2>2, <1>t DEF TypeOK
  <2>5. QED
    BY <2>1, <2>3, <2>4, LinksKept
<1>5. CASE Mutator
  <2>1. CASE \E o \in Block, i \in Index : Read(o, i)
    BY <2>1, <1>1 DEF Read
  <2>2. CASE \E o \in Block : Drop(o)
    BY <2>2, <1>1 DEF Drop
  <2>3. CASE \E o \in Block : \E v \in Block \cup {NULL} : Indirect(o, v)
    BY <2>3, IndirectForward
  <2>4. QED
    BY <1>5, <2>1, <2>2, <2>3, <1>3, <1>4 DEF Mutator
<1>6. ASSUME NEW b \in Block, MarkBlock(b) PROVE ForwardInv'
  <2>1. PICK rank : Falls(rank, fields, fwd)
    BY DEF ForwardInv
  <2>2. Falls(rank, fields', fwd')
    BY <1>6, <2>1, MarkRanks
  <2>3. fwd' = fwd /\ Allocated' = Allocated
    BY <1>6, MarkFields
  <2>4. QED
    BY <2>2, <2>3 DEF ForwardInv
<1>7. CASE SweepBlock
  <2>1. PICK rank : Falls(rank, fields, fwd)
    BY DEF ForwardInv
  <2>2. Falls(rank, fields', fwd')
    BY <1>7, <2>1, SweepRanks
  <2>3. PICK h \in Block :
          /\ fwd' \subseteq fwd /\ Allocated \subseteq Allocated' \cup {h}
          /\ h \notin fwd' \/ (fwd' = fwd /\ Allocated' = Allocated)
    BY <1>7, SweepFields
  <2>4. fwd' \subseteq Allocated'
    BY <2>3 DEF ForwardInv
  <2>5. QED
    BY <2>2, <2>4 DEF ForwardInv
<1>8. CASE start_cycle \/ Rescan \/ StartRescan \/ NextSubphase \/ StartSweep \/ EndSweep
  BY <1>8, <1>1 DEF start_cycle, Rescan, StartRescan, NextSubphase, StartSweep, EndSweep
<1>9. CASE UNCHANGED vars
  BY <1>9, <1>1 DEF vars
<1>10. QED
  BY <1>2, <1>5, <1>6, <1>7, <1>8, <1>9 DEF Next, Collector, mark_slice, sweep_slice

\* Both invariants hold at all times.
LEMMA ForwardInvariant == Spec => [](GCInv /\ ForwardInv)
<1>1. Init => ForwardInv
  <2> SUFFICES ASSUME Init PROVE ForwardInv
    OBVIOUS
  <2>1. Falls([o \in Block |-> 0], fields, fwd)
    BY DEF Init, Falls
  <2>2. QED
    BY <2>1 DEF Init, ForwardInv
<1>2. ForwardInv /\ GCInv /\ [Next]_vars => ForwardInv'
  BY ForwardStep
<1>3. QED
  BY <1>1, <1>2, GCInvInvariant, PTL DEF Spec

-----------------------------------------------------------------------------
(* The theorem                                                             *)

\* Behind is BehindIn of the heap.
LEMMA SeenIs ==
  ASSUME NEW o, NEW i
  PROVE  /\ Seen(o, i) = End(fields, fwd, fields[o][i])
         /\ Seen(o, i)' = End(fields', fwd', fields'[o][i])
<1>1. Behind = BehindIn(fields, fwd) /\ Behind' = BehindIn(fields', fwd')
  BY DEF Behind, BehindIn, Chases, Place
<1>2. QED
  BY <1>1 DEF Seen, End

\* Whatever the program can reach was in use and stays.
LEMMA ReachableLive ==
  ASSUME GCInv
  PROVE  Reachable \subseteq Live /\ \A o \in Live, i \in Index : fields[o][i] \in Live \cup {NULL}
<1>1. Live \in SUBSET Block /\ roots \subseteq Live /\ \A p \in Live : Children(p) \subseteq Live
  BY DEF GCInv, LiveInv, Live, Allocated, White, Gray, Black
<1>2. Reachable \subseteq Live
  BY <1>1 DEF Reachable
<1>3. QED
  BY <1>1, <1>2 DEF Children

\* Marking changes no end.
LEMMA MarkInvisible ==
  ASSUME GCInv, ForwardInv, GCInv', NEW b \in Block, MarkBlock(b), NEW o \in Block, NEW i \in Index
  PROVE  End(fields', fwd', fields'[o][i]) = End(fields, fwd, fields[o][i])
<1>1. PICK rank : Falls(rank, fields, fwd)
  BY DEF ForwardInv
<1>2. Falls(rank, fields', fwd')
  BY <1>1, MarkRanks
<1>3. /\ fields \in Contents /\ fwd \in SUBSET Block
      /\ fields' \in Contents /\ fwd' \in SUBSET Block
  BY HeapTypes DEF GCInv, TypeOK, Contents, Place
<1>4. /\ fwd' = fwd
      /\ \A x \in Block, j \in Index :
           \/ fields'[x][j] = fields[x][j]
           \/ fields[x][j] \in fwd /\ fields'[x][j] = fields[fields[x][j]][0]
  BY MarkFields
<1>5. PICK f, F, g, G : f = fields /\ F = fwd /\ g = fields' /\ G = fwd'
  OBVIOUS
<1>6. /\ Falls(rank, f, F) /\ Falls(rank, g, G)
      /\ f \in Contents /\ F \in SUBSET Block /\ g \in Contents /\ G \in SUBSET Block
  BY <1>1, <1>2, <1>3, <1>5
<1>7. \A v \in Place :
        /\ v \in G <=> v \in F
        /\ v \in F => /\ f[v][0] \in Place
                      /\ g[v][0] = f[v][0] \/ (f[v][0] \in F /\ g[v][0] = f[f[v][0]][0])
  BY <1>4, <1>5, <1>6, NFAssumption DEF Contents, Index
<1>8. \A v \in Place : End(g, G, v) = End(f, F, v)
  BY ONLY <1>6, <1>7, SameEnds
<1>9. f[o][i] \in Place /\ g[o][i] \in Place
  BY <1>6 DEF Contents
<1>10. End(f, F, g[o][i]) = End(f, F, f[o][i])
  <2>1. CASE g[o][i] = f[o][i]
    BY <2>1
  <2>2. CASE f[o][i] \in F /\ g[o][i] = f[f[o][i]][0]
    BY <2>2, <1>6, <1>9, EndIs
  <2>3. QED
    BY <2>1, <2>2, <1>4, <1>5
<1>11. End(g, G, g[o][i]) = End(f, F, f[o][i])
  BY <1>8, <1>9, <1>10
<1>12. QED
  BY <1>5, <1>11

\* What the sweep leaves to the program was there before.
LEMMA SweepLive == ASSUME GCInv, SweepBlock PROVE Live' \subseteq Live
<1>1. PICK h \in Block : h = gc_sweep_hp
  BY NAssumption DEF SweepBlock, GCInv, TypeOK, Block
<1>2. /\ gc_phase = "sweep" /\ gc_phase' = "sweep" /\ gc_sweep_hp' = h + 1 /\ h \in Int
      /\ color' = [color EXCEPT ![h] = SweptColor(color[h])]
  BY <1>1 DEF SweepBlock, Block
<1>3. ASSUME NEW o \in Live' PROVE o \in Live
  <2>1. o \in Block /\ color'[o] \in {"white", "gray", "black"} /\ ~(color'[o] = "white" /\ o >= h + 1)
    BY <1>2 DEF Live, Doomed, Allocated, White, Gray, Black
  <2>2. CASE o = h
    BY <1>1, <1>2, <2>1, <2>2 DEF SweptColor, Live, Doomed, Allocated, White, Gray, Black, GCInv, TypeOK
  <2>3. CASE o # h
    BY <1>1, <1>2, <2>1, <2>3 DEF Live, Doomed, Allocated, White, Gray, Black, GCInv, TypeOK, Block
  <2>4. QED
    BY <2>2, <2>3
<1>4. QED
  BY <1>3

\* Sweeping changes no end that a live block leads to.
LEMMA SweepInvisible ==
  ASSUME GCInv, ForwardInv, GCInv', SweepBlock, NEW o \in Live', NEW i \in Index
  PROVE  End(fields', fwd', fields'[o][i]) = End(fields, fwd, fields[o][i])
<1>1. PICK rank : Falls(rank, fields, fwd)
  BY DEF ForwardInv
<1>2. Falls(rank, fields', fwd')
  BY <1>1, SweepRanks
<1>3. /\ fields \in Contents /\ fwd \in SUBSET Block
      /\ fields' \in Contents /\ fwd' \in SUBSET Block
  BY HeapTypes DEF GCInv, TypeOK, Contents, Place
<1>4. CASE fields' = fields /\ fwd' = fwd
  BY <1>4
<1>5. CASE ~(fields' = fields /\ fwd' = fwd)
  <2>1. PICK h \in Block :
          /\ fwd' \subseteq fwd /\ fwd \subseteq fwd' \cup {h}
          /\ \A x \in Block \ {h} : fields'[x] = fields[x]
          /\ h \notin Live
    BY <1>5, SweepFields
  <2>2. o \in Live
    BY SweepLive
  <2>3. PICK f, F, g, G, L, S : /\ f = fields /\ F = fwd /\ g = fields' /\ G = fwd' /\ L = Live
                                /\ S = L \cup {NULL}
    OBVIOUS
  <2>4. /\ Falls(rank, f, F) /\ Falls(rank, g, G)
        /\ f \in Contents /\ F \in SUBSET Block /\ g \in Contents /\ G \in SUBSET Block
    BY <1>1, <1>2, <1>3, <2>3
  <2>5. /\ L \in SUBSET Block /\ h \notin L /\ o \in L
        /\ \A x \in L, j \in Index : f[x][j] \in L \cup {NULL}
    BY <2>1, <2>2, <2>3, ReachableLive DEF Live, Allocated, White, Gray, Black
  <2>6. S \in SUBSET Place
    BY <2>3, <2>5 DEF Place
  <2>7. \A v \in S :
          /\ v \in G <=> v \in F
          /\ v \in F => /\ f[v][0] \in S
                        /\ g[v][0] = f[v][0] \/ (f[v][0] \in F /\ g[v][0] = f[f[v][0]][0])
    <3> SUFFICES ASSUME NEW v \in S
                 PROVE  /\ v \in G <=> v \in F
                        /\ v \in F => f[v][0] \in S /\ g[v][0] = f[v][0]
      OBVIOUS
    <3>1. v \notin F => v \notin G
      BY <2>1, <2>3
    <3>2. ASSUME v \in F PROVE v \in L /\ v \in G /\ v \in Block
      <4>1. v \in L /\ v \in Block
        BY <3>2, <2>3, <2>4 DEF Block, NULL
      <4>2. v # h
        BY <4>1, <2>5
      <4>3. QED
        BY <4>1, <4>2, <3>2, <2>1, <2>3
    <3>3. ASSUME v \in F PROVE f[v][0] \in S /\ g[v][0] = f[v][0]
      <4>1. g[v] = f[v]
        BY <3>2, <3>3, <2>1, <2>3, <2>5
      <4>2. f[v][0] \in S
        BY <3>2, <3>3, <2>3, <2>5, NFAssumption DEF Index
      <4>3. QED
        BY <4>1, <4>2
    <3>4. QED
      BY <3>1, <3>2, <3>3
  <2>8. \A v \in S : End(g, G, v) = End(f, F, v)
    BY ONLY <2>4, <2>6, <2>7, SameEnds
  <2>9. g[o][i] = f[o][i] /\ f[o][i] \in S
    BY <2>1, <2>3, <2>5
  <2>10. End(g, G, g[o][i]) = End(f, F, f[o][i])
    BY <2>8, <2>9
  <2>11. QED
    BY <2>3, <2>10
<1>6. QED
  BY <1>4, <1>5

\* A step of the collector changes nothing that the program can see: wherever a slice is
\* interrupted, each field of a reachable block leads through indirections to what it led
\* to before (major_gc.c 109-278).
THEOREM CollectorUnseen == Spec => CollectorInvisible
<1>r. GCInv => Reachable \subseteq Live
  BY ReachableLive
<1>s. (GCInv => Reachable \subseteq Live)'
  BY <1>r, PTL
<1>1. ASSUME GCInv, ForwardInv, GCInv', Collector, NEW o \in Reachable', NEW i \in Index
      PROVE  Seen(o, i)' = Seen(o, i)
  <2>1. o \in Live' /\ o \in Block
    BY <1>1, <1>s DEF Live, Allocated, White, Gray, Black
  <2>2. /\ Seen(o, i) = End(fields, fwd, fields[o][i])
        /\ Seen(o, i)' = End(fields', fwd', fields'[o][i])
    BY SeenIs
  <2>3. CASE fields' = fields /\ fwd' = fwd
    BY <2>2, <2>3
  <2>4. CASE \E b \in Block : MarkBlock(b)
    BY <2>1, <2>2, <2>4, <1>1, MarkInvisible
  <2>5. CASE SweepBlock
    BY <2>1, <2>2, <2>5, <1>1, SweepInvisible
  <2>6. QED
    BY <1>1, <2>3, <2>4, <2>5 DEF Collector, start_cycle, mark_slice, sweep_slice, DarkenNext,
       Rescan, StartRescan, NextSubphase, StartSweep, EndSweep, heapVars
<1>2. GCInv /\ ForwardInv /\ GCInv' /\ [Next]_vars
        => [Collector => \A o \in Reachable', i \in Index : Seen(o, i)' = Seen(o, i)]_vars
  BY <1>1
<1>3. QED
  BY <1>2, ForwardInvariant, PTL DEF Spec, CollectorInvisible
=============================================================================

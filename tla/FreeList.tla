------------------------------- MODULE FreeList -------------------------------
(***************************************************************************)
(* The free memory of the major heap: the free list (heap/freelist.c), the *)
(* allocation from it and the growth of the heap (heap/memory.c), the      *)
(* sweep that feeds it (sweep_slice) and the mutator that cuts blocks      *)
(* short (Truncate).                                                       *)
(*                                                                         *)
(* Addresses count words.  A block is known by the address of its header,  *)
(* so that bp in the code is the address plus one here.  hd has the words  *)
(* that are headers now; what is left behind in other words is garbage.    *)
(* Which blocks the program drops is arbitrary, marking (MajorGC) finds    *)
(* out which they are when it ends.                                        *)
(***************************************************************************)
EXTENDS Integers, FiniteSets, FiniteSetsExt

CONSTANTS
  Chunk_size,   \* the words of each chunk that malloc may return, by its address
  Chunk_first,  \* the chunks that the initial heap may consist of
  MaxRequest    \* bound: the largest block that is asked for

\* malloc's own header and the head of a chunk are between any two chunks
ASSUME ChunkAssumption ==
  /\ DOMAIN Chunk_size \subseteq Nat \ {0} /\ IsFiniteSet(DOMAIN Chunk_size)
  /\ \A c \in DOMAIN Chunk_size :
       /\ Chunk_size[c] \in Nat /\ Chunk_size[c] > 1
       /\ \A d \in DOMAIN Chunk_size : c < d => c + Chunk_size[c] < d
  /\ Chunk_first \subseteq DOMAIN Chunk_size
ASSUME RequestAssumption == MaxRequest \in Nat \ {0}

VARIABLES
  hd,           \* the headers: size and colour
  fl,           \* the variables of freelist.c
  heap,         \* the chunks of the heap
  gc_phase,
  gc_sweep_hp,
  live,         \* the blocks the program holds, and their sizes
  grewBehind    \* history: a chunk was appended between fl_merge and gc_sweep_hp

vars == <<hd, fl, heap, gc_phase, gc_sweep_hp, live, grewBehind>>

Fl_head == 0    \* the sentinel, which is below every chunk
NULL    == -1

Limit(c) == c + Chunk_size[c]
InChunk(c) == c .. Limit(c) - 1
Words == UNION {InChunk(c) : c \in DOMAIN Chunk_size}

IsLeast(c, S) == \A d \in S : c <= d

Header(wosize, color) == [wosize |-> wosize, color |-> color]
Whsize(b) == hd[b].wosize + 1
EndIn(h, b) == b + h[b].wosize + 1   \* the word after block b
End(b)      == EndIn(hd, b)

Colored(color) == {b \in DOMAIN hd : hd[b].color = color}

\* a function with one more, or one other, value; and with fewer
With(f, x, v) == [y \in DOMAIN f \cup {x} |-> IF y = x THEN v ELSE f[y]]
Without(f, S) == [y \in DOMAIN f \ S |-> f[y]]

\* the list with b after prev, and without the block after prev
Link(next, prev, b) == With(With(next, b, next[prev]), prev, b)
Unlink(next, prev)  == Without([next EXCEPT ![prev] = next[next[prev]]], {next[prev]})

\* init_major_heap: one free block, the whole of the first chunk
Init ==
  \E c \in Chunk_first :
    /\ heap = {c}
    /\ hd = [b \in {c} |-> Header(Chunk_size[c] - 1, "blue")]
    /\ fl = [next |-> [p \in {Fl_head, c} |-> IF p = c THEN NULL ELSE c],
             prev |-> Fl_head, merge |-> c, cur_size |-> Chunk_size[c],
             last_fragment |-> NULL]
    /\ gc_phase = "idle" /\ gc_sweep_hp = 0
    /\ live = [b \in {} |-> 0]
    /\ grewBehind = FALSE

-----------------------------------------------------------------------------
(* Allocation                                                              *)

\* the predecessors of the free blocks that are large enough
Fitting(l, h, wo) == {p \in DOMAIN l.next : l.next[p] # NULL /\ h[l.next[p]].wosize >= wo}

\* Where a walk along the list ends that begins at each p: at the first block of stop,
\* or at the end of the list.
Walk(next, stop) ==
  LET end[p \in DOMAIN next] == IF p \in stop \/ next[p] = NULL THEN p ELSE end[next[p]]
  IN end

\* mutant: the search ends at the end of the list
fl_allocate_once(l, h, wo) ==
  Fitting(l, h, wo) \cap {Walk(l.next, Fitting(l, h, wo))[l.prev]}

\* First fit from fl_prev to the end of the list, else from its head to fl_prev:
\* the set of the predecessor of the block that is found, empty for NULL.
fl_allocate(l, h, wo) ==
  LET fit == Fitting(l, h, wo)
      end == Walk(l.next, fit)[l.prev]
  IN fit \cap {IF l.next[end] # NULL THEN end ELSE Walk(l.next, fit \cup {l.prev})[Fl_head]}

\* mutant: the block at the sweep pointer counts as swept
allocation_color_at(hp) ==
  IF gc_phase = "mark" \/ (gc_phase = "sweep" /\ hp > gc_sweep_hp)
  THEN "black" ELSE "white"

allocation_color(hp) ==
  IF gc_phase = "mark" \/ (gc_phase = "sweep" /\ hp >= gc_sweep_hp)
  THEN "black" ELSE "white"

\* mutant: fl_merge stays at a block that is no longer in the list
DetachKeepsMerge(l, h, prev) ==
  [l EXCEPT !.next = Unlink(@, prev), !.prev = prev,
            !.cur_size = @ - (h[l.next[prev]].wosize + 1)]

\* a block that is used up leaves the list, together with the pointers to it
Detach(l, h, prev) ==
  LET cur == l.next[prev]
  IN [l EXCEPT !.next = Unlink(@, prev), !.prev = prev,
               !.merge = IF @ = cur THEN prev ELSE @,
               !.cur_size = @ - (h[cur].wosize + 1)]

\* mutant: a block that is one word too long is split
Exhausts0(have, wo) == have = wo

\* too few words would be left for a block with a link
Exhausts(have, wo) == have < wo + 2

\* allocate_block, and the header that alloc_shr writes: the block is at the
\* end of the free block prev points to
allocate_block(l, h, prev, wo) ==
  LET cur  == l.next[prev]
      have == h[cur].wosize
      hp   == cur + have - wo
      rest == IF Exhausts(have, wo) THEN Header(0, "white")
              ELSE Header(have - (wo + 1), "blue")
  IN /\ fl' = IF Exhausts(have, wo) THEN Detach(l, h, prev)
              ELSE [l EXCEPT !.prev = prev, !.cur_size = @ - (wo + 1)]
     /\ hd' = With(With(h, cur, rest), hp, Header(wo, allocation_color(hp)))
     /\ live' = With(live, hp, wo)

\* the last block below b on the way from the head of the list
Before(b) == Walk(fl.next, {p \in DOMAIN fl.next : fl.next[p] > b})[Fl_head]

fl_last == CHOOSE p \in DOMAIN fl.next : fl.next[p] = NULL

\* mutant: a chunk always goes to the end of the list
Place_last(b) == {fl_last}

\* the free block after which the chunk b is linked: the last one when b is
\* above it, else the last one before b
Place(b) == DOMAIN fl.next \cap {IF b > fl_last THEN fl_last ELSE Before(b)}

\* The chunk b as a free block after prev.  fl_merge only follows when the chunk
\* is not above the last block of the list.
fl_add_block(b, prev) ==
  [fl EXCEPT !.next = Link(@, prev, b), !.cur_size = @ + Chunk_size[b],
             !.merge = IF b < fl_last /\ prev = @ /\ b < gc_sweep_hp THEN b ELSE @]

\* expand_heap: malloc may return any chunk that is large enough
expand_heap(wo) == {c \in DOMAIN Chunk_size \ heap : Chunk_size[c] > wo}

\* fl_last is fl_merge and the chunk c is between it and the sweep pointer
AddsBehind(c) ==
  gc_phase = "sweep" /\ fl_last = fl.merge /\ fl_last < c /\ c < gc_sweep_hp

\* alloc_shr.  When malloc fails an exception is raised and nothing changes.
alloc_shr(wo) ==
  /\ \/ /\ \E prev \in fl_allocate(fl, hd, wo) : allocate_block(fl, hd, prev, wo)
        /\ UNCHANGED <<heap, grewBehind>>
     \/ /\ fl_allocate(fl, hd, wo) = {}
        /\ \E c \in expand_heap(wo) : \E p \in Place(c) :
             LET l == fl_add_block(c, p)
                 h == With(hd, c, Header(Chunk_size[c] - 1, "blue"))
             IN /\ \E prev \in fl_allocate(l, h, wo) : allocate_block(l, h, prev, wo)
                /\ heap' = heap \cup {c}
                /\ grewBehind' = (grewBehind \/ AddsBehind(c))
  /\ UNCHANGED <<gc_phase, gc_sweep_hp>>

-----------------------------------------------------------------------------
(* The mutator cuts a block short: the words behind it become a block that *)
(* nobody holds.                                                           *)

\* mutant: the remaining words get no header
TruncateOnly(b, wo) ==
  /\ b \in DOMAIN live /\ wo \in 1 .. live[b] - 1
  /\ hd' = [hd EXCEPT ![b].wosize = wo]
  /\ live' = [live EXCEPT ![b] = wo]
  /\ UNCHANGED <<fl, heap, gc_phase, gc_sweep_hp, grewBehind>>

Truncate(b, wo) ==
  /\ b \in DOMAIN live /\ wo \in 1 .. live[b] - 1
  /\ hd' = With([hd EXCEPT ![b].wosize = wo], b + wo + 1,
                Header(live[b] - wo - 1, "white"))
  /\ live' = [live EXCEPT ![b] = wo]
  /\ UNCHANGED <<fl, heap, gc_phase, gc_sweep_hp, grewBehind>>

Mutator ==
  \/ \E wo \in 1 .. MaxRequest : alloc_shr(wo)
  \/ \E b \in DOMAIN live : \E wo \in 1 .. MaxRequest : Truncate(b, wo)

-----------------------------------------------------------------------------
(* The collector                                                           *)

start_cycle ==
  /\ gc_phase = "idle"
  /\ gc_phase' = "mark"
  /\ UNCHANGED <<hd, fl, heap, gc_sweep_hp, live, grewBehind>>

\* mutant: the insertion pointer stays where the last cycle left it
fl_init_merge_pointer == [fl EXCEPT !.last_fragment = NULL]

fl_init_merge == [fl EXCEPT !.merge = Fl_head, !.last_fragment = NULL]

\* marking is over: what the program holds is black, what it dropped is white
StartSweep ==
  /\ gc_phase = "mark"
  /\ \E dropped \in SUBSET (DOMAIN live \cap Colored("white")) :
       /\ live' = Without(live, dropped)
       /\ hd' = [b \in DOMAIN hd |->
                   IF b \in DOMAIN live' THEN [hd[b] EXCEPT !.color = "black"] ELSE hd[b]]
  /\ gc_phase' = "sweep"
  /\ \E c \in heap : IsLeast(c, heap) /\ gc_sweep_hp' = c
  /\ fl' = fl_init_merge
  /\ UNCHANGED <<heap, grewBehind>>

\* the block d, which begins where b ends, becomes a part of b
Join(h, b, d) == Without([h EXCEPT ![b].wosize = @ + h[d].wosize + 1], {d})

\* mutant: the free block after it is not looked at
MeetsNone(h, b, cur) == FALSE

Meets(h, b, cur) == cur # NULL /\ EndIn(h, b) = cur

\* fl_merge_block: the white block b joins the fragment before it, the free
\* block after it and the free block before it; what is left alone and has no
\* room for a link is a fragment.
fl_merge_block(b) ==
  LET prev == fl.merge
      cur  == fl.next[prev]
      fragment == fl.last_fragment # NULL /\ fl.last_fragment + 1 = b
      bp    == IF fragment THEN fl.last_fragment ELSE b
      h1    == IF fragment THEN Join(hd, bp, b) ELSE hd
      meets == Meets(h1, bp, cur)
      h2    == IF meets THEN Join(h1, bp, cur) ELSE h1
      rest  == IF meets THEN Unlink(fl.next, prev) ELSE fl.next
      joins == prev # Fl_head /\ EndIn(h2, prev) = bp
      stays == ~joins /\ h2[bp].wosize # 0
      alone == ~joins /\ ~stays
  IN /\ hd' = IF joins THEN Join(h2, prev, bp)
              ELSE [h2 EXCEPT ![bp].color = IF stays THEN "blue" ELSE "white"]
     /\ fl' = [fl EXCEPT
                 !.next = IF stays THEN Link(rest, prev, bp) ELSE rest,
                 !.prev = IF meets /\ @ = cur THEN prev ELSE @,
                 !.merge = IF stays THEN bp ELSE @,
                 !.cur_size = @ + Whsize(b) + (IF fragment THEN 1 ELSE 0)
                                - (IF alone THEN 1 ELSE 0),
                 !.last_fragment = IF alone THEN bp ELSE @]
     /\ gc_sweep_hp' = EndIn(h2, bp)

chunk == CHOOSE c \in heap : c <= gc_sweep_hp /\ gc_sweep_hp <= Limit(c)

Sweeping == gc_phase = "sweep" /\ gc_sweep_hp < Limit(chunk)

SweepWhite ==
  /\ Sweeping /\ hd[gc_sweep_hp].color = "white"
  /\ fl_merge_block(gc_sweep_hp)
  /\ UNCHANGED <<heap, gc_phase, live, grewBehind>>

SweepBlue ==
  /\ Sweeping /\ hd[gc_sweep_hp].color = "blue"
  /\ fl' = [fl EXCEPT !.merge = gc_sweep_hp]
  /\ gc_sweep_hp' = End(gc_sweep_hp)
  /\ UNCHANGED <<hd, heap, gc_phase, live, grewBehind>>

SweepBlack ==
  /\ Sweeping /\ hd[gc_sweep_hp].color = "black"
  /\ hd' = [hd EXCEPT ![gc_sweep_hp].color = "white"]
  /\ gc_sweep_hp' = End(gc_sweep_hp)
  /\ UNCHANGED <<fl, heap, gc_phase, live, grewBehind>>

\* the end of a chunk: the next one, or the end of the sweep
NextChunk ==
  /\ gc_phase = "sweep" /\ gc_sweep_hp = Limit(chunk)
  /\ LET above == {c \in heap : c > gc_sweep_hp}
     IN IF above = {} THEN gc_phase' = "idle" /\ UNCHANGED gc_sweep_hp
        ELSE /\ \E c \in above : IsLeast(c, above) /\ gc_sweep_hp' = c
             /\ UNCHANGED gc_phase
  /\ UNCHANGED <<hd, fl, heap, live, grewBehind>>

sweep_slice == SweepWhite \/ SweepBlue \/ SweepBlack \/ NextChunk

Next == Mutator \/ start_cycle \/ StartSweep \/ sweep_slice

Spec == Init /\ [][Next]_vars

\* the program goes on and calls the collector again and again
FairSpec == Spec /\ WF_vars(start_cycle \/ StartSweep \/ sweep_slice)

-----------------------------------------------------------------------------
\* The list leads from free blocks to free blocks, and fl_prev and fl_merge are always
\* on it (freelist.c 37-60), also after the block they were at has been used up.
TypeOK ==
  /\ heap \subseteq DOMAIN Chunk_size
  /\ DOMAIN hd \subseteq Words
  /\ \A b \in DOMAIN hd : /\ hd[b].wosize \in Nat
                          /\ hd[b].color \in {"white", "black", "blue"}
  /\ DOMAIN fl.next \subseteq DOMAIN hd \cup {Fl_head}
  /\ \A p \in DOMAIN fl.next : fl.next[p] \in DOMAIN fl.next \cup {NULL}
  /\ {fl.prev, fl.merge} \subseteq DOMAIN fl.next
  /\ gc_phase \in {"idle", "mark", "sweep"}
  /\ gc_sweep_hp \in Nat
  /\ grewBehind \in BOOLEAN

\* Walking from header to header (sweep_slice, the rescan of mark_slice) visits
\* every block of every chunk, ends at the end of the chunk, and the sweep
\* pointer is always at such a header or at the end.
Tiled ==
  /\ \A b \in DOMAIN hd : \E c \in heap :
       /\ b \in InChunk(c)
       /\ End(b) = Limit(c) \/ (End(b) < Limit(c) /\ End(b) \in DOMAIN hd)
       /\ \A d \in DOMAIN hd : ~(b < d /\ d < End(b))
  /\ heap \subseteq DOMAIN hd
  /\ gc_phase = "sweep" => gc_sweep_hp \in DOMAIN hd \cup {Limit(c) : c \in heap}

\* fl_check, and the comment at sweep_slice (major_gc.c:256): the list from its
\* head has exactly the blue blocks, each once, fl_prev and fl_merge among
\* them, and fl_cur_size is their size.  All of them have room for a link.
ListIsBlue ==
  /\ DOMAIN fl.next = Colored("blue") \cup {Fl_head}
  /\ \A b \in Colored("blue") : Walk(fl.next, {b})[Fl_head] = b
  /\ \A p, q \in DOMAIN fl.next : fl.next[p] = fl.next[q] => p = q
  /\ \A b \in Colored("blue") : hd[b].wosize > 0
  /\ fl.cur_size = MapThenSumSet(Whsize, Colored("blue"))

\* "The free-list is kept sorted by increasing addresses." (freelist.c:29)
ListSorted ==
  \A p \in DOMAIN fl.next : fl.next[p] # NULL => p < fl.next[p]

\* The list is sorted and fl_merge is the last free block before gc_sweep_hp
\* (freelist.c:285), unless a chunk was appended behind the sweep.
SortedForMerging ==
  grewBehind \/
    /\ ListSorted
    /\ gc_phase = "sweep" =>
         fl.merge = Max({Fl_head} \cup {b \in Colored("blue") : b < gc_sweep_hp})

\* "This makes the merging of adjacent free blocks possible." (freelist.c:30)
Merged ==
  grewBehind \/ \A b \in Colored("blue") : End(b) \notin Colored("blue")

\* The free list survives every order of allocating, sweeping and growing
\* (freelist.c 99-288): it is the free blocks, and the sweep finds where to insert
\* and what to merge.
ListSound == ListIsBlue /\ SortedForMerging /\ Merged

\* The blocks in use, with the sizes that their headers say.
held == [b \in DOMAIN live |-> IF b \in DOMAIN hd THEN hd[b].wosize ELSE 0]

A == INSTANCE Allocator

\* Whatever alloc_shr, the updates and the sweep do, the program sees an allocator: a
\* block that it was given keeps its words until it drops it (memory.c 274-315).
IsAllocator == A!Spec

\* The heap grows only when no free block has the size that is asked for
\* (fl_allocate searches the whole list, from wherever fl_prev is).
GrowsWhenFull ==
  [][heap' # heap =>
       \A b \in DOMAIN live' \ DOMAIN live : \A f \in Colored("blue") :
         hd[f].wosize < live'[b]]_vars

\* Memory does not stay cut into pieces: once the program holds nothing, every
\* chunk becomes a single free block again.
BecomesWhole ==
  <>[](live = [b \in {} |-> 0]) =>
    []<>(grewBehind \/ \A c \in heap : c \in Colored("blue") /\ End(c) = Limit(c))
=============================================================================

------------------------------- MODULE Compact -------------------------------
(***************************************************************************)
(* Compaction of the major heap (heap/compact.c): pointers are reversed   *)
(* into lists that hang from the headers of the blocks they lead to, all  *)
(* blocks get new addresses, the lists are undone with these, the blocks  *)
(* are moved, chunks that have become empty are given back (shrink_heap)  *)
(* and the free list is built anew.                                       *)
(*                                                                         *)
(* An address counts words; a root is a word outside the heap, below 0.   *)
(* A pointer, reversed or not, is a word of kind "ptr": nothing but the   *)
(* order of the passes tells which it is.  The value of block b is b + 1. *)
(* Left out, because nothing in the repository makes them: infix headers, *)
(* weak arrays and finalised values.  A step deals with one block, or one *)
(* root; nothing else runs meanwhile.                                     *)
(***************************************************************************)
EXTENDS Integers, Sequences, FiniteSets, FiniteSetsExt, Functions

CONSTANTS
  Chunks,        \* the chunks of the heap, in their order: where they start and their words
  Roots,         \* the number of root words
  Heaps,         \* what memory may look like when a compaction begins
  Slack,         \* Whsize_wosize(3): a chunk with no more room than that is full
  percent_free, percent_max,
  Hundred        \* 100, or less in a small heap

Size(i)  == Chunks[i].size
First(i) == Chunks[i].start
Limit(i) == First(i) + Size(i)
ChunkNo  == 1 .. Len(Chunks)
Words    == UNION {First(i) .. Limit(i) - 1 : i \in ChunkNo}
Root     == {-i : i \in 1 .. Roots}
Cells    == Words \cup Root

\* The head of a chunk lies in front of it, and a chunk has a page at least (Heap_chunk_min).
ASSUME ChunksAssumption ==
  /\ Chunks \in Seq([start : Nat \ {0}, size : Nat]) /\ Chunks # <<>>
  /\ \A i \in ChunkNo : Size(i) > Slack
  /\ \A i \in ChunkNo \ {1} : Limit(i - 1) < First(i)
ASSUME SizesAssumption == {Slack, percent_free, percent_max, Roots} \subseteq Nat /\ Hundred \in Nat \ {0}

\* tags below No_scan_tag; above it; and a block with a finaliser
Tags == {"scan", "raw", "custom"}
Imm    == [kind |-> "imm"]
Ptr(a) == [kind |-> "ptr", a |-> a]
Hd(wosize, tag, color) == [kind |-> "hd", wosize |-> wosize, tag |-> tag, color |-> color]
Ehd(wosize, tag)       == [kind |-> "ehd", wosize |-> wosize, tag |-> tag]

IsHead(w) == w = Hd(w.wosize, w.tag, w.color) /\ w.tag \in Tags /\ w.color \in {"white", "blue"}

\* The headers of chunk i, one behind the other.
HeadsOf(m, i) ==
  LET fits(a) == m[a].kind = "hd" /\ m[a].wosize \in 0 .. Limit(i) - a - 1
      from[a \in First(i) .. Limit(i)] ==
        IF a = Limit(i) THEN {} ELSE {a} \cup (IF fits(a) THEN from[a + m[a].wosize + 1] ELSE {})
  IN from[First(i)]
Heads(m)     == UNION {HeadsOf(m, i) : i \in ChunkNo}
Fields(m, b) == b + 1 .. b + m[b].wosize
Live(m)      == {b \in Heads(m) : m[b].color = "white" /\ m[b].wosize > 0}
Scanned(m)   == Root \cup UNION {Fields(m, b) : b \in {l \in Live(m) : m[l].tag = "scan"}}
Leads(m, c, b) == m[c] = Ptr(b + 1)
FreeWords(m) == SumFunction([b \in {h \in Heads(m) : m[h].color = "blue"} |-> m[b].wosize + 1])

\* From header to header one gets through every chunk, and what is scanned leads to a block
\* in use or out of the heap.
WellFormed(m) ==
  /\ m = [c \in Cells |-> m[c]]
  /\ \A i \in ChunkNo : \A b \in HeadsOf(m, i) : IsHead(m[b]) /\ m[b].wosize \in 0 .. Limit(i) - b - 1
  /\ \A c \in Scanned(m) : m[c].kind = "ptr" =>
       \/ \E b \in Live(m) : Leads(m, c, b)
       \/ \A i \in ChunkNo : m[c].a \notin First(i) .. Limit(i)
ASSUME HeapsAssumption == \A m \in Heaps : WellFormed(m)

\* what the program can reach
Reached(m) ==
  LET live == Live(m)
      more(S) == S \cup {b \in live : \E s \in S : m[s].tag = "scan" /\ \E c \in Fields(m, s) : Leads(m, c, b)}
      step[n \in 0 .. Cardinality(live)] ==
        IF n = 0 THEN {b \in live : \E r \in Root : Leads(m, r, b)}
        ELSE LET S == step[n - 1] IN more(S)
  IN step[Cardinality(live)]

VARIABLES
  mem,
  heap,          \* the chunks in the list that begins with heap_start, which is in their order
  alloc,         \* Chunk_alloc
  compact_fl,
  pc, p,         \* the pass, and the word or the root it is at
  fl, fl_cur_size,
  trigger,       \* who called compact_heap
  before,        \* auxiliary: mem when the compaction began
  moved          \* auxiliary: the new addresses

vars == <<mem, heap, alloc, compact_fl, pc, p, fl, fl_cur_size, trigger, before, moved>>

\* mutant: no cycle is finished before
NotSwept(m) == m = m

\* finish_major_cycle has swept, and finalised, what was not reachable.
Swept(m) == Reached(m) = Live(m)

\* mutant: percent_max is not looked at
FragmentedAny(m) == FreeWords(m) >= 0

\* compact_heap_maybe: an estimate of the free words; here of those after the cycle
Fragmented(m) == 150 * FreeWords(m) > percent_max * SumFunction([i \in ChunkNo |-> Size(i)])

\* Two callers finish a cycle before; check_heap_size, when the heap has become too large,
\* does not.
compact_heap_maybe == trigger = "maybe" /\ Swept(before) /\ Fragmented(before)
gc_compaction      == trigger = "control" /\ Swept(before)
check_heap_size    == trigger = "overflow"

Init ==
  /\ before \in Heaps /\ mem = before
  /\ compact_heap_maybe \/ gc_compaction \/ check_heap_size
  /\ heap = ChunkNo
  /\ alloc = [i \in ChunkNo |-> 0] /\ compact_fl = 1
  /\ pc = "encode" /\ p = First(1)
  /\ fl = <<>> /\ fl_cur_size = 0
  /\ moved = [b \in {} |-> 0]

-----------------------------------------------------------------------------
(* A pass goes over the blocks of all chunks; p is 0 when it is over.       *)

ChunkOf(a) == CHOOSE i \in ChunkNo : a \in First(i) .. Limit(i) - 1

\* mutant: the header is not counted
BehindFields(n) ==
  LET i == ChunkOf(p)
  IN IF p + n - 1 < Limit(i) THEN p + n - 1 ELSE IF i < Len(Chunks) THEN First(i + 1) ELSE 0

\* the block behind one of n words at p
Behind(n) ==
  LET i == ChunkOf(p)
  IN IF p + n < Limit(i) THEN p + n ELSE IF i < Len(Chunks) THEN First(i + 1) ELSE 0

Passes == <<"encode", "roots", "invert", "realloc", "move", "shrink">>

\* the end of a pass; init_compact_allocate before the third and the fourth
NextPass ==
  /\ p = 0
  /\ \E n \in 1 .. Len(Passes) - 1 :
       /\ pc = Passes[n] /\ pc' = Passes[n + 1]
       /\ p' = IF pc' = "roots" THEN Roots ELSE First(1)
  /\ IF pc' \in {"realloc", "move"}
     THEN alloc' = [i \in ChunkNo |-> 0] /\ compact_fl' = 1
     ELSE UNCHANGED <<alloc, compact_fl>>
  /\ UNCHANGED <<mem, heap, fl, fl_cur_size, trigger, before, moved>>

\* mutant: a free block keeps its tag
EncodeTag(hd) == hd.tag

\* A free block becomes a string, which is not scanned.
EncodedTag(hd) == IF hd.color = "blue" THEN "raw" ELSE hd.tag

\* first pass
Encode ==
  /\ pc = "encode" /\ p # 0
  /\ mem' = [mem EXCEPT ![p] = Ehd(@.wosize, EncodedTag(@))]
  /\ p' = Behind(mem[p].wosize + 1)
  /\ UNCHANGED <<heap, alloc, compact_fl, pc, fl, fl_cur_size, trigger, before, moved>>

\* mutant: a second pointer to the block does not find its header any more
InvertOnce(m, c) ==
  IF m[c].kind = "ptr" /\ m[c].a \in Words /\ m[m[c].a - 1].kind = "ehd"
  THEN [m EXCEPT ![c] = m[m[c].a - 1], ![m[c].a - 1] = Ptr(c)]
  ELSE m

\* the word c is put in front of the list of the block that it points to
invert_pointer_at(m, c) ==
  IF m[c].kind = "ptr" /\ m[c].a \in Words
  THEN [m EXCEPT ![c] = m[m[c].a - 1], ![m[c].a - 1] = Ptr(c)]
  ELSE m

\* second pass, do_roots
InvertRoot ==
  /\ pc = "roots" /\ p # 0
  /\ mem' = invert_pointer_at(mem, -p)
  /\ p' = p - 1
  /\ UNCHANGED <<heap, alloc, compact_fl, pc, fl, fl_cur_size, trigger, before, moved>>

\* the words of the list that hangs from a, and the encoded header at its end
Linked(m, c)   == m[c].kind = "ptr" /\ m[c].a \in Cells
Listed(m, a)   == LET f[c \in Cells] == IF Linked(m, c) THEN {m[c].a} \cup f[m[c].a] ELSE {} IN f[a]
Original(m, a) == LET f[c \in Cells] == IF Linked(m, c) THEN f[m[c].a] ELSE m[c] IN f[a]

\* second pass: the fields of the block at p
InvertBlock ==
  /\ pc = "invert" /\ p # 0
  /\ LET hd == Original(mem, p)
         done[n \in 0 .. hd.wosize] == IF n = 0 THEN mem ELSE invert_pointer_at(done[n - 1], p + n)
     IN /\ mem' = IF hd.tag = "scan" THEN done[hd.wosize] ELSE mem
        /\ p' = Behind(hd.wosize + 1)
  /\ UNCHANGED <<heap, alloc, compact_fl, pc, fl, fl_cur_size, trigger, before, moved>>

-----------------------------------------------------------------------------
(* compact_allocate                                                         *)

Left    == [i \in ChunkNo |-> Size(i) - alloc[i]]
Full(i) == Left[i] <= Slack

\* mutant: a full chunk is left, whatever room the next one has
AdvancedAlways ==
  LET stop == {i \in compact_fl .. Len(Chunks) : ~Full(i) \/ i = Len(Chunks)} IN Min(stop)

\* The chunk that compact_fl advances to; 0 when the code reads the size of the chunk
\* behind the last one.
Advanced ==
  LET stop == {i \in compact_fl .. Len(Chunks) : ~Full(i) \/ (i < Len(Chunks) /\ ~Full(i + 1))}
  IN IF stop = {} THEN 0 ELSE Min(stop)

\* the first chunk from there on with room for n words; 0 when there is none
Roomy(n) ==
  LET fit == {i \in ChunkNo : i >= Advanced /\ Left[i] >= n}
  IN IF Advanced = 0 \/ fit = {} THEN 0 ELSE Min(fit)

Address(n) == First(Roomy(n)) + alloc[Roomy(n)]

\* n words are taken for the block at p.
Allocate(n) ==
  /\ Roomy(n) # 0
  /\ compact_fl' = Advanced
  /\ alloc' = [alloc EXCEPT ![Roomy(n)] = @ + n]

\* There is no chunk to take them from: the program reads through NULL.
Fault ==
  /\ p # 0
  /\ \/ /\ pc = "realloc" /\ mem[p].kind = "ptr"
        /\ Roomy(Original(mem, p).wosize + 1) = 0
     \/ /\ pc = "move" /\ mem[p].color = "white"
        /\ Roomy(mem[p].wosize + 1) = 0
  /\ pc' = "fault"
  /\ UNCHANGED <<mem, heap, alloc, compact_fl, p, fl, fl_cur_size, trigger, before, moved>>

\* Third pass: a block to which pointers lead gets its new address and they get its new
\* value; any other one is free.
Reallocate ==
  /\ pc = "realloc" /\ p # 0
  /\ LET hd == Original(mem, p)
         n  == hd.wosize + 1
     IN /\ \/ /\ mem[p].kind = "ptr"
              /\ Allocate(n)
              /\ \E to \in {Address(n)}, cells \in {Listed(mem, p)} :
                   /\ mem' = [c \in Cells |-> IF c = p THEN Hd(hd.wosize, hd.tag, "white")
                                             ELSE IF c \in cells THEN Ptr(to + 1) ELSE mem[c]]
                   /\ moved' = [b \in DOMAIN moved \cup {p} |-> IF b = p THEN to ELSE moved[b]]
           \/ /\ mem[p].kind # "ptr"
              /\ mem' = [mem EXCEPT ![p] = Hd(hd.wosize, hd.tag, "blue")]
              /\ UNCHANGED <<alloc, compact_fl, moved>>
        /\ p' = Behind(n)
  /\ UNCHANGED <<heap, pc, fl, fl_cur_size, trigger, before>>

\* fourth pass
Move ==
  /\ pc = "move" /\ p # 0
  /\ LET n == mem[p].wosize + 1
     IN /\ \/ /\ mem[p].color = "white"
              /\ Allocate(n)
              /\ \E to \in {Address(n)} :
                   mem' = [c \in Cells |-> IF c \in to .. to + n - 1 THEN mem[p + c - to] ELSE mem[c]]
           \/ /\ mem[p].color = "blue"
              /\ UNCHANGED <<mem, alloc, compact_fl>>
        /\ p' = Behind(n)
  /\ UNCHANGED <<heap, pc, fl, fl_cur_size, trigger, before, moved>>

-----------------------------------------------------------------------------
Emptied == {i \in ChunkNo : alloc[i] = 0}
Wanted  == percent_free * (SumFunction(alloc) \div Hundred + 1)

\* mutant: the empty chunks count before it is known that they stay
SpareAll(i) == SumFunction(Left)

\* the free words when the loop over the empty chunks has come to chunk i
Spare(i) == SumFunctionOnSet(Left, (ChunkNo \ Emptied) \cup {j \in Emptied : j < i})

\* Empty chunks are removed once there is enough without them; shrink_heap keeps the first.
Shrink ==
  /\ pc = "shrink"
  /\ heap' = {i \in ChunkNo : i = 1 \/ i \notin Emptied \/ Spare(i) < Wanted}
  /\ pc' = "rebuild"
  /\ UNCHANGED <<mem, alloc, compact_fl, p, fl, fl_cur_size, trigger, before, moved>>

\* what is left behind the words of chunk i that are in use
RestOf(i) == First(i) + alloc[i]

\* mutant: the word that is left is linked, too
LinkedAny(n) == n > 0

\* A single word is no free block: it stays a white fragment.
LinkedRest(n) == n > 1

\* fl_reset, and fl_merge_block for what is left of every chunk
Rebuild ==
  /\ pc = "rebuild"
  /\ LET i == ChunkOf(p)
     IN /\ \/ /\ i \in heap /\ LinkedRest(Left[i])
              /\ mem' = [mem EXCEPT ![RestOf(i)] = Hd(Left[i] - 1, "scan", "blue")]
              /\ fl' = Append(fl, RestOf(i)) /\ fl_cur_size' = fl_cur_size + Left[i]
           \/ /\ i \in heap /\ Left[i] > 0 /\ ~LinkedRest(Left[i])
              /\ mem' = [mem EXCEPT ![RestOf(i)] = Hd(Left[i] - 1, "scan", "white")]
              /\ UNCHANGED <<fl, fl_cur_size>>
           \/ /\ i \notin heap \/ Left[i] = 0
              /\ UNCHANGED <<mem, fl, fl_cur_size>>
        /\ IF i < Len(Chunks) THEN p' = First(i + 1) /\ pc' = pc ELSE p' = 0 /\ pc' = "done"
  /\ UNCHANGED <<heap, alloc, compact_fl, trigger, before, moved>>

compact_heap == NextPass \/ Encode \/ InvertRoot \/ InvertBlock \/ Reallocate \/ Move \/ Shrink \/ Rebuild

Next == compact_heap \/ Fault

Spec == Init /\ [][Next]_vars /\ WF_vars(Next)

-----------------------------------------------------------------------------
(* Properties                                                               *)

\* Every pass meets the words that it expects at the head of a block, and the chunks
\* are never overfull.
TypeOK ==
  /\ pc \in {Passes[n] : n \in 1 .. Len(Passes)} \cup {"rebuild", "done", "fault"}
  /\ DOMAIN mem = Cells
  /\ \A i \in ChunkNo : alloc[i] \in 0 .. Size(i)
  /\ compact_fl \in ChunkNo
  /\ p # 0 => /\ pc = "encode" => mem[p].kind = "hd"
              /\ pc \in {"invert", "realloc"} => Original(mem, p).kind = "ehd"
              /\ pc = "move" => mem[p].kind = "hd"

\* which words have been inverted
Visited ==
  IF pc = "roots" THEN {c \in Root : c < -p}
  ELSE IF pc = "invert" THEN {c \in Scanned(before) : c \in Root \/ p = 0 \/ c < p} ELSE Scanned(before)

\* At any time of the passes that have pointers reversed, the list of a block has the words
\* that pointed to it, each once, and then its header; a block gets a new address only
\* when there are such words; and every pass finds the words that it expects (compact.c 59-319).
ListsSound ==
  /\ TypeOK
  /\ \A b \in Heads(before) :
       LET leading == {c \in Visited : Leads(before, c, b)}
       IN /\ pc \in {"roots", "invert"} \/ (pc = "realloc" /\ p # 0 /\ b >= p) =>
               /\ Listed(mem, b) = leading
               /\ Original(mem, b) = Ehd(before[b].wosize, EncodedTag(before[b]))
          /\ pc = "realloc" /\ p # 0 /\ b < p => (b \in DOMAIN moved <=> leading # {})

\* Assert in compact_heap (compact.c 335): a block moves down or stays, so that the fourth pass
\* overwrites nothing that it has still to move; and it moves to where the third pass said.
NeverOvertakes ==
  pc = "move" /\ p # 0 /\ mem[p].color = "white" /\ Roomy(mem[p].wosize + 1) # 0 =>
    LET to == Address(mem[p].wosize + 1) IN to <= p /\ to = moved[p]

\* The roots and the fields of all blocks lead to what they led to, with its header and
\* contents, wherever it is now.  Nothing that can be reached is freed, and after a cycle
\* nothing else either, so that no finaliser is forgotten.
GraphKept ==
  LET image(w) == IF w.kind = "ptr" /\ w.a \in Words THEN Ptr(moved[w.a - 1] + 1) ELSE w
  IN /\ Reached(before) \subseteq DOMAIN moved
     /\ trigger # "overflow" => DOMAIN moved = Live(before)
     /\ \A r \in Root : mem[r] = image(before[r])
     /\ \A b \in DOMAIN moved :
          /\ mem[moved[b]] = before[b]
          /\ \A n \in 1 .. before[b].wosize :
               mem[moved[b] + n] = IF before[b].tag = "scan" THEN image(before[b + n]) ELSE before[b + n]

\* The chunks that are left consist of the blocks that were moved, of the free blocks in the
\* list, in order, and of fragments; fl_cur_size is what is free.
HeapRebuilt ==
  LET heads == UNION {HeadsOf(mem, i) : i \in heap}
      free  == Range(fl)
  IN /\ \A b \in free : mem[b].wosize > 0
     /\ {b \in heads : mem[b].color = "blue"} = free
     /\ {b \in heads : mem[b].color = "white" /\ mem[b].wosize > 0} = {moved[b] : b \in DOMAIN moved}
     /\ \A m, n \in DOMAIN fl : m < n => fl[m] < fl[n]
     /\ fl_cur_size = SumFunction([b \in free |-> mem[b].wosize + 1])

\* Chunks are given back only when enough stays free for the program to go on.
ReserveKept ==
  heap # ChunkNo => SumFunctionOnSet(Left, heap) >= Wanted /\ \A i \in ChunkNo \ heap : alloc[i] = 0

\* A compaction keeps what the program can see, makes a free list of all the rest, and
\* leaves a reserve (compact.c 150-399, freelist.c 166-246, memory.c 220-260).
CompactionSound == pc = "done" => GraphKept /\ HeapRebuilt /\ ReserveKept

\* A compaction that compact_heap_maybe decides on ends: it finds a chunk for every block,
\* and no list is a circle (compact.c 130-148, 268-288).
CompactionEnds == trigger = "maybe" ~> pc = "done"

\* Assert (chunk != NULL) in compact_allocate (compact.c 143): there is a chunk for every block.
FindsChunk == pc # "fault"

\* primio.c 388, "flush on finalize": a block with a finaliser, like a channel, is not freed
\* without a call of that.
FinalisedFirst ==
  pc = "done" => \A b \in Live(before) : before[b].tag = "custom" => b \in DOMAIN moved
=============================================================================

---------------------------- MODULE FreeListProofs ----------------------------
(***************************************************************************)
(* The major heap is an allocator, and its blocks tile its chunks, for any *)
(* set of chunks; the free list has the free blocks and their size, it is  *)
(* sorted, no two of them are neighbours, and the heap grows only when the *)
(* search has missed no block.                                             *)
(*                                                                         *)
(* The argument for the first has three parts, each about one value and    *)
(* not about the whole state: a tiling stays one when a block is cut in    *)
(* two or two neighbours are joined; a list stays one when a block is      *)
(* linked or unlinked; and the blocks in use are none of those that are    *)
(* cut, joined or freed.  A list is a set of blue blocks with links that   *)
(* can be ranked, which says that they have no cycle without following     *)
(* them.  The second part adds what walking along the list finds, what the *)
(* order of the addresses adds, and how the sum of the sizes changes with  *)
(* a block.                                                                *)
(***************************************************************************)
EXTENDS FreeList, InductionLemmas, FiniteSetTheorems

HeaderType == [wosize : Nat, color : {"white", "black", "blue"}]

\* The headers h divide the chunks C into blocks.
Tiling(h, C) ==
  /\ DOMAIN h \subseteq Nat
  /\ h \in [DOMAIN h -> HeaderType]
  /\ C \subseteq DOMAIN Chunk_size
  /\ C \subseteq DOMAIN h
  /\ \A b \in DOMAIN h : \E c \in C :
       c <= b /\ (EndIn(h, b) = Limit(c) \/ (EndIn(h, b) < Limit(c) /\ EndIn(h, b) \in DOMAIN h))
  /\ \A b, d \in DOMAIN h : b < d => EndIn(h, b) <= d

\* rank is the position of each block in the list of the blocks B that next makes: the
\* sentinel is first, and a block is next to the one at the position before.
Ranks(rank, next, B) ==
  LET D == B \cup {Fl_head}
  IN  /\ rank \in [D -> Nat]
      /\ rank[Fl_head] = 0
      /\ \A p, q \in D : rank[p] = rank[q] => p = q
      /\ \A p \in D : IF next[p] = NULL THEN \A q \in D : rank[q] <= rank[p]
                      ELSE rank[next[p]] = rank[p] + 1
      /\ \E p \in D : next[p] = NULL
      /\ \A b \in B : \E p \in D : next[p] = b

\* next links the blocks B, in some order.
IsList(next, B) ==
  /\ next \in [B \cup {Fl_head} -> B \cup {NULL}]
  /\ \E rank : Ranks(rank, next, B)

\* The variables of freelist.c, for lists next and pointers into them.
FlSet(lists, pointers) ==
  [next : lists, prev : pointers, merge : pointers, cur_size : Int, last_fragment : Int]

FlType(l, B) ==
  /\ l \in FlSet([B \cup {Fl_head} -> B \cup {NULL}], B \cup {Fl_head})
  /\ IsList(l.next, B)

BlueIn(h) == {b \in DOMAIN h : h[b].color = "blue"}

\* The sweep stands at a block or at the end of a chunk, and the last fragment
\* is still one when the sweep stands behind it.
SweepOK(h, l, C, phase, hp) ==
  /\ hp \in Int
  /\ phase = "sweep" =>
       /\ hp \in DOMAIN h \cup {Limit(c) : c \in C}
       /\ l.last_fragment # NULL => l.last_fragment < hp
       /\ l.last_fragment # NULL /\ l.last_fragment + 1 = hp =>
            l.last_fragment \in DOMAIN h /\ h[l.last_fragment] = Header(0, "white")

\* The blocks in use are no free blocks, and none that the sweep will free.
LiveOK(h, users, phase, hp) ==
  \A b \in DOMAIN users :
    /\ b \in DOMAIN h /\ h[b].wosize = users[b] /\ users[b] > 0
    /\ h[b].color # "blue"
    /\ phase = "sweep" /\ h[b].color = "white" => b < hp

HeapOK(h, l, C, users, phase, hp) ==
  /\ Tiling(h, C)
  /\ FlType(l, BlueIn(h))
  /\ SweepOK(h, l, C, phase, hp)
  /\ users = [b \in DOMAIN users |-> users[b]]
  /\ LiveOK(h, users, phase, hp)

\* The inductive invariant.
HeapInv == HeapOK(hd, fl, heap, live, gc_phase, gc_sweep_hp)

-----------------------------------------------------------------------------
(* Chunks and tilings                                                      *)

\* An address is in at most one chunk, and no chunk begins where one ends.
LEMMA OneChunk ==
  ASSUME NEW c \in DOMAIN Chunk_size, NEW d \in DOMAIN Chunk_size, NEW a \in Int,
         c <= a, a <= Limit(c), d <= a, a <= Limit(d)
  PROVE  c = d
  BY ChunkAssumption DEF Limit

\* A chunk has room for its head and one block.
LEMMA ChunkTypes ==
  ASSUME NEW c \in DOMAIN Chunk_size
  PROVE  c \in Nat /\ c > 0 /\ Chunk_size[c] \in Nat /\ Limit(c) \in Nat /\ Limit(c) > c + 1
  BY ChunkAssumption DEF Limit

\* A block of a tiled heap has a size, a colour and an end above its start.
LEMMA TilingTypes ==
  ASSUME NEW h, NEW C, Tiling(h, C), NEW b \in DOMAIN h
  PROVE  /\ b \in Nat /\ b > 0
         /\ h[b].wosize \in Nat
         /\ h[b].color \in {"white", "black", "blue"}
         /\ EndIn(h, b) \in Nat /\ b < EndIn(h, b)
<1>1. h[b] \in HeaderType /\ b \in Nat
  BY DEF Tiling
<1>2. PICK c \in C : c <= b
  BY DEF Tiling
<1>3. c \in Nat /\ c > 0
  BY ChunkTypes DEF Tiling
<1>4. QED
  BY <1>1, <1>2, <1>3 DEF HeaderType, EndIn

\* The block after b, if there is one, is in the same chunk and not its first.
LEMMA NextInChunk ==
  ASSUME NEW h, NEW C, Tiling(h, C), NEW b \in DOMAIN h, NEW d \in DOMAIN h, d = EndIn(h, b)
  PROVE  /\ d \notin C
         /\ \E c \in C : /\ c <= b
                         /\ EndIn(h, d) = Limit(c) \/ (EndIn(h, d) < Limit(c) /\ EndIn(h, d) \in DOMAIN h)
<1>1. PICK c \in C : c <= b /\ (EndIn(h, b) = Limit(c) \/ EndIn(h, b) < Limit(c))
  BY DEF Tiling
<1>2. PICK e \in C : e <= d /\ (EndIn(h, d) = Limit(e) \/ (EndIn(h, d) < Limit(e) /\ EndIn(h, d) \in DOMAIN h))
  BY DEF Tiling
<1>3. c \in DOMAIN Chunk_size /\ e \in DOMAIN Chunk_size
  BY DEF Tiling
<1>4. b < d /\ d < EndIn(h, d) /\ b \in Nat /\ d \in Nat /\ EndIn(h, d) \in Nat
  BY TilingTypes
<1>5. c \in Nat /\ e \in Nat /\ Limit(c) \in Nat /\ Limit(e) \in Nat
  BY <1>3, ChunkTypes
<1>6. c = e
  BY <1>1, <1>2, <1>3, <1>4, <1>5, OneChunk
<1>7. d \notin C
  <2> SUFFICES ASSUME d \in C PROVE FALSE
    OBVIOUS
  <2>1. d \in DOMAIN Chunk_size /\ d <= Limit(d)
    BY ChunkTypes DEF Tiling
  <2>2. c = d
    BY <1>1, <1>3, <1>4, <1>5, <2>1, OneChunk
  <2>3. QED
    BY <2>2, <1>1, <1>4
<1>8. QED
  BY <1>1, <1>2, <1>6, <1>7

\* Colours do not matter.
LEMMA RecolorTiling ==
  ASSUME NEW h, NEW C, Tiling(h, C), NEW g \in [DOMAIN h -> HeaderType],
         \A b \in DOMAIN h : g[b].wosize = h[b].wosize
  PROVE  Tiling(g, C)
<1>1. DOMAIN g = DOMAIN h /\ \A b \in DOMAIN h : EndIn(g, b) = EndIn(h, b)
  BY DEF EndIn
<1>2. QED
  BY <1>1 DEF Tiling

\* A block b is cut in two.
LEMMA SplitTiling ==
  ASSUME NEW h, NEW C, Tiling(h, C), NEW b \in DOMAIN h, NEW n \in Nat, NEW m \in Nat,
         n + 1 + m = h[b].wosize,
         NEW g \in [DOMAIN h \cup {b + n + 1} -> HeaderType],
         g[b].wosize = n, g[b + n + 1].wosize = m,
         \A d \in DOMAIN h \ {b} : g[d].wosize = h[d].wosize
  PROVE  Tiling(g, C) /\ b + n + 1 \notin DOMAIN h
<1> DEFINE e == b + n + 1
<1>1. /\ b \in Nat /\ e \in Nat /\ b < e /\ e < EndIn(h, b)
      /\ EndIn(h, b) \in Nat
      /\ EndIn(g, b) = e /\ EndIn(g, e) = EndIn(h, b)
  BY TilingTypes DEF EndIn
<1>2. \A d \in DOMAIN h \ {b} : EndIn(g, d) = EndIn(h, d)
  BY DEF EndIn
<1>3. \A d \in DOMAIN h : d \in Nat /\ EndIn(h, d) \in Nat /\ d < EndIn(h, d)
  BY TilingTypes
<1>4. \A d \in DOMAIN h \ {b} : (d < b /\ EndIn(h, d) <= b) \/ (b < d /\ EndIn(h, b) <= d)
  <2>1. \A d \in DOMAIN h \ {b} : d < b \/ b < d
    BY <1>1, <1>3
  <2>2. \A x, y \in DOMAIN h : x < y => EndIn(h, x) <= y
    BY DEF Tiling
  <2>3. QED
    BY <2>1, <2>2
<1>5. e \notin DOMAIN h
  BY <1>1, <1>3, <1>4
<1>6. ASSUME NEW x \in DOMAIN g
      PROVE  \E c \in C : c <= x /\ (EndIn(g, x) = Limit(c) \/ (EndIn(g, x) < Limit(c) /\ EndIn(g, x) \in DOMAIN g))
  <2>1. PICK c \in C : c <= b /\ (EndIn(h, b) = Limit(c) \/ (EndIn(h, b) < Limit(c) /\ EndIn(h, b) \in DOMAIN h))
    BY DEF Tiling
  <2>2. c \in Nat /\ Limit(c) \in Nat
    BY ChunkTypes DEF Tiling
  <2>3. CASE x = e
    BY <2>1, <2>2, <2>3, <1>1
  <2>4. CASE x = b
    <3>1. EndIn(g, x) < Limit(c) /\ EndIn(g, x) \in DOMAIN g
      BY <2>1, <2>2, <2>4, <1>1
    <3>2. QED
      BY <2>1, <2>4, <3>1
  <2>5. CASE x \in DOMAIN h \ {b}
    BY <2>5, <1>2 DEF Tiling
  <2>6. QED
    BY <2>3, <2>4, <2>5
<1>7. ASSUME NEW x \in DOMAIN g, NEW y \in DOMAIN g, x < y
      PROVE  EndIn(g, x) <= y
  <2>1. CASE x = e
    BY <2>1, <1>1, <1>3, <1>4, <1>7
  <2>2. CASE x = b
    BY <2>2, <1>1, <1>3, <1>4, <1>7
  <2>3. CASE x \in DOMAIN h \ {b} /\ y = e
    BY <2>3, <1>1, <1>2, <1>3, <1>4, <1>7
  <2>4. CASE x \in DOMAIN h \ {b} /\ y \in DOMAIN h
    BY <2>4, <1>2, <1>7 DEF Tiling
  <2>5. QED
    BY <2>1, <2>2, <2>3, <2>4
<1>8. C \subseteq DOMAIN Chunk_size /\ C \subseteq DOMAIN g /\ DOMAIN g \subseteq Nat
  BY <1>1 DEF Tiling
<1>9. QED
  BY <1>5, <1>6, <1>7, <1>8 DEF Tiling

\* What Join does to the headers.
LEMMA JoinFacts ==
  ASSUME NEW h, NEW C, Tiling(h, C), NEW b \in DOMAIN h, NEW d \in DOMAIN h, d = EndIn(h, b)
  PROVE  /\ Join(h, b, d) \in [DOMAIN h \ {d} -> HeaderType]
         /\ b # d
         /\ EndIn(Join(h, b, d), b) = EndIn(h, d)
         /\ Join(h, b, d)[b].wosize = h[b].wosize + h[d].wosize + 1
         /\ Join(h, b, d)[b].wosize # 0
         /\ Join(h, b, d)[b].color = h[b].color
         /\ \A x \in DOMAIN h \ {b, d} : Join(h, b, d)[x] = h[x]
<1>1. b \in Nat /\ b < d /\ d \in Nat /\ h[b].wosize \in Nat /\ h[d].wosize \in Nat
  BY TilingTypes
<1>2. h \in [DOMAIN h -> HeaderType]
  BY DEF Tiling
<1> DEFINE k == [h EXCEPT ![b].wosize = @ + h[d].wosize + 1]
<1>3. k \in [DOMAIN h -> HeaderType]
  BY <1>1, <1>2 DEF HeaderType
<1>4. k[b].wosize = h[b].wosize + h[d].wosize + 1 /\ k[b].color = h[b].color
  BY <1>2 DEF HeaderType
<1>5. \A x \in DOMAIN h \ {b} : k[x] = h[x]
  BY <1>2
<1>6. Join(h, b, d) = [x \in DOMAIN h \ {d} |-> k[x]]
  BY <1>3 DEF Join, Without
<1> HIDE DEF k
<1>7. Join(h, b, d) \in [DOMAIN h \ {d} -> HeaderType]
  BY <1>3, <1>6
<1>8. Join(h, b, d)[b] = k[b]
  BY <1>1, <1>6
<1>9. QED
  BY <1>1, <1>4, <1>5, <1>6, <1>7, <1>8 DEF EndIn

\* Two neighbours become one block.
LEMMA JoinTiling ==
  ASSUME NEW h, NEW C, Tiling(h, C), NEW b \in DOMAIN h, NEW d \in DOMAIN h, d = EndIn(h, b)
  PROVE  Tiling(Join(h, b, d), C)
<1> DEFINE g == Join(h, b, d)
<1>1. /\ g \in [DOMAIN h \ {d} -> HeaderType] /\ DOMAIN g = DOMAIN h \ {d}
      /\ b \in DOMAIN g
      /\ EndIn(g, b) = EndIn(h, d)
      /\ \A x \in DOMAIN g \ {b} : EndIn(g, x) = EndIn(h, x)
  BY JoinFacts DEF EndIn
<1> HIDE DEF g
<1>2. \A x \in DOMAIN h : x \in Nat /\ EndIn(h, x) \in Nat /\ x < EndIn(h, x)
  BY TilingTypes
<1>3. \A x \in DOMAIN g \ {b} : EndIn(h, x) # d
  BY <1>1, <1>2 DEF Tiling
<1>4. ASSUME NEW x \in DOMAIN g
      PROVE  \E c \in C : c <= x /\ (EndIn(g, x) = Limit(c) \/ (EndIn(g, x) < Limit(c) /\ EndIn(g, x) \in DOMAIN g))
  <2>1. CASE x = b
    <3>1. PICK c \in C : /\ c <= b
                         /\ EndIn(h, d) = Limit(c) \/ (EndIn(h, d) < Limit(c) /\ EndIn(h, d) \in DOMAIN h)
      BY NextInChunk
    <3>2. EndIn(h, d) # d
      BY <1>2
    <3>3. EndIn(g, x) = EndIn(h, d) /\ DOMAIN g = DOMAIN h \ {d}
      BY <2>1, <1>1
    <3>4. EndIn(g, x) = Limit(c) \/ (EndIn(g, x) < Limit(c) /\ EndIn(g, x) \in DOMAIN g)
      BY <3>1, <3>2, <3>3
    <3>5. QED
      BY <2>1, <3>1, <3>4
  <2>2. CASE x # b
    BY <2>2, <1>1, <1>3 DEF Tiling
  <2>3. QED
    BY <2>1, <2>2
<1>5. ASSUME NEW x \in DOMAIN g, NEW y \in DOMAIN g, x < y
      PROVE  EndIn(g, x) <= y
  <2>1. CASE x = b
    <3>1. y \in DOMAIN h /\ d <= y /\ d # y
      BY <1>1, <1>5, <2>1 DEF Tiling
    <3>2. d < y /\ EndIn(h, d) <= y
      BY <3>1, <1>2 DEF Tiling
    <3>3. QED
      BY <2>1, <3>2, <1>1
  <2>2. CASE x # b
    BY <2>2, <1>1, <1>5 DEF Tiling
  <2>3. QED
    BY <2>1, <2>2
<1>6. C \subseteq DOMAIN g
  BY <1>1, NextInChunk DEF Tiling
<1>7. QED
  BY <1>1, <1>4, <1>5, <1>6 DEF Tiling, g

\* A chunk is added, as one block.
LEMMA ChunkTiling ==
  ASSUME NEW h, NEW C, Tiling(h, C), NEW c \in DOMAIN Chunk_size \ C
  PROVE  /\ Tiling(With(h, c, Header(Chunk_size[c] - 1, "blue")), C \cup {c})
         /\ c \notin DOMAIN h
<1> DEFINE g == With(h, c, Header(Chunk_size[c] - 1, "blue"))
<1>1. c \in Nat /\ Chunk_size[c] \in Nat /\ Limit(c) \in Nat /\ Limit(c) > c + 1
  BY ChunkTypes
<1>2. Chunk_size[c] - 1 \in Nat
  BY <1>1 DEF Limit
<1>3. Header(Chunk_size[c] - 1, "blue") \in HeaderType
  BY <1>2 DEF Header, HeaderType
<1>4. \A x \in DOMAIN h : x \in Nat /\ EndIn(h, x) \in Nat /\ x < EndIn(h, x)
  BY TilingTypes
<1>5. ASSUME NEW x \in DOMAIN h PROVE (x < c /\ EndIn(h, x) < c) \/ Limit(c) < x
  <2>1. PICK e \in C : e <= x /\ EndIn(h, x) <= Limit(e)
    <3>1. \A e \in C : Limit(e) \in Nat
      BY ChunkTypes DEF Tiling
    <3>2. QED
      BY <3>1, <1>4 DEF Tiling
  <2>2. e \in DOMAIN Chunk_size /\ e # c /\ e \in Nat
    BY ChunkTypes DEF Tiling
  <2>3. (e < c /\ Limit(e) < c) \/ (c < e /\ Limit(c) < e)
    BY <2>2, <1>1, ChunkAssumption DEF Limit
  <2>4. Limit(e) \in Nat
    BY <2>2, ChunkTypes
  <2>5. QED
    BY <2>1, <2>2, <2>3, <2>4, <1>1, <1>4
<1>6. c \notin DOMAIN h
  BY <1>1, <1>5
<1>7. /\ g \in [DOMAIN h \cup {c} -> HeaderType] /\ DOMAIN g = DOMAIN h \cup {c}
      /\ \A x \in DOMAIN h : g[x] = h[x]
      /\ g[c] = Header(Chunk_size[c] - 1, "blue")
  BY <1>3, <1>6 DEF With, Tiling
<1> HIDE DEF g
<1>8. EndIn(g, c) = Limit(c)
  BY <1>1, <1>7 DEF EndIn, Limit, Header
<1>9. \A x \in DOMAIN h : EndIn(g, x) = EndIn(h, x)
  BY <1>7 DEF EndIn
<1>10. ASSUME NEW x \in DOMAIN g
       PROVE  \E e \in C \cup {c} : e <= x /\ (EndIn(g, x) = Limit(e) \/ (EndIn(g, x) < Limit(e) /\ EndIn(g, x) \in DOMAIN g))
  <2>1. CASE x = c
    BY <2>1, <1>1, <1>8
  <2>2. CASE x \in DOMAIN h
    BY <2>2, <1>7, <1>9 DEF Tiling
  <2>3. QED
    BY <2>1, <2>2, <1>7
<1>11. ASSUME NEW x \in DOMAIN g, NEW y \in DOMAIN g, x < y
       PROVE  EndIn(g, x) <= y
  <2>1. CASE x = c
    BY <2>1, <1>1, <1>4, <1>5, <1>7, <1>8, <1>11
  <2>2. CASE y = c
    BY <2>2, <1>1, <1>4, <1>5, <1>7, <1>9, <1>11
  <2>3. CASE x \in DOMAIN h /\ y \in DOMAIN h
    BY <2>3, <1>9, <1>11 DEF Tiling
  <2>4. QED
    BY <2>1, <2>2, <2>3, <1>7
<1>12. Tiling(g, C \cup {c})
  BY <1>1, <1>7, <1>10, <1>11 DEF Tiling
<1>13. QED
  BY <1>6, <1>12 DEF g

-----------------------------------------------------------------------------
(* Lists                                                                   *)

\* Linking a new block behind a member leaves a list of all of them.
LEMMA LinkIsList ==
  ASSUME NEW next, NEW B, IsList(next, B), Fl_head \notin B, NULL \notin B,
         NEW prev \in B \cup {Fl_head}, NEW b, b \notin B \cup {Fl_head, NULL}
  PROVE  IsList(Link(next, prev, b), B \cup {b})
<1> DEFINE D == B \cup {Fl_head}
           new == Link(next, prev, b)
<1>1. next \in [D -> B \cup {NULL}]
  BY DEF IsList
<1>2. /\ new = [x \in D \cup {b} |-> IF x = prev THEN b ELSE IF x = b THEN next[prev] ELSE next[x]]
      /\ prev # b
  BY <1>1 DEF Link, With
<1>3. new \in [(B \cup {b}) \cup {Fl_head} -> (B \cup {b}) \cup {NULL}]
  BY <1>1, <1>2
<1>4. PICK rank : Ranks(rank, next, B)
  BY DEF IsList
<1>5. /\ rank \in [D -> Nat] /\ rank[Fl_head] = 0
      /\ \A p, q \in D : rank[p] = rank[q] => p = q
      /\ \A p \in D : next[p] = NULL => \A q \in D : rank[q] <= rank[p]
      /\ \A p \in D : next[p] # NULL => next[p] \in D /\ rank[next[p]] = rank[p] + 1
  BY <1>1, <1>4 DEF Ranks
<1>6. PICK last \in D : next[last] = NULL
  BY <1>4 DEF Ranks
<1>7. \A x \in B : \E p \in D : next[p] = x
  BY <1>4 DEF Ranks
<1> DEFINE r == [x \in D \cup {b} |-> IF x = b THEN rank[prev] + 1
                                      ELSE IF rank[x] <= rank[prev] THEN rank[x] ELSE rank[x] + 1]
<1>8. r \in [D \cup {b} -> Nat]
  BY <1>5
<1>9. /\ \A p \in D : p # b /\ rank[p] \in Nat
      /\ \A p \in D : r[p] = IF rank[p] <= rank[prev] THEN rank[p] ELSE rank[p] + 1
      /\ r[b] = rank[prev] + 1
  BY <1>5
<1> HIDE DEF r
<1>10. /\ new[prev] = b /\ new[b] = next[prev]
       /\ \A p \in D \ {prev} : new[p] = next[p]
  BY <1>2, <1>9
<1>11. r[Fl_head] = 0
  BY <1>5, <1>9
<1>12. \A p, q \in D \cup {b} : r[p] = r[q] => p = q
  BY <1>5, <1>9
<1>13. ASSUME NEW p \in D \cup {b}, new[p] = NULL, NEW q \in D \cup {b} PROVE r[q] <= r[p]
  <2>1. CASE p = b
    BY <2>1, <1>5, <1>9, <1>10, <1>13
  <2>2. CASE p # b
    <3>1. p \in D \ {prev} /\ next[p] = NULL
      BY <2>2, <1>10, <1>13
    <3>2. rank[prev] < rank[p]
      BY <3>1, <1>5, <1>9
    <3>3. QED
      BY <3>1, <3>2, <1>5, <1>9
  <2>3. QED
    BY <2>1, <2>2
<1>14. ASSUME NEW p \in D \cup {b}, new[p] # NULL PROVE r[new[p]] = r[p] + 1
  <2>1. CASE p = prev
    BY <2>1, <1>9, <1>10
  <2>2. CASE p = b
    BY <2>2, <1>5, <1>9, <1>10, <1>14
  <2>3. CASE p \in D \ {prev}
    <3>1. new[p] = next[p] /\ next[p] \in D /\ rank[next[p]] = rank[p] + 1
      BY <2>3, <1>5, <1>10, <1>14
    <3>2. rank[p] # rank[prev]
      BY <2>3, <1>5
    <3>3. QED
      BY <2>3, <3>1, <3>2, <1>9
  <2>4. QED
    BY <2>1, <2>2, <2>3
<1>15. \E p \in D \cup {b} : new[p] = NULL
  BY <1>6, <1>10
<1>16. \A x \in B \cup {b} : \E p \in D \cup {b} : new[p] = x
  BY <1>7, <1>10
<1>17. (B \cup {b}) \cup {Fl_head} = D \cup {b}
  OBVIOUS
<1>18. IsList(new, B \cup {b})
  <2> HIDE DEF new, D
  <2>1. Ranks(r, new, B \cup {b})
    BY <1>8, <1>11, <1>12, <1>13, <1>14, <1>15, <1>16, <1>17 DEF Ranks
  <2>2. QED
    BY <2>1, <1>3 DEF IsList
<1>19. QED
  BY <1>18

\* Unlinking the successor of a member leaves a list of the others.
LEMMA UnlinkIsList ==
  ASSUME NEW next, NEW B, IsList(next, B), Fl_head \notin B, NULL \notin B,
         NEW prev \in B \cup {Fl_head}, next[prev] # NULL
  PROVE  /\ next[prev] \in B /\ next[prev] # prev
         /\ IsList(Unlink(next, prev), B \ {next[prev]})
<1> DEFINE D == B \cup {Fl_head}
           cur == next[prev]
           new == Unlink(next, prev)
<1>1. next \in [D -> B \cup {NULL}] /\ cur \in B
  BY DEF IsList
<1>2. PICK rank : Ranks(rank, next, B)
  BY DEF IsList
<1>3. /\ rank \in [D -> Nat] /\ rank[Fl_head] = 0
      /\ \A p, q \in D : rank[p] = rank[q] => p = q
      /\ \A p \in D : next[p] = NULL => \A q \in D : rank[q] <= rank[p]
      /\ \A p \in D : next[p] # NULL => next[p] \in D /\ rank[next[p]] = rank[p] + 1
  BY <1>1, <1>2 DEF Ranks
<1>4. PICK last \in D : next[last] = NULL
  BY <1>2 DEF Ranks
<1>5. \A x \in B : \E p \in D : next[p] = x
  BY <1>2 DEF Ranks
<1>6. cur # prev /\ rank[cur] = rank[prev] + 1 /\ cur \in D /\ cur # Fl_head
  BY <1>1, <1>3
<1>7. new = [x \in D \ {cur} |-> IF x = prev THEN next[cur] ELSE next[x]]
  BY <1>1 DEF Unlink, Without
<1>8. /\ \A p \in D \ {prev} : next[p] # cur
      /\ next[cur] # cur
  BY <1>1, <1>3, <1>6
<1>9. /\ new \in [(B \ {cur}) \cup {Fl_head} -> (B \ {cur}) \cup {NULL}]
      /\ (B \ {cur}) \cup {Fl_head} = D \ {cur}
  BY <1>1, <1>7, <1>8
<1> DEFINE r == [x \in D \ {cur} |-> IF rank[x] <= rank[prev] THEN rank[x] ELSE rank[x] - 1]
<1>10. \A p \in D \ {cur} : /\ rank[p] \in Nat /\ rank[p] # rank[cur]
                            /\ r[p] = IF rank[p] <= rank[prev] THEN rank[p] ELSE rank[p] - 1
  BY <1>3, <1>6
<1>11. r \in [D \ {cur} -> Nat]
  BY <1>3, <1>6
<1> HIDE DEF r
<1>12. /\ new[prev] = next[cur] /\ prev \in D \ {cur}
       /\ \A p \in D \ {cur, prev} : new[p] = next[p]
  BY <1>6, <1>7
<1>13. r[Fl_head] = 0
  BY <1>3, <1>6, <1>10
<1>14. \A p, q \in D \ {cur} : r[p] = r[q] => p = q
  BY <1>3, <1>6, <1>10
<1>15. ASSUME NEW p \in D \ {cur}, new[p] = NULL, NEW q \in D \ {cur} PROVE r[q] <= r[p]
  <2>1. CASE p = prev
    <3>1. rank[q] <= rank[cur] /\ rank[q] # rank[cur]
      BY <2>1, <1>3, <1>6, <1>10, <1>12, <1>15
    <3>2. QED
      BY <2>1, <3>1, <1>3, <1>6, <1>10
  <2>2. CASE p # prev
    <3>1. next[p] = NULL
      BY <2>2, <1>12, <1>15
    <3>2. rank[q] <= rank[p] /\ rank[cur] <= rank[p]
      BY <3>1, <1>3, <1>6
    <3>3. QED
      BY <3>2, <1>3, <1>6, <1>10
  <2>3. QED
    BY <2>1, <2>2
<1>16. ASSUME NEW p \in D \ {cur}, new[p] # NULL PROVE r[new[p]] = r[p] + 1
  <2>1. CASE p = prev
    <3>1. new[p] = next[cur] /\ next[cur] \in D \ {cur} /\ rank[next[cur]] = rank[prev] + 2
      BY <2>1, <1>3, <1>6, <1>8, <1>12, <1>16
    <3>2. QED
      BY <2>1, <3>1, <1>3, <1>10
  <2>2. CASE p # prev
    <3>1. new[p] = next[p] /\ next[p] \in D \ {cur} /\ rank[next[p]] = rank[p] + 1
      BY <2>2, <1>3, <1>8, <1>12, <1>16
    <3>2. rank[p] # rank[prev] /\ rank[p] # rank[cur]
      BY <2>2, <1>3, <1>6
    <3>3. QED
      BY <3>1, <3>2, <1>3, <1>6, <1>10
  <2>3. QED
    BY <2>1, <2>2
<1>17. \E p \in D \ {cur} : new[p] = NULL
  BY <1>4, <1>12
<1>18. \A x \in B \ {cur} : \E p \in D \ {cur} : new[p] = x
  BY <1>5, <1>12
<1>19. IsList(new, B \ {cur})
  <2> HIDE DEF new, D, cur
  <2>1. Ranks(r, new, B \ {cur})
    BY <1>9, <1>11, <1>13, <1>14, <1>15, <1>16, <1>17, <1>18 DEF Ranks
  <2>2. QED
    BY <2>1, <1>9 DEF IsList
<1>20. QED
  BY <1>1, <1>6, <1>19

-----------------------------------------------------------------------------
(* Allocation                                                              *)

\* What the search returns is followed by a block that is large enough.
LEMMA FoundFits ==
  ASSUME NEW l, NEW h, NEW wo, NEW prev \in fl_allocate(l, h, wo)
  PROVE  prev \in DOMAIN l.next /\ l.next[prev] # NULL /\ h[l.next[prev]].wosize >= wo
  BY DEF fl_allocate, Fitting

\* What allocate_block does to the headers and to the list, for a given colour.
Rest(h, cur, wo) ==
  IF Exhausts(h[cur].wosize, wo) THEN Header(0, "white")
  ELSE Header(h[cur].wosize - (wo + 1), "blue")

Place_in(h, cur, wo) == cur + h[cur].wosize - wo

Cut(h, cur, wo, color) ==
  With(With(h, cur, Rest(h, cur, wo)), Place_in(h, cur, wo), Header(wo, color))

Shrunk(l, prev, wo) == [l EXCEPT !.prev = prev, !.cur_size = @ - (wo + 1)]

Taken_from(l, h, prev, wo) ==
  IF Exhausts(h[l.next[prev]].wosize, wo) THEN Detach(l, h, prev) ELSE Shrunk(l, prev, wo)

\* The headers after a block of wo words was cut off the free block cur.
LEMMA AllocateTiling ==
  ASSUME NEW h, NEW C, Tiling(h, C), NEW cur \in BlueIn(h),
         NEW wo \in Nat, wo > 0, h[cur].wosize >= wo, NEW color \in {"white", "black"}
  PROVE  /\ Tiling(Cut(h, cur, wo, color), C)
         /\ BlueIn(Cut(h, cur, wo, color)) =
              IF Exhausts(h[cur].wosize, wo) THEN BlueIn(h) \ {cur} ELSE BlueIn(h)
         /\ DOMAIN Cut(h, cur, wo, color) = DOMAIN h \cup {Place_in(h, cur, wo)}
         /\ Place_in(h, cur, wo) \notin DOMAIN h \ {cur}
         /\ Cut(h, cur, wo, color)[Place_in(h, cur, wo)] = Header(wo, color)
         /\ \A x \in DOMAIN h \ {cur} : Cut(h, cur, wo, color)[x] = h[x]
<1> DEFINE have == h[cur].wosize
           rest == Rest(h, cur, wo)
           hp   == Place_in(h, cur, wo)
           g    == Cut(h, cur, wo, color)
<1>1. cur \in DOMAIN h /\ h[cur].color = "blue" /\ cur \in Nat /\ have \in Nat
  BY TilingTypes DEF BlueIn
<1>2. h \in [DOMAIN h -> HeaderType]
  BY DEF Tiling
<1>3. Header(wo, color) \in HeaderType /\ rest \in HeaderType
  BY <1>1 DEF Header, HeaderType, Exhausts, Rest
<1>4. g = [x \in DOMAIN h \cup {hp} |-> IF x = hp THEN Header(wo, color) ELSE IF x = cur THEN rest ELSE h[x]]
  BY <1>1 DEF With, Cut
<1>9. /\ rest = IF Exhausts(have, wo) THEN Header(0, "white") ELSE Header(have - (wo + 1), "blue")
      /\ hp = cur + have - wo
  BY DEF Rest, Place_in
<1> HIDE DEF rest, hp, g
<1>5. g \in [DOMAIN h \cup {hp} -> HeaderType]
  BY <1>2, <1>3, <1>4
<1>6. CASE have = wo
  <2>1. hp = cur /\ Exhausts(have, wo)
    BY <1>1, <1>6, <1>9 DEF Exhausts
  <2>2. \A x \in DOMAIN h : g[x].wosize = h[x].wosize
    BY <2>1, <1>4, <1>6 DEF Header
  <2>3. Tiling(g, C)
    <3>1. g \in [DOMAIN h -> HeaderType]
      BY <2>1, <1>1, <1>5
    <3>2. QED
      BY <2>2, <3>1, RecolorTiling
  <2>4. BlueIn(g) = BlueIn(h) \ {cur}
    BY <2>1, <1>1, <1>4 DEF BlueIn, Header
  <2>5. /\ DOMAIN g = DOMAIN h \cup {hp} /\ hp \notin DOMAIN h \ {cur}
        /\ g[hp] = Header(wo, color)
        /\ \A x \in DOMAIN h \ {cur} : g[x] = h[x]
    BY <2>1, <1>1, <1>4
  <2>6. QED
    BY <2>1, <2>3, <2>4, <2>5 DEF g, hp
<1>7. CASE have # wo
  <2> DEFINE n == have - (wo + 1)
  <2>1. n \in Nat /\ n + 1 + wo = have /\ hp = cur + n + 1 /\ hp # cur
    <3>1. have \in Nat /\ have > wo /\ cur \in Nat /\ hp = cur + have - wo
      BY <1>1, <1>7, <1>9
    <3> HIDE DEF have
    <3>2. QED
      BY <3>1
  <2>2. rest.wosize = n /\ rest.color = IF Exhausts(have, wo) THEN "white" ELSE "blue"
    BY <2>1, <1>1, <1>9 DEF Exhausts, Header
  <2>3. g[cur] = rest /\ g[hp] = Header(wo, color) /\ \A x \in DOMAIN h \ {cur} : x # hp => g[x] = h[x]
    <3>1. g[cur] = rest
      <4>1. cur \in DOMAIN h \cup {hp} /\ cur # hp
        BY <2>1, <1>1
      <4>2. QED
        BY <4>1, <1>4, Zenon
    <3>2. g[hp] = Header(wo, color)
      BY <1>4
    <3>3. \A x \in DOMAIN h \ {cur} : x # hp => g[x] = h[x]
      BY <1>4
    <3>4. QED
      BY <3>1, <3>2, <3>3
  <2>4. g[cur].wosize = n /\ g[hp].wosize = wo
    BY <2>2, <2>3 DEF Header
  <2>5. hp \notin DOMAIN h
    <3>1. cur < hp /\ hp < EndIn(h, cur) /\ EndIn(h, cur) \in Nat
      BY <2>1, <1>1 DEF EndIn
    <3>2. QED
      BY <3>1, <1>1, <2>1 DEF Tiling
  <2>6. \A x \in DOMAIN h \ {cur} : g[x].wosize = h[x].wosize
    BY <2>3, <2>5
  <2>7. Tiling(g, C)
    <3>1. g \in [DOMAIN h \cup {cur + n + 1} -> HeaderType] /\ g[cur + n + 1].wosize = wo
      BY <2>1, <2>4, <1>5
    <3> HIDE DEF n
    <3>2. QED
      BY <2>1, <2>4, <2>6, <3>1, <1>1, SplitTiling
  <2>8. BlueIn(g) = IF Exhausts(have, wo) THEN BlueIn(h) \ {cur} ELSE BlueIn(h)
    <3>1. g[hp].color # "blue" /\ DOMAIN g = DOMAIN h \cup {hp}
      BY <2>3, <1>5 DEF Header
    <3>2. QED
      BY <3>1, <2>2, <2>3, <2>5, <1>1 DEF BlueIn
  <2>9. QED
    BY <2>3, <2>5, <2>7, <2>8, <1>5 DEF g, hp
<1>8. QED
  BY <1>6, <1>7

\* The list without the block that follows prev.
LEMMA DetachList ==
  ASSUME NEW l, NEW B, FlType(l, B), Fl_head \notin B, NULL \notin B, NEW h,
         NEW prev \in B \cup {Fl_head}, l.next[prev] # NULL,
         h[l.next[prev]].wosize \in Int
  PROVE  /\ l.next[prev] \in B
         /\ FlType(Detach(l, h, prev), B \ {l.next[prev]})
         /\ Detach(l, h, prev).last_fragment = l.last_fragment
<1> DEFINE cur == l.next[prev]
           new == Unlink(l.next, prev)
           P == B \cup {Fl_head}
           Q == (B \ {cur}) \cup {Fl_head}
<1>1. cur \in B /\ cur # prev /\ IsList(new, B \ {cur})
  BY UnlinkIsList DEF FlType
<1>2. /\ l \in FlSet([P -> B \cup {NULL}], P)
      /\ new \in [Q -> (B \ {cur}) \cup {NULL}]
      /\ prev \in Q
      /\ (IF l.merge = cur THEN prev ELSE l.merge) \in Q
  BY <1>1 DEF FlType, IsList, FlSet
<1>3. l.cur_size - (h[cur].wosize + 1) \in Int
  BY <1>2 DEF FlSet
<1> HIDE DEF new, Q
<1>4. /\ Detach(l, h, prev) \in FlSet([Q -> (B \ {cur}) \cup {NULL}], Q)
      /\ Detach(l, h, prev).next = new
      /\ Detach(l, h, prev).last_fragment = l.last_fragment
  BY <1>2, <1>3 DEF Detach, FlSet, new
<1>5. QED
  BY <1>1, <1>4 DEF FlType, Q

\* The list after a part of the block that follows prev was taken.
LEMMA ShrinkList ==
  ASSUME NEW l, NEW B, FlType(l, B), NEW prev \in B \cup {Fl_head}, NEW wo \in Int
  PROVE  FlType(Shrunk(l, prev, wo), B) /\ Shrunk(l, prev, wo).last_fragment = l.last_fragment
<1> DEFINE P == B \cup {Fl_head}
           L == [P -> B \cup {NULL}]
<1>1. l \in FlSet(L, P) /\ prev \in P
  BY DEF FlType
<1> HIDE DEF P, L
<1>2. l.cur_size - (wo + 1) \in Int
  BY <1>1 DEF FlSet
<1>3. /\ Shrunk(l, prev, wo) \in FlSet(L, P) /\ Shrunk(l, prev, wo).next = l.next
      /\ Shrunk(l, prev, wo).last_fragment = l.last_fragment
  BY <1>1, <1>2 DEF FlSet, Shrunk
<1>4. QED
  BY <1>3 DEF FlType, P, L

\* The sentinel is no block.
LEMMA HeadIsNoBlock ==
  ASSUME NEW h, NEW C, Tiling(h, C)
  PROVE  Fl_head \notin DOMAIN h /\ NULL \notin DOMAIN h /\ Fl_head \notin BlueIn(h)
  BY TilingTypes DEF Fl_head, NULL, BlueIn

\* An allocation from the list keeps the heap well-formed.
LEMMA AllocateOK ==
  ASSUME NEW h, NEW l, NEW C, NEW users, NEW phase, NEW sweep,
         HeapOK(h, l, C, users, phase, sweep),
         NEW wo \in Nat, wo > 0, NEW prev \in fl_allocate(l, h, wo),
         NEW color \in {"white", "black"},
         phase = "sweep" /\ color = "white" => Place_in(h, l.next[prev], wo) < sweep
  PROVE  LET cur == l.next[prev]
             hp  == Place_in(h, cur, wo)
         IN  /\ HeapOK(Cut(h, cur, wo, color), Taken_from(l, h, prev, wo), C,
                       With(users, hp, wo), phase, sweep)
             /\ hp \notin DOMAIN users
<1> DEFINE cur == l.next[prev]
           hp  == Place_in(h, cur, wo)
           g   == Cut(h, cur, wo, color)
           m   == Taken_from(l, h, prev, wo)
<1>1. Tiling(h, C) /\ FlType(l, BlueIn(h))
  BY DEF HeapOK
<1>2. Fl_head \notin BlueIn(h) /\ NULL \notin BlueIn(h)
  BY <1>1, HeadIsNoBlock DEF BlueIn
<1>3. prev \in BlueIn(h) \cup {Fl_head} /\ l.next[prev] # NULL /\ h[cur].wosize >= wo
  BY <1>1, FoundFits DEF FlType, IsList
<1>4. cur \in BlueIn(h)
  BY <1>1, <1>3 DEF FlType, IsList
<1>5. cur \in DOMAIN h /\ h[cur].color = "blue" /\ h[cur].wosize \in Int
  BY <1>1, <1>4, TilingTypes DEF BlueIn
<1>6. /\ Tiling(g, C)
      /\ BlueIn(g) = IF Exhausts(h[cur].wosize, wo) THEN BlueIn(h) \ {cur} ELSE BlueIn(h)
      /\ DOMAIN g = DOMAIN h \cup {hp}
      /\ hp \notin DOMAIN h \ {cur}
      /\ g[hp] = Header(wo, color)
      /\ \A x \in DOMAIN h \ {cur} : g[x] = h[x]
  <2>1. h[cur].wosize >= wo /\ wo > 0
    BY <1>3
  <2> HIDE DEF cur, hp, g
  <2>2. /\ Tiling(Cut(h, cur, wo, color), C)
        /\ BlueIn(Cut(h, cur, wo, color)) =
             IF Exhausts(h[cur].wosize, wo) THEN BlueIn(h) \ {cur} ELSE BlueIn(h)
        /\ DOMAIN Cut(h, cur, wo, color) = DOMAIN h \cup {Place_in(h, cur, wo)}
        /\ Place_in(h, cur, wo) \notin DOMAIN h \ {cur}
        /\ Cut(h, cur, wo, color)[Place_in(h, cur, wo)] = Header(wo, color)
        /\ \A x \in DOMAIN h \ {cur} : Cut(h, cur, wo, color)[x] = h[x]
    BY <1>1, <1>4, <2>1, AllocateTiling
  <2>3. g = Cut(h, cur, wo, color) /\ hp = Place_in(h, cur, wo)
    BY DEF g, hp
  <2>4. QED
    BY <2>2, <2>3
<1>7. FlType(m, BlueIn(g)) /\ m.last_fragment = l.last_fragment
  <2>2. /\ FlType(Detach(l, h, prev), BlueIn(h) \ {cur})
        /\ Detach(l, h, prev).last_fragment = l.last_fragment
    BY <1>1, <1>2, <1>3, <1>5, DetachList
  <2>3. FlType(Shrunk(l, prev, wo), BlueIn(h)) /\ Shrunk(l, prev, wo).last_fragment = l.last_fragment
    BY <1>1, <1>3, ShrinkList
  <2> HIDE DEF g
  <2>4. CASE Exhausts(h[cur].wosize, wo)
    BY <1>6, <2>2, <2>4 DEF Taken_from
  <2>5. CASE ~Exhausts(h[cur].wosize, wo)
    BY <1>6, <2>3, <2>5 DEF Taken_from
  <2>6. QED
    BY <2>4, <2>5
<1>13. phase = "sweep" /\ color = "white" => hp < sweep
  OBVIOUS
<1> HIDE DEF cur, hp, g, m
<1>8. \A b \in DOMAIN users : b \in DOMAIN h \ {cur} /\ b # hp
  BY <1>5, <1>6 DEF HeapOK, LiveOK
<1>9. LiveOK(g, With(users, hp, wo), phase, sweep)
  <2> DEFINE now == With(users, hp, wo)
  <2>1. /\ DOMAIN now = DOMAIN users \cup {hp} /\ now[hp] = wo
        /\ \A b \in DOMAIN users : now[b] = users[b]
    BY <1>8 DEF With
  <2> HIDE DEF now
  <2>2. g[hp].wosize = wo /\ g[hp].color = color
    BY <1>6 DEF Header
  <2>3. \A b \in DOMAIN users : g[b] = h[b] /\ b \in DOMAIN g
    BY <1>6, <1>8
  <2>4. LiveOK(g, now, phase, sweep)
    BY <1>6, <1>13, <2>1, <2>2, <2>3 DEF HeapOK, LiveOK
  <2>5. QED
    BY <2>4 DEF now
<1>10. SweepOK(g, m, C, phase, sweep)
  <2>1. Header(0, "white") # h[cur]
    BY <1>5 DEF Header
  <2>2. QED
    BY <2>1, <1>6, <1>7 DEF HeapOK, SweepOK
<1>11. With(users, hp, wo) = [b \in DOMAIN With(users, hp, wo) |-> With(users, hp, wo)[b]]
  BY DEF With
<1>12. QED
  BY <1>6, <1>7, <1>8, <1>9, <1>10, <1>11 DEF HeapOK, cur, hp, g, m

\* A new chunk in the list keeps the heap well-formed.
LEMMA AddBlockOK ==
  ASSUME NEW h, NEW l, NEW C, NEW users, NEW phase, NEW sweep,
         HeapOK(h, l, C, users, phase, sweep),
         NEW c \in DOMAIN Chunk_size \ C, NEW prev \in DOMAIN l.next,
         NEW merge \in {l.merge, c},
         NEW m, m = [l EXCEPT !.next = Link(@, prev, c), !.cur_size = @ + Chunk_size[c],
                              !.merge = merge]
  PROVE  HeapOK(With(h, c, Header(Chunk_size[c] - 1, "blue")), m, C \cup {c}, users, phase, sweep)
<1> DEFINE g == With(h, c, Header(Chunk_size[c] - 1, "blue"))
           B == BlueIn(h)
           D == B \cup {Fl_head}
           new == Link(l.next, prev, c)
<1>1. Tiling(h, C) /\ FlType(l, B)
  BY DEF HeapOK
<1>2. Tiling(g, C \cup {c}) /\ c \notin DOMAIN h /\ c \in Nat /\ c > 0 /\ Chunk_size[c] \in Int
  BY <1>1, ChunkTiling, ChunkTypes
<1>3. /\ DOMAIN g = DOMAIN h \cup {c}
      /\ g[c] = Header(Chunk_size[c] - 1, "blue")
      /\ \A x \in DOMAIN h : g[x] = h[x]
  BY <1>2 DEF With
<1> HIDE DEF g
<1>4. BlueIn(g) = B \cup {c}
  BY <1>2, <1>3 DEF BlueIn, Header
<1>5. IsList(new, B \cup {c})
  <2>1. c \notin B \cup {Fl_head, NULL} /\ prev \in D /\ Fl_head \notin B /\ NULL \notin B
    BY <1>1, <1>2, HeadIsNoBlock DEF BlueIn, Fl_head, NULL, FlType, IsList
  <2>2. QED
    BY <2>1, <1>1, LinkIsList DEF FlType
<1>6. FlType(m, B \cup {c}) /\ m.last_fragment = l.last_fragment
  <2>1. /\ l \in FlSet([D -> B \cup {NULL}], D)
        /\ new \in [D \cup {c} -> (B \cup {c}) \cup {NULL}]
        /\ l.prev \in D \cup {c} /\ merge \in D \cup {c}
        /\ l.cur_size + Chunk_size[c] \in Int
    <3>1. l \in FlSet([D -> B \cup {NULL}], D)
      BY <1>1 DEF FlType
    <3>2. l.prev \in D /\ l.merge \in D /\ l.cur_size \in Int
      BY <3>1 DEF FlSet
    <3>3. new \in [(B \cup {c}) \cup {Fl_head} -> (B \cup {c}) \cup {NULL}]
      BY <1>5 DEF IsList
    <3>4. (B \cup {c}) \cup {Fl_head} = D \cup {c}
      OBVIOUS
    <3> HIDE DEF new, D, B
    <3>5. QED
      BY <3>1, <3>2, <3>3, <3>4, <1>2
  <2> HIDE DEF new, D
  <2>2. /\ m \in FlSet([D \cup {c} -> (B \cup {c}) \cup {NULL}], D \cup {c})
        /\ m.next = new /\ m.last_fragment = l.last_fragment
    BY <2>1 DEF FlSet, new
  <2>3. (B \cup {c}) \cup {Fl_head} = D \cup {c}
    BY DEF D
  <2>4. QED
    BY <2>2, <2>3, <1>5 DEF FlType
<1>7. SweepOK(g, m, C \cup {c}, phase, sweep) /\ LiveOK(g, users, phase, sweep)
  BY <1>3, <1>6 DEF HeapOK, SweepOK, LiveOK
<1>8. QED
  BY <1>2, <1>4, <1>6, <1>7 DEF HeapOK, g

-----------------------------------------------------------------------------
(* Merging                                                                 *)

\* After a block there is a block or the end of a chunk.
LEMMA AfterBlock ==
  ASSUME NEW h, NEW C, Tiling(h, C), NEW b \in DOMAIN h
  PROVE  EndIn(h, b) \in DOMAIN h \cup {Limit(c) : c \in C}
  BY DEF Tiling

\* Two neighbours that nobody uses are joined.
LEMMA JoinOK ==
  ASSUME NEW h, NEW C, Tiling(h, C), NEW b \in DOMAIN h, NEW d \in DOMAIN h, d = EndIn(h, b),
         NEW users, NEW phase, NEW hp, LiveOK(h, users, phase, hp),
         b \notin DOMAIN users, d \notin DOMAIN users
  PROVE  /\ Tiling(Join(h, b, d), C)
         /\ BlueIn(Join(h, b, d)) = BlueIn(h) \ {d}
         /\ LiveOK(Join(h, b, d), users, phase, hp)
         /\ b \in DOMAIN Join(h, b, d)
         /\ Join(h, b, d)[b].color = h[b].color
         /\ EndIn(Join(h, b, d), b) = EndIn(h, d)
<1> DEFINE g == Join(h, b, d)
<1>1. /\ g \in [DOMAIN h \ {d} -> HeaderType] /\ b # d
      /\ EndIn(g, b) = EndIn(h, d) /\ g[b].color = h[b].color
      /\ \A x \in DOMAIN h \ {b, d} : g[x] = h[x]
  BY JoinFacts
<1>2. Tiling(g, C)
  BY JoinTiling
<1> HIDE DEF g
<1>3. DOMAIN g = DOMAIN h \ {d}
  BY <1>1
<1>4. BlueIn(g) = BlueIn(h) \ {d}
  BY <1>1, <1>3 DEF BlueIn
<1>5. LiveOK(g, users, phase, hp)
  BY <1>1, <1>3 DEF LiveOK
<1>6. QED
  BY <1>1, <1>2, <1>3, <1>4, <1>5 DEF g

\* While the sweep has not reached the end of its chunk it stands at a block.
LEMMA SweepAtBlock ==
  ASSUME HeapInv, Sweeping
  PROVE  gc_sweep_hp \in DOMAIN hd
<1> SUFFICES ASSUME NEW d \in heap, gc_sweep_hp = Limit(d) PROVE FALSE
  BY DEF HeapInv, HeapOK, SweepOK, Sweeping
<1>1. d \in DOMAIN Chunk_size /\ heap \subseteq DOMAIN Chunk_size
  BY DEF HeapInv, HeapOK, Tiling
<1>2. d <= gc_sweep_hp /\ gc_sweep_hp <= Limit(d) /\ gc_sweep_hp \in Int
  BY <1>1, ChunkTypes
<1>3. chunk \in heap /\ chunk <= gc_sweep_hp /\ gc_sweep_hp <= Limit(chunk)
  BY <1>2 DEF chunk
<1>4. chunk = d
  BY <1>1, <1>2, <1>3, OneChunk
<1>5. QED
  BY <1>2, <1>4 DEF Sweeping

\* What fl_merge_block computes for the block at the sweep pointer: whether the last
\* fragment is in front of it, where the merged block begins, the headers after it has
\* joined the fragment (1) and the next free block (2), the list and the free blocks
\* without that one, and which of the three outcomes follows.
HasFragment == fl.last_fragment # NULL /\ fl.last_fragment + 1 = gc_sweep_hp
MergedAt    == IF HasFragment THEN fl.last_fragment ELSE gc_sweep_hp
Headers1    == IF HasFragment THEN Join(hd, MergedAt, gc_sweep_hp) ELSE hd
NextFree    == fl.next[fl.merge]
MeetsNext   == Meets(Headers1, MergedAt, NextFree)
Headers2    == IF MeetsNext THEN Join(Headers1, MergedAt, NextFree) ELSE Headers1
RestOfList  == IF MeetsNext THEN Unlink(fl.next, fl.merge) ELSE fl.next
JoinsPrev   == fl.merge # Fl_head /\ EndIn(Headers2, fl.merge) = MergedAt
StaysFree   == ~JoinsPrev /\ Headers2[MergedAt].wosize # 0
IsFragment  == ~JoinsPrev /\ ~StaysFree
BlueLeft    == IF MeetsNext THEN BlueIn(hd) \ {NextFree} ELSE BlueIn(hd)
BlueAfter   == IF StaysFree THEN BlueLeft \cup {MergedAt} ELSE BlueLeft

\* Freeing a block joins it with the fragment in front of it and the free block behind it.
LEMMA MergeFacts ==
  ASSUME HeapInv, SweepWhite
  PROVE  /\ gc_sweep_hp \in DOMAIN hd /\ hd[gc_sweep_hp].color = "white"
         /\ HasFragment => /\ fl.last_fragment \in DOMAIN hd
                           /\ hd[fl.last_fragment] = Header(0, "white")
         /\ fl.last_fragment # NULL => fl.last_fragment < gc_sweep_hp
         /\ fl.last_fragment \in Int /\ MergedAt \in Int /\ gc_sweep_hp \in Int
         /\ fl.merge \in BlueIn(hd) \cup {Fl_head} /\ NextFree \in BlueIn(hd) \cup {NULL}
         /\ IsList(fl.next, BlueIn(hd)) /\ Fl_head \notin BlueIn(hd) /\ NULL \notin BlueIn(hd)
         /\ Tiling(Headers1, heap) /\ BlueIn(Headers1) = BlueIn(hd) /\ MergedAt \in DOMAIN Headers1
         /\ EndIn(Headers1, MergedAt) = EndIn(hd, gc_sweep_hp)
         /\ Tiling(Headers2, heap) /\ BlueIn(Headers2) = BlueLeft
         /\ LiveOK(Headers2, live, "sweep", gc_sweep_hp)
         /\ MergedAt \in DOMAIN Headers2 /\ Headers2[MergedAt].color = "white"
         /\ EndIn(Headers2, MergedAt) >= EndIn(hd, gc_sweep_hp) /\ EndIn(Headers2, MergedAt) \in Int
         /\ IsList(RestOfList, BlueLeft) /\ fl.merge \in BlueLeft \cup {Fl_head}
         /\ MeetsNext => NextFree # fl.merge
         /\ MergedAt \notin DOMAIN live /\ MergedAt \notin BlueLeft \cup {Fl_head, NULL}
         /\ hd' = IF JoinsPrev THEN Join(Headers2, fl.merge, MergedAt)
                  ELSE [Headers2 EXCEPT ![MergedAt].color = IF StaysFree THEN "blue" ELSE "white"]
         /\ gc_sweep_hp' = EndIn(Headers2, MergedAt)
         /\ fl' = [fl EXCEPT
                     !.next = IF StaysFree THEN Link(RestOfList, fl.merge, MergedAt) ELSE RestOfList,
                     !.prev = IF MeetsNext /\ @ = NextFree THEN fl.merge ELSE @,
                     !.merge = IF StaysFree THEN MergedAt ELSE @,
                     !.cur_size = @ + Whsize(gc_sweep_hp) + (IF HasFragment THEN 1 ELSE 0)
                                    - (IF IsFragment THEN 1 ELSE 0),
                     !.last_fragment = IF IsFragment THEN MergedAt ELSE @]
<1> DEFINE b == gc_sweep_hp
           B == BlueIn(hd)
           Mine(h) == LiveOK(h, live, "sweep", b)
<1> USE DEF HasFragment, MergedAt, Headers1, NextFree, MeetsNext, Headers2, RestOfList,
            JoinsPrev, StaysFree, IsFragment, BlueLeft
<1>1. /\ Tiling(hd, heap) /\ FlType(fl, B) /\ Mine(hd)
      /\ gc_phase = "sweep" /\ gc_phase' = gc_phase /\ heap' = heap /\ live' = live
      /\ live = [x \in DOMAIN live |-> live[x]]
  BY DEF HeapInv, HeapOK, SweepWhite, Sweeping
<1>2. b \in DOMAIN hd /\ hd[b].color = "white" /\ b \notin DOMAIN live
  <2>1. b \in DOMAIN hd /\ b \in Nat
    BY <1>1, SweepAtBlock, TilingTypes DEF SweepWhite
  <2>2. QED
    BY <1>1, <2>1 DEF SweepWhite, LiveOK
<1>3. /\ fl.last_fragment # NULL => fl.last_fragment < b
      /\ HasFragment => fl.last_fragment \in DOMAIN hd /\ hd[fl.last_fragment] = Header(0, "white")
      /\ fl.last_fragment \in Int
  BY <1>1 DEF HeapInv, HeapOK, SweepOK, FlType, FlSet
<1>4. /\ Tiling(Headers1, heap) /\ BlueIn(Headers1) = B /\ Mine(Headers1)
      /\ MergedAt \in DOMAIN Headers1 /\ Headers1[MergedAt].color = "white" /\ MergedAt \notin DOMAIN live
      /\ EndIn(Headers1, MergedAt) = EndIn(hd, b)
  <2>1. CASE HasFragment
    <3>1. MergedAt \in DOMAIN hd /\ hd[MergedAt].color = "white" /\ hd[MergedAt].wosize = 0 /\ EndIn(hd, MergedAt) = b
      BY <1>3, <2>1 DEF Header, EndIn
    <3>2. MergedAt \notin DOMAIN live
      BY <1>1, <3>1 DEF LiveOK
    <3>3. Headers1 = Join(hd, MergedAt, b)
      BY <2>1
    <3>4. b \notin B
      BY <1>2 DEF BlueIn
    <3> HIDE DEF MergedAt, Headers1, HasFragment
    <3>5. QED
      BY <1>1, <1>2, <3>1, <3>2, <3>3, <3>4, JoinOK
  <2>2. CASE ~HasFragment
    BY <1>1, <1>2, <2>2
  <2>3. QED
    BY <2>1, <2>2
<1>5. /\ MergedAt \in Int /\ b \in Int
      /\ MergedAt = IF HasFragment THEN fl.last_fragment ELSE b
  BY <1>2, <1>3, <1>1, TilingTypes
<1>6. /\ fl.merge \in B \cup {Fl_head} /\ NextFree \in B \cup {NULL}
      /\ IsList(fl.next, B) /\ Fl_head \notin B /\ NULL \notin B
  BY <1>1, HeadIsNoBlock DEF FlType, FlSet, BlueIn
<1> HIDE DEF Headers1, MergedAt
<1>7. /\ Tiling(Headers2, heap) /\ BlueIn(Headers2) = BlueLeft /\ Mine(Headers2)
      /\ MergedAt \in DOMAIN Headers2 /\ Headers2[MergedAt].color = "white"
      /\ EndIn(Headers2, MergedAt) >= EndIn(hd, b) /\ EndIn(Headers2, MergedAt) \in Int
      /\ IsList(RestOfList, BlueLeft) /\ fl.merge \in BlueLeft \cup {Fl_head}
      /\ MeetsNext => NextFree # fl.merge
  <2>1. CASE MeetsNext
    <3>1. NextFree \in B /\ NextFree # fl.merge /\ IsList(Unlink(fl.next, fl.merge), B \ {NextFree})
      BY <1>6, <2>1, UnlinkIsList DEF Meets
    <3>2. NextFree \in DOMAIN Headers1 /\ NextFree = EndIn(Headers1, MergedAt) /\ Headers1[NextFree].color = "blue"
      BY <1>4, <2>1, <3>1 DEF Meets, BlueIn
    <3>3. NextFree \notin DOMAIN live
      BY <1>4, <3>2 DEF LiveOK
    <3>4. Headers2 = Join(Headers1, MergedAt, NextFree) /\ RestOfList = Unlink(fl.next, fl.merge) /\ BlueLeft = B \ {NextFree}
      BY <2>1
    <3> HIDE DEF NextFree, MeetsNext, Headers2, RestOfList, BlueLeft, B
    <3>5. /\ Tiling(Headers2, heap) /\ BlueIn(Headers2) = BlueLeft /\ Mine(Headers2)
          /\ MergedAt \in DOMAIN Headers2 /\ Headers2[MergedAt].color = "white" /\ EndIn(Headers2, MergedAt) = EndIn(Headers1, NextFree)
      BY <1>4, <3>2, <3>3, <3>4, JoinOK
    <3>6. EndIn(Headers1, NextFree) \in Int /\ NextFree \in Int /\ EndIn(Headers1, NextFree) >= NextFree
      BY <1>4, <3>2, TilingTypes
    <3>7. QED
      BY <1>4, <1>6, <3>1, <3>2, <3>4, <3>5, <3>6
  <2>2. CASE ~MeetsNext
    BY <1>4, <1>6, <2>2, TilingTypes
  <2>3. QED
    BY <2>1, <2>2
<1> HIDE DEF Headers2, RestOfList, BlueLeft, MeetsNext, JoinsPrev, StaysFree, IsFragment, HasFragment
<1>8. /\ hd' = IF JoinsPrev THEN Join(Headers2, fl.merge, MergedAt)
               ELSE [Headers2 EXCEPT ![MergedAt].color = IF StaysFree THEN "blue" ELSE "white"]
      /\ gc_sweep_hp' = EndIn(Headers2, MergedAt)
  BY DEF SweepWhite, fl_merge_block, Headers1, Headers2, MergedAt, HasFragment, MeetsNext, JoinsPrev, StaysFree
<1>9. fl' = [fl EXCEPT
               !.next = IF StaysFree THEN Link(RestOfList, fl.merge, MergedAt) ELSE RestOfList,
               !.prev = IF MeetsNext /\ @ = NextFree THEN fl.merge ELSE @,
               !.merge = IF StaysFree THEN MergedAt ELSE @,
               !.cur_size = @ + Whsize(b) + (IF HasFragment THEN 1 ELSE 0) - (IF IsFragment THEN 1 ELSE 0),
               !.last_fragment = IF IsFragment THEN MergedAt ELSE @]
  BY DEF SweepWhite, fl_merge_block, Headers1, Headers2, MergedAt, HasFragment, MeetsNext, JoinsPrev, StaysFree, IsFragment, RestOfList
<1>10. MergedAt \notin DOMAIN live /\ MergedAt \notin BlueLeft \cup {Fl_head, NULL}
  <2>1. MergedAt \in DOMAIN Headers2 /\ MergedAt \notin BlueIn(Headers2)
    BY <1>7 DEF BlueIn
  <2>2. QED
    BY <2>1, <1>4, <1>7, HeadIsNoBlock
<1>11. QED
  BY <1>1, <1>2, <1>3, <1>4, <1>5, <1>6, <1>7, <1>8, <1>9, <1>10

\* What becomes of it: it joins the free block in front of it, or is one, or a fragment.
LEMMA MergedHeaders ==
  ASSUME HeapInv, SweepWhite
  PROVE  /\ Tiling(hd', heap) /\ BlueIn(hd') = BlueAfter
         /\ LiveOK(hd', live, "sweep", gc_sweep_hp)
         /\ gc_sweep_hp' \in DOMAIN hd' \cup {Limit(c) : c \in heap}
         /\ IsFragment => MergedAt \in DOMAIN hd' /\ hd'[MergedAt] = Header(0, "white")
         /\ JoinsPrev => /\ fl.merge \in BlueLeft
                         /\ EndIn(hd', fl.merge) = gc_sweep_hp'
                         /\ hd'[fl.merge].wosize =
                              Headers2[fl.merge].wosize + Headers2[MergedAt].wosize + 1
         /\ ~JoinsPrev => EndIn(hd', MergedAt) = gc_sweep_hp' /\ hd'[MergedAt].wosize = Headers2[MergedAt].wosize
         /\ \A x \in BlueLeft : (JoinsPrev => x # fl.merge) => hd'[x] = Headers2[x]
<1> DEFINE Mine(h) == LiveOK(h, live, "sweep", gc_sweep_hp)
<1>7. /\ Tiling(Headers2, heap) /\ BlueIn(Headers2) = BlueLeft /\ Mine(Headers2)
      /\ MergedAt \in DOMAIN Headers2 /\ Headers2[MergedAt].color = "white"
      /\ fl.merge \in BlueLeft \cup {Fl_head}
  BY MergeFacts
<1>8. /\ hd' = IF JoinsPrev THEN Join(Headers2, fl.merge, MergedAt)
               ELSE [Headers2 EXCEPT ![MergedAt].color = IF StaysFree THEN "blue" ELSE "white"]
      /\ gc_sweep_hp' = EndIn(Headers2, MergedAt)
  BY MergeFacts
<1>10. MergedAt \notin DOMAIN live /\ MergedAt \notin BlueLeft \cup {Fl_head, NULL}
  BY MergeFacts
<1>9. BlueAfter = IF StaysFree THEN BlueLeft \cup {MergedAt} ELSE BlueLeft
  BY DEF BlueAfter
<1>12. \A x \in BlueLeft : x \in DOMAIN Headers2 /\ x # MergedAt
  BY <1>7, <1>10 DEF BlueIn
<1>1. CASE JoinsPrev
  <2>1. fl.merge \in BlueIn(Headers2) /\ EndIn(Headers2, fl.merge) = MergedAt /\ ~StaysFree /\ ~IsFragment
    BY <1>1, <1>7 DEF JoinsPrev, StaysFree, IsFragment
  <2>2. fl.merge \in DOMAIN Headers2 /\ fl.merge \notin DOMAIN live
    BY <2>1, <1>7 DEF BlueIn, LiveOK
  <2>3. hd' = Join(Headers2, fl.merge, MergedAt) /\ BlueAfter = BlueLeft
    BY <1>1, <2>1, <1>8, <1>9
  <2>4. /\ Tiling(hd', heap) /\ BlueIn(hd') = BlueLeft \ {MergedAt} /\ Mine(hd')
        /\ fl.merge \in DOMAIN hd' /\ EndIn(hd', fl.merge) = gc_sweep_hp'
        /\ hd'[fl.merge].wosize = Headers2[fl.merge].wosize + Headers2[MergedAt].wosize + 1
        /\ \A x \in DOMAIN Headers2 \ {fl.merge, MergedAt} : hd'[x] = Headers2[x]
    <3> DEFINE g == Join(Headers2, fl.merge, MergedAt)
    <3>1. /\ Tiling(g, heap) /\ BlueIn(g) = BlueIn(Headers2) \ {MergedAt} /\ Mine(g)
          /\ fl.merge \in DOMAIN g /\ EndIn(g, fl.merge) = EndIn(Headers2, MergedAt)
      BY <1>7, <1>10, <2>1, <2>2, JoinOK
    <3>2. /\ g[fl.merge].wosize = Headers2[fl.merge].wosize + Headers2[MergedAt].wosize + 1
          /\ \A x \in DOMAIN Headers2 \ {fl.merge, MergedAt} : g[x] = Headers2[x]
      <4>1. /\ Tiling(Headers2, heap) /\ fl.merge \in DOMAIN Headers2
            /\ MergedAt \in DOMAIN Headers2 /\ MergedAt = EndIn(Headers2, fl.merge)
        BY <1>7, <2>1, <2>2
      <4>2. PICK m : m = fl.merge
        OBVIOUS
      <4>3. /\ g \in [DOMAIN Headers2 \ {MergedAt} -> HeaderType]
            /\ m # MergedAt
            /\ EndIn(g, m) = EndIn(Headers2, MergedAt)
            /\ g[m].wosize = Headers2[m].wosize + Headers2[MergedAt].wosize + 1
            /\ g[m].wosize # 0
            /\ g[m].color = Headers2[m].color
            /\ \A x \in DOMAIN Headers2 \ {m, MergedAt} : g[x] = Headers2[x]
        BY <4>1, <4>2, JoinFacts
      <4>4. QED
        BY <4>2, <4>3
    <3> HIDE DEF g
    <3>3. hd' = g
      BY <2>3 DEF g
    <3>4. QED
      BY <3>1, <3>2, <3>3, <1>7, <1>8
  <2>5. gc_sweep_hp' \in DOMAIN hd' \cup {Limit(c) : c \in heap}
    BY <2>4, AfterBlock
  <2>6. fl.merge \in BlueLeft /\ BlueIn(hd') = BlueAfter
    BY <1>7, <1>10, <2>1, <2>3, <2>4
  <2>7. \A x \in BlueLeft : (JoinsPrev => x # fl.merge) => hd'[x] = Headers2[x]
    BY <1>1, <1>12, <2>4
  <2>8. QED
    BY <1>1, <2>1, <2>4, <2>5, <2>6, <2>7
<1>2. CASE ~JoinsPrev
  <2> DEFINE color == IF StaysFree THEN "blue" ELSE "white"
  <2>1. Headers2 \in [DOMAIN Headers2 -> HeaderType] /\ color \in {"white", "black", "blue"}
    BY <1>7 DEF Tiling
  <2>2. hd' = [Headers2 EXCEPT ![MergedAt].color = color]
    BY <1>2, <1>8
  <2> HIDE DEF color
  <2>3. /\ hd' \in [DOMAIN Headers2 -> HeaderType]
        /\ hd'[MergedAt].color = color /\ hd'[MergedAt].wosize = Headers2[MergedAt].wosize
        /\ \A x \in DOMAIN Headers2 \ {MergedAt} : hd'[x] = Headers2[x]
    BY <2>1, <2>2, <1>7 DEF HeaderType
  <2>4. Tiling(hd', heap)
    BY <2>3, <1>7, RecolorTiling
  <2>5. BlueIn(hd') = BlueAfter
    BY <2>3, <1>7, <1>9 DEF BlueIn, color
  <2>6. Mine(hd')
    BY <2>3, <1>7, <1>10 DEF LiveOK
  <2>7. EndIn(hd', MergedAt) = gc_sweep_hp' /\ MergedAt \in DOMAIN hd'
    BY <2>3, <1>7, <1>8 DEF EndIn
  <2>8. IsFragment => hd'[MergedAt] = Header(0, "white")
    <3>1. hd'[MergedAt] \in HeaderType
      BY <2>3, <1>7
    <3>2. IsFragment => hd'[MergedAt].wosize = 0 /\ hd'[MergedAt].color = "white"
      BY <2>3 DEF IsFragment, StaysFree, color
    <3>3. QED
      BY <3>1, <3>2 DEF HeaderType, Header
  <2>9. gc_sweep_hp' \in DOMAIN hd' \cup {Limit(c) : c \in heap}
    BY <2>4, <2>7, AfterBlock
  <2>10. \A x \in BlueLeft : hd'[x] = Headers2[x]
    BY <1>12, <2>3
  <2>11. QED
    BY <1>2, <2>3, <2>4, <2>5, <2>6, <2>7, <2>8, <2>9, <2>10
<1>3. QED
  BY <1>1, <1>2

\* Freeing a block keeps the invariant.
LEMMA SweepWhiteKeeps ==
  ASSUME HeapInv, SweepWhite
  PROVE  HeapInv'
<1> DEFINE b == gc_sweep_hp
           B == BlueIn(hd)
<1>1. /\ Tiling(hd, heap) /\ FlType(fl, B)
      /\ gc_phase = "sweep" /\ gc_phase' = gc_phase /\ heap' = heap /\ live' = live
      /\ live = [x \in DOMAIN live |-> live[x]]
  BY DEF HeapInv, HeapOK, SweepWhite, Sweeping
<1>2. /\ b \in DOMAIN hd /\ MergedAt \in Int /\ b \in Int
      /\ MergedAt = IF HasFragment THEN fl.last_fragment ELSE b
  BY MergeFacts DEF MergedAt
<1>3. /\ fl.last_fragment # NULL => fl.last_fragment < b
      /\ HasFragment => fl.last_fragment \in DOMAIN hd /\ hd[fl.last_fragment] = Header(0, "white")
      /\ fl.last_fragment \in Int
  BY MergeFacts
<1>6. /\ fl.merge \in B \cup {Fl_head} /\ NextFree \in B \cup {NULL}
      /\ Fl_head \notin B /\ NULL \notin B
  BY MergeFacts
<1>7. /\ EndIn(Headers2, MergedAt) >= EndIn(hd, b) /\ EndIn(Headers2, MergedAt) \in Int
      /\ IsList(RestOfList, BlueLeft) /\ fl.merge \in BlueLeft \cup {Fl_head}
      /\ MeetsNext => NextFree # fl.merge
  BY MergeFacts
<1>8. gc_sweep_hp' = EndIn(Headers2, MergedAt)
  BY MergeFacts
<1>9. fl' = [fl EXCEPT
               !.next = IF StaysFree THEN Link(RestOfList, fl.merge, MergedAt) ELSE RestOfList,
               !.prev = IF MeetsNext /\ @ = NextFree THEN fl.merge ELSE @,
               !.merge = IF StaysFree THEN MergedAt ELSE @,
               !.cur_size = @ + Whsize(b) + (IF HasFragment THEN 1 ELSE 0) - (IF IsFragment THEN 1 ELSE 0),
               !.last_fragment = IF IsFragment THEN MergedAt ELSE @]
  BY MergeFacts
<1>10. MergedAt \notin BlueLeft \cup {Fl_head, NULL}
  BY MergeFacts
<1>11. /\ Tiling(hd', heap) /\ BlueIn(hd') = BlueAfter /\ LiveOK(hd', live, "sweep", b)
       /\ gc_sweep_hp' \in DOMAIN hd' \cup {Limit(c) : c \in heap}
       /\ IsFragment => MergedAt \in DOMAIN hd' /\ hd'[MergedAt] = Header(0, "white")
  BY MergedHeaders
<1>12. /\ FlType(fl', BlueAfter)
       /\ fl'.last_fragment = IF IsFragment THEN MergedAt ELSE fl.last_fragment
  <2> DEFINE P    == B \cup {Fl_head}
             L    == [P -> B \cup {NULL}]
             Q    == BlueAfter \cup {Fl_head}
             M    == [Q -> BlueAfter \cup {NULL}]
             next == IF StaysFree THEN Link(RestOfList, fl.merge, MergedAt) ELSE RestOfList
             pr   == IF MeetsNext /\ fl.prev = NextFree THEN fl.merge ELSE fl.prev
             mg   == IF StaysFree THEN MergedAt ELSE fl.merge
             size == fl.cur_size + Whsize(b) + (IF HasFragment THEN 1 ELSE 0) - (IF IsFragment THEN 1 ELSE 0)
             last == IF IsFragment THEN MergedAt ELSE fl.last_fragment
  <2>1. fl \in FlSet(L, P)
    BY <1>1 DEF FlType
  <2>2. IsList(next, BlueAfter)
    <3>1. Fl_head \notin BlueLeft /\ NULL \notin BlueLeft
      BY <1>6 DEF BlueLeft
    <3>2. QED
      BY <3>1, <1>7, <1>10, LinkIsList DEF BlueAfter
  <2>3. next \in M
    BY <2>2 DEF IsList
  <2>4. pr \in Q
    BY <2>1, <1>6, <1>7 DEF FlSet, BlueLeft, BlueAfter
  <2>5. mg \in Q
    BY <1>7 DEF BlueAfter
  <2>6. size \in Int
    BY <2>1, <1>1, <1>2, TilingTypes DEF Whsize, FlSet
  <2>7. last \in Int
    BY <1>2, <1>3
  <2>8. fl' = [fl EXCEPT !.next = next, !.prev = pr, !.merge = mg, !.cur_size = size, !.last_fragment = last]
    BY <1>9, <2>1 DEF FlSet
  <2> HIDE DEF L, P, Q, M, next, pr, mg, size, last
  <2>9. fl' \in FlSet(M, Q) /\ fl'.next = next /\ fl'.last_fragment = last
    BY <2>1, <2>3, <2>4, <2>5, <2>6, <2>7, <2>8 DEF FlSet
  <2>10. QED
    BY <2>2, <2>9 DEF FlType, M, Q, last
<1>13. gc_sweep_hp' \in Int /\ b < gc_sweep_hp'
  BY <1>1, <1>2, <1>7, <1>8, TilingTypes
<1>14. SweepOK(hd', fl', heap, "sweep", gc_sweep_hp')
  <2>1. CASE IsFragment
    <3>1. MergedAt < gc_sweep_hp'
      BY <1>2, <1>3, <1>13 DEF HasFragment
    <3>2. QED
      BY <2>1, <3>1, <1>11, <1>12, <1>13 DEF SweepOK
  <2>2. CASE ~IsFragment
    <3>1. fl.last_fragment # NULL => fl.last_fragment + 1 < gc_sweep_hp'
      BY <1>2, <1>3, <1>13
    <3>2. QED
      BY <2>2, <3>1, <1>3, <1>11, <1>12, <1>13 DEF SweepOK
  <2>3. QED
    BY <2>1, <2>2
<1>15. LiveOK(hd', live, "sweep", gc_sweep_hp')
  <2>1. \A x \in DOMAIN live : x \in Nat
    BY <1>11 DEF LiveOK, Tiling
  <2>2. QED
    BY <2>1, <1>2, <1>11, <1>13 DEF LiveOK
<1>16. QED
  BY <1>1, <1>11, <1>12, <1>14, <1>15 DEF HeapInv, HeapOK

-----------------------------------------------------------------------------
(* The steps                                                               *)

\* What an allocation adds to the blocks in use.
Adds(wo) == \E hp : hp \notin DOMAIN live /\ live' = With(live, hp, wo)

\* Taking all or the end of a free block keeps the heap in order and adds one block in use.
LEMMA AllocateBlockKeeps ==
  ASSUME NEW STATE h, NEW STATE l, NEW STATE C,
         HeapOK(h, l, C, live, gc_phase, gc_sweep_hp),
         NEW wo \in 1 .. MaxRequest, NEW STATE prev, prev \in fl_allocate(l, h, wo),
         allocate_block(l, h, prev, wo)
  PROVE  HeapOK(hd', fl', C, live', gc_phase, gc_sweep_hp) /\ Adds(wo)
<1> DEFINE cur   == l.next[prev]
           hp    == Place_in(h, cur, wo)
           color == allocation_color(hp)
<1>1. wo \in Nat /\ wo > 0
  BY RequestAssumption
<1>2. /\ hd' = Cut(h, cur, wo, color) /\ fl' = Taken_from(l, h, prev, wo)
      /\ live' = With(live, hp, wo)
  BY DEF allocate_block, Cut, Taken_from, Shrunk, Rest, Place_in
<1>3. cur \in DOMAIN h
  <2>1. Tiling(h, C) /\ FlType(l, BlueIn(h))
    BY DEF HeapOK
  <2>2. prev \in DOMAIN l.next /\ cur # NULL
    BY FoundFits
  <2>3. QED
    BY <2>1, <2>2 DEF FlType, IsList, BlueIn
<1>4. hp \in Int /\ gc_sweep_hp \in Int
  BY <1>1, <1>3, TilingTypes DEF HeapOK, SweepOK, Place_in
<1>5. color \in {"white", "black"} /\ (gc_phase = "sweep" /\ color = "white" => hp < gc_sweep_hp)
  BY <1>4 DEF allocation_color
<1> HIDE DEF color
<1>6. /\ HeapOK(Cut(h, cur, wo, color), Taken_from(l, h, prev, wo), C, With(live, hp, wo),
                gc_phase, gc_sweep_hp)
      /\ hp \notin DOMAIN live
  BY <1>1, <1>5, AllocateOK
<1>7. QED
  BY <1>2, <1>6 DEF Adds

\* alloc_shr keeps the invariant, from the list as it is or after growing.
LEMMA AllocKeeps ==
  ASSUME HeapInv, NEW wo \in 1 .. MaxRequest, alloc_shr(wo)
  PROVE  HeapInv' /\ Adds(wo)
<1>1. gc_phase' = gc_phase /\ gc_sweep_hp' = gc_sweep_hp
  BY DEF alloc_shr
<1>2. CASE /\ \E prev \in fl_allocate(fl, hd, wo) : allocate_block(fl, hd, prev, wo)
           /\ heap' = heap
  <2>1. PICK prev \in fl_allocate(fl, hd, wo) : allocate_block(fl, hd, prev, wo)
    BY <1>2
  <2>2. HeapOK(hd', fl', heap, live', gc_phase, gc_sweep_hp) /\ Adds(wo)
    BY <2>1, AllocateBlockKeeps DEF HeapInv
  <2>3. QED
    BY <1>1, <1>2, <2>2 DEF HeapInv
<1>3. ASSUME NEW c \in expand_heap(wo), NEW p \in Place(c),
             NEW prev \in fl_allocate(fl_add_block(c, p), With(hd, c, Header(Chunk_size[c] - 1, "blue")), wo),
             allocate_block(fl_add_block(c, p), With(hd, c, Header(Chunk_size[c] - 1, "blue")), prev, wo),
             heap' = heap \cup {c}
      PROVE  HeapInv' /\ Adds(wo)
  <2> DEFINE l == fl_add_block(c, p)
             h == With(hd, c, Header(Chunk_size[c] - 1, "blue"))
             C == heap \cup {c}
  <2>1. HeapOK(h, l, C, live, gc_phase, gc_sweep_hp)
    <3> DEFINE merge == IF c < fl_last /\ p = fl.merge /\ c < gc_sweep_hp THEN c ELSE fl.merge
    <3>1. c \in DOMAIN Chunk_size \ heap /\ p \in DOMAIN fl.next
      BY DEF expand_heap, Place
    <3>2. merge \in {fl.merge, c}
      OBVIOUS
    <3>3. l = [fl EXCEPT !.next = Link(@, p, c), !.cur_size = @ + Chunk_size[c], !.merge = merge]
      BY DEF fl_add_block
    <3> HIDE DEF merge, l
    <3>4. QED
      BY <3>1, <3>2, <3>3, AddBlockOK DEF HeapInv
  <2> HIDE DEF l, h, C
  <2>2. prev \in fl_allocate(l, h, wo) /\ allocate_block(l, h, prev, wo)
    BY <1>3 DEF l, h
  <2>3. HeapOK(hd', fl', C, live', gc_phase, gc_sweep_hp) /\ Adds(wo)
    BY <2>1, <2>2, AllocateBlockKeeps
  <2>4. QED
    BY <1>1, <1>3, <2>3 DEF HeapInv, C
<1>4. QED
  BY <1>2, <1>3 DEF alloc_shr

\* A step that leaves the free blocks alone.
SameFree == BlueIn(hd') = BlueIn(hd) /\ \A x \in BlueIn(hd) : hd'[x] = hd[x]

\* Shortening a block in use keeps the invariant: its rest is a block of its own.
LEMMA TruncateKeeps ==
  ASSUME HeapInv, NEW b \in DOMAIN live, NEW wo \in 1 .. MaxRequest, Truncate(b, wo)
  PROVE  HeapInv' /\ SameFree
<1> DEFINE rest == b + wo + 1
           k    == [hd EXCEPT ![b].wosize = wo]
<1>1. /\ Tiling(hd, heap) /\ FlType(fl, BlueIn(hd)) /\ gc_sweep_hp \in Int
      /\ LiveOK(hd, live, gc_phase, gc_sweep_hp)
      /\ SweepOK(hd, fl, heap, gc_phase, gc_sweep_hp)
  BY DEF HeapInv, HeapOK, SweepOK
<1>2. /\ b \in DOMAIN hd /\ hd[b].wosize = live[b] /\ hd[b].color # "blue"
      /\ wo \in Nat /\ live[b] \in Nat /\ live[b] - wo - 1 \in Nat /\ wo > 0
      /\ b \in Nat /\ hd[b] \in HeaderType
  <2>1. b \in DOMAIN hd /\ hd[b].wosize = live[b] /\ hd[b].color # "blue"
    BY <1>1 DEF LiveOK
  <2>2. b \in Nat /\ hd[b].wosize \in Nat /\ hd[b] \in HeaderType
    BY <2>1, <1>1, TilingTypes DEF Tiling
  <2>3. wo \in 1 .. live[b] - 1
    BY DEF Truncate
  <2>4. QED
    BY <2>1, <2>2, <2>3
<1>3. /\ hd' = With(k, rest, Header(live[b] - wo - 1, "white"))
      /\ live' = [live EXCEPT ![b] = wo]
      /\ fl' = fl /\ heap' = heap /\ gc_phase' = gc_phase /\ gc_sweep_hp' = gc_sweep_hp
  BY DEF Truncate
<1>4. /\ k \in [DOMAIN hd -> HeaderType]
      /\ k[b].wosize = wo /\ k[b].color = hd[b].color
      /\ \A x \in DOMAIN hd \ {b} : k[x] = hd[x]
  BY <1>1, <1>2 DEF Tiling, HeaderType
<1> HIDE DEF k
<1>5. Header(live[b] - wo - 1, "white") \in HeaderType
  BY <1>2 DEF Header, HeaderType
<1>6. /\ hd' \in [DOMAIN hd \cup {rest} -> HeaderType]
      /\ hd'[rest] = Header(live[b] - wo - 1, "white")
      /\ rest # b
      /\ hd'[b].wosize = wo /\ hd'[b].color = hd[b].color
      /\ \A x \in DOMAIN hd \ {b} : x # rest => hd'[x] = hd[x]
  BY <1>2, <1>3, <1>4, <1>5 DEF With
<1>7. rest \notin DOMAIN hd
  <2>1. EndIn(hd, b) \in Nat /\ b < rest /\ rest < EndIn(hd, b)
    BY <1>2 DEF EndIn
  <2>2. QED
    BY <2>1, <1>1, <1>2 DEF Tiling
<1>8. Tiling(hd', heap)
  <2> DEFINE m == live[b] - wo - 1
  <2>1. m \in Nat /\ wo + 1 + m = hd[b].wosize /\ hd'[b + wo + 1].wosize = m
    BY <1>2, <1>6 DEF Header
  <2>2. \A x \in DOMAIN hd \ {b} : hd'[x].wosize = hd[x].wosize
    BY <1>6, <1>7
  <2> HIDE DEF m
  <2>3. QED
    BY <2>1, <2>2, <1>1, <1>2, <1>6, SplitTiling
<1>9. BlueIn(hd') = BlueIn(hd)
  <2>1. hd'[rest].color = "white" /\ DOMAIN hd' = DOMAIN hd \cup {rest}
    BY <1>6 DEF Header
  <2>2. QED
    BY <2>1, <1>2, <1>6, <1>7 DEF BlueIn
<1>10. SweepOK(hd', fl, heap, gc_phase, gc_sweep_hp)
  <2>1. fl.last_fragment \in DOMAIN hd /\ hd[fl.last_fragment] = Header(0, "white") => fl.last_fragment # b
    BY <1>2 DEF Header
  <2>2. QED
    BY <2>1, <1>1, <1>6, <1>7 DEF SweepOK
<1>11. LiveOK(hd', live', gc_phase, gc_sweep_hp) /\ live' = [x \in DOMAIN live' |-> live'[x]]
  <2>1. live = [x \in DOMAIN live |-> live[x]]
    BY DEF HeapInv, HeapOK
  <2>2. DOMAIN live' = DOMAIN live /\ live'[b] = wo /\ \A x \in DOMAIN live \ {b} : live'[x] = live[x]
    BY <1>3, <2>1
  <2>3. live' = [x \in DOMAIN live' |-> live'[x]]
    BY <2>1, <1>3
  <2>4. LiveOK(hd', live', gc_phase, gc_sweep_hp)
    <3> SUFFICES ASSUME NEW x \in DOMAIN live
                 PROVE  /\ x \in DOMAIN hd' /\ hd'[x].wosize = live'[x] /\ live'[x] > 0
                        /\ hd'[x].color # "blue"
                        /\ gc_phase = "sweep" /\ hd'[x].color = "white" => x < gc_sweep_hp
      BY <2>2 DEF LiveOK
    <3>1. CASE x = b
      BY <3>1, <2>2, <1>1, <1>2, <1>6 DEF LiveOK
    <3>2. CASE x # b
      BY <3>2, <2>2, <1>1, <1>6, <1>7 DEF LiveOK
    <3>3. QED
      BY <3>1, <3>2
  <2>5. QED
    BY <2>3, <2>4
<1>12. SameFree
  BY <1>2, <1>6, <1>7, <1>9 DEF SameFree, BlueIn
<1>13. QED
  BY <1>1, <1>3, <1>8, <1>9, <1>10, <1>11, <1>12 DEF HeapInv, HeapOK

\* When marking ends the program loses blocks and resizes none.
LEMMA StartSweepKeeps ==
  ASSUME HeapInv, StartSweep
  PROVE  /\ HeapInv' /\ DOMAIN live' \subseteq DOMAIN live /\ live' = [b \in DOMAIN live' |-> live[b]]
         /\ SameFree
<1>1. /\ Tiling(hd, heap) /\ FlType(fl, BlueIn(hd)) /\ gc_sweep_hp \in Int
      /\ LiveOK(hd, live, gc_phase, gc_sweep_hp)
  BY DEF HeapInv, HeapOK, SweepOK
<1>2. /\ heap' = heap /\ fl' = [fl EXCEPT !.merge = Fl_head, !.last_fragment = NULL]
      /\ gc_sweep_hp' \in heap /\ gc_phase' = "sweep"
  BY DEF StartSweep, fl_init_merge
<1>3. DOMAIN live' \subseteq DOMAIN live /\ live' = [b \in DOMAIN live' |-> live[b]]
  BY DEF StartSweep, Without
<1>4. hd' = [b \in DOMAIN hd |-> IF b \in DOMAIN live' THEN [hd[b] EXCEPT !.color = "black"] ELSE hd[b]]
  BY DEF StartSweep
<1>5. /\ hd' \in [DOMAIN hd -> HeaderType]
      /\ \A b \in DOMAIN hd : hd'[b].wosize = hd[b].wosize
      /\ \A b \in DOMAIN live' : hd'[b].color = "black"
      /\ \A b \in DOMAIN hd \ DOMAIN live' : hd'[b] = hd[b]
  <2>1. hd \in [DOMAIN hd -> HeaderType] /\ DOMAIN live' \subseteq DOMAIN hd
    BY <1>1, <1>3 DEF Tiling, LiveOK
  <2>2. \A x \in HeaderType :
          /\ [x EXCEPT !.color = "black"] \in HeaderType
          /\ [x EXCEPT !.color = "black"].wosize = x.wosize
          /\ [x EXCEPT !.color = "black"].color = "black"
    BY DEF HeaderType
  <2>3. QED
    BY <1>4, <2>1, <2>2
<1>6. Tiling(hd', heap)
  BY <1>1, <1>5, RecolorTiling
<1>7. BlueIn(hd') = BlueIn(hd)
  <2>1. \A b \in DOMAIN live' : b \in DOMAIN hd /\ hd[b].color # "blue"
    BY <1>1, <1>3 DEF LiveOK
  <2>2. QED
    BY <1>5, <2>1 DEF BlueIn
<1>8. FlType(fl', BlueIn(hd')) /\ fl'.last_fragment = NULL
  <2> DEFINE P == BlueIn(hd) \cup {Fl_head}
             L == [P -> BlueIn(hd) \cup {NULL}]
  <2>1. fl \in FlSet(L, P) /\ Fl_head \in P /\ NULL \in Int
    BY <1>1 DEF FlType, NULL
  <2> HIDE DEF P, L
  <2>2. fl' \in FlSet(L, P) /\ fl'.next = fl.next /\ fl'.last_fragment = NULL
    BY <1>2, <2>1 DEF FlSet
  <2>3. QED
    BY <1>1, <1>7, <2>2 DEF FlType, P, L
<1>9. SweepOK(hd', fl', heap, "sweep", gc_sweep_hp')
  BY <1>1, <1>2, <1>5, <1>8, ChunkTypes DEF SweepOK, Tiling
<1>10. LiveOK(hd', live', "sweep", gc_sweep_hp')
  BY <1>1, <1>3, <1>5 DEF LiveOK
<1>11. SameFree
  BY <1>1, <1>3, <1>5, <1>7 DEF SameFree, BlueIn, LiveOK
<1>12. QED
  BY <1>2, <1>3, <1>6, <1>8, <1>9, <1>10, <1>11 DEF HeapInv, HeapOK

\* The sweep goes past a free block.
LEMMA SweepBlueKeeps ==
  ASSUME HeapInv, SweepBlue
  PROVE  HeapInv'
<1> DEFINE b == gc_sweep_hp
<1>1. /\ Tiling(hd, heap) /\ FlType(fl, BlueIn(hd))
      /\ LiveOK(hd, live, "sweep", b) /\ SweepOK(hd, fl, heap, "sweep", b)
      /\ gc_phase = "sweep"
      /\ live = [x \in DOMAIN live |-> live[x]]
  BY DEF HeapInv, HeapOK, SweepBlue, Sweeping
<1>2. b \in BlueIn(hd)
  BY SweepAtBlock DEF SweepBlue, BlueIn
<1>3. b \in Int /\ b < EndIn(hd, b) /\ EndIn(hd, b) \in Int
  BY <1>1, <1>2, TilingTypes DEF BlueIn
<1>4. /\ fl' = [fl EXCEPT !.merge = b] /\ gc_sweep_hp' = EndIn(hd, b)
      /\ hd' = hd /\ heap' = heap /\ gc_phase' = gc_phase /\ live' = live
  BY DEF SweepBlue, End
<1>5. FlType(fl', BlueIn(hd)) /\ fl'.last_fragment = fl.last_fragment /\ fl.last_fragment \in Int
  <2> DEFINE P == BlueIn(hd) \cup {Fl_head}
             L == [P -> BlueIn(hd) \cup {NULL}]
  <2>1. fl \in FlSet(L, P) /\ b \in P
    BY <1>1, <1>2 DEF FlType
  <2> HIDE DEF P, L, b
  <2>2. /\ fl' \in FlSet(L, P) /\ fl'.next = fl.next
        /\ fl'.last_fragment = fl.last_fragment /\ fl.last_fragment \in Int
    BY <1>4, <2>1 DEF FlSet
  <2>3. QED
    BY <1>1, <2>2 DEF FlType, P, L
<1>6. SweepOK(hd, fl', heap, "sweep", EndIn(hd, b))
  <2>1. EndIn(hd, b) \in DOMAIN hd \cup {Limit(c) : c \in heap}
    BY <1>1, <1>2, AfterBlock DEF BlueIn
  <2>2. QED
    BY <2>1, <1>1, <1>3, <1>5 DEF SweepOK
<1>7. LiveOK(hd, live, "sweep", EndIn(hd, b))
  <2>1. \A x \in DOMAIN live : x \in Int
    BY <1>1 DEF LiveOK, Tiling
  <2>2. QED
    BY <2>1, <1>1, <1>3 DEF LiveOK
<1>8. QED
  BY <1>1, <1>4, <1>5, <1>6, <1>7 DEF HeapInv, HeapOK

\* The sweep turns a block in use white behind itself.
LEMMA SweepBlackKeeps ==
  ASSUME HeapInv, SweepBlack
  PROVE  HeapInv' /\ SameFree
<1> DEFINE b == gc_sweep_hp
<1>1. /\ Tiling(hd, heap) /\ FlType(fl, BlueIn(hd))
      /\ LiveOK(hd, live, "sweep", b) /\ SweepOK(hd, fl, heap, "sweep", b)
      /\ gc_phase = "sweep"
      /\ live = [x \in DOMAIN live |-> live[x]]
  BY DEF HeapInv, HeapOK, SweepBlack, Sweeping
<1>2. b \in DOMAIN hd /\ hd[b].color = "black"
  BY SweepAtBlock DEF SweepBlack
<1>3. b \in Int /\ b < EndIn(hd, b) /\ EndIn(hd, b) \in Int
  BY <1>1, <1>2, TilingTypes
<1>4. /\ hd' = [hd EXCEPT ![b].color = "white"] /\ gc_sweep_hp' = EndIn(hd, b)
      /\ fl' = fl /\ heap' = heap /\ gc_phase' = gc_phase /\ live' = live
  BY DEF SweepBlack, End
<1>5. /\ hd' \in [DOMAIN hd -> HeaderType]
      /\ hd'[b].wosize = hd[b].wosize /\ hd'[b].color = "white"
      /\ \A x \in DOMAIN hd \ {b} : hd'[x] = hd[x]
  <2>1. hd \in [DOMAIN hd -> HeaderType]
    BY <1>1 DEF Tiling
  <2> HIDE DEF b
  <2>2. QED
    BY <1>2, <1>4, <2>1 DEF HeaderType
<1>6. Tiling(hd', heap) /\ BlueIn(hd') = BlueIn(hd)
  <2>1. Tiling(hd', heap)
    BY <1>1, <1>5, RecolorTiling
  <2>2. BlueIn(hd') = BlueIn(hd)
    BY <1>2, <1>5 DEF BlueIn
  <2>3. QED
    BY <2>1, <2>2
<1>7. SweepOK(hd', fl, heap, "sweep", EndIn(hd, b))
  <2>1. EndIn(hd, b) \in DOMAIN hd' \cup {Limit(c) : c \in heap}
    BY <1>1, <1>2, <1>5, AfterBlock
  <2>2. fl.last_fragment \in Int
    BY <1>1 DEF FlType, FlSet
  <2>3. QED
    BY <2>1, <2>2, <1>1, <1>3 DEF SweepOK
<1>8. LiveOK(hd', live, "sweep", EndIn(hd, b))
  <2>1. \A x \in DOMAIN live : x \in Int
    BY <1>1 DEF LiveOK, Tiling
  <2>2. QED
    BY <2>1, <1>1, <1>2, <1>3, <1>5 DEF LiveOK
<1>9. SameFree
  BY <1>2, <1>5, <1>6 DEF SameFree, BlueIn
<1>10. QED
  BY <1>1, <1>4, <1>6, <1>7, <1>8, <1>9 DEF HeapInv, HeapOK

\* The sweep goes on to the next chunk, or ends.
LEMMA NextChunkKeeps ==
  ASSUME HeapInv, NextChunk
  PROVE  HeapInv'
<1>1. /\ Tiling(hd, heap) /\ FlType(fl, BlueIn(hd))
      /\ LiveOK(hd, live, "sweep", gc_sweep_hp) /\ SweepOK(hd, fl, heap, "sweep", gc_sweep_hp)
      /\ live = [x \in DOMAIN live |-> live[x]]
  BY DEF HeapInv, HeapOK, NextChunk
<1>2. hd' = hd /\ fl' = fl /\ heap' = heap /\ live' = live
  BY DEF NextChunk
<1>3. CASE gc_phase' = "idle" /\ gc_sweep_hp' = gc_sweep_hp
  BY <1>1, <1>2, <1>3 DEF HeapInv, HeapOK, SweepOK, LiveOK
<1>4. CASE gc_phase' = gc_phase /\ gc_sweep_hp' \in heap /\ gc_sweep_hp' > gc_sweep_hp
  <2>1. gc_sweep_hp \in Int /\ gc_sweep_hp' \in DOMAIN hd /\ gc_sweep_hp' \in Int
    BY <1>1, <1>4, ChunkTypes DEF SweepOK, Tiling
  <2>2. fl.last_fragment \in Int
    BY <1>1 DEF FlType, FlSet
  <2>3. SweepOK(hd, fl, heap, "sweep", gc_sweep_hp')
    BY <2>1, <2>2, <1>1, <1>4 DEF SweepOK
  <2>4. \A x \in DOMAIN live : x \in Int
    BY <1>1 DEF LiveOK, Tiling
  <2>5. LiveOK(hd, live, "sweep", gc_sweep_hp')
    BY <2>1, <2>4, <1>1, <1>4 DEF LiveOK
  <2>6. gc_phase' = "sweep"
    BY <1>4 DEF NextChunk
  <2>7. QED
    BY <2>3, <2>5, <2>6, <1>1, <1>2 DEF HeapInv, HeapOK
<1>5. QED
  BY <1>3, <1>4 DEF NextChunk

\* One free block in one chunk satisfies the invariant.
LEMMA InitKeeps ==
  ASSUME Init
  PROVE  HeapInv
<1>1. PICK c \in Chunk_first :
        /\ heap = {c}
        /\ hd = [b \in {c} |-> Header(Chunk_size[c] - 1, "blue")]
        /\ fl = [next |-> [p \in {Fl_head, c} |-> IF p = c THEN NULL ELSE c],
                 prev |-> Fl_head, merge |-> c, cur_size |-> Chunk_size[c],
                 last_fragment |-> NULL]
        /\ gc_phase = "idle" /\ gc_sweep_hp = 0
        /\ live = [b \in {} |-> 0]
  BY DEF Init
<1>2. c \in DOMAIN Chunk_size /\ c \in Nat /\ c > 0 /\ Chunk_size[c] \in Nat /\ Limit(c) > c + 1
  BY ChunkAssumption, ChunkTypes
<1>3. Header(Chunk_size[c] - 1, "blue") \in HeaderType
  BY <1>2 DEF Header, HeaderType, Limit
<1>4. EndIn(hd, c) = Limit(c)
  BY <1>1, <1>2 DEF EndIn, Header, Limit
<1>5. Tiling(hd, heap)
  BY <1>1, <1>2, <1>3, <1>4 DEF Tiling
<1>6. BlueIn(hd) = {c}
  BY <1>1 DEF BlueIn, Header
<1> DEFINE next == [p \in {Fl_head, c} |-> IF p = c THEN NULL ELSE c]
           D    == {c} \cup {Fl_head}
<1>7. IsList(next, {c})
  <2> DEFINE rank == [p \in D |-> IF p = c THEN 1 ELSE 0]
  <2>1. c # Fl_head /\ c # NULL
    BY <1>2 DEF Fl_head, NULL
  <2>2. next \in [D -> {c} \cup {NULL}] /\ rank \in [D -> Nat]
    OBVIOUS
  <2>3. /\ D = {c, Fl_head} /\ rank[c] = 1 /\ rank[Fl_head] = 0
        /\ next[c] = NULL /\ next[Fl_head] = c
    BY <2>1
  <2> HIDE DEF rank, next, D
  <2>4. Ranks(rank, next, {c})
    BY <2>1, <2>2, <2>3 DEF Ranks, D
  <2>5. QED
    BY <2>2, <2>4 DEF IsList, D
<1>8. FlType(fl, {c})
  <2>1. next \in [D -> {c} \cup {NULL}]
    OBVIOUS
  <2>2. NULL \in Int /\ Chunk_size[c] \in Int /\ c \in D /\ Fl_head \in D
    BY <1>2 DEF NULL
  <2> HIDE DEF next, D
  <2>3. fl = [next |-> next, prev |-> Fl_head, merge |-> c, cur_size |-> Chunk_size[c],
              last_fragment |-> NULL]
    BY <1>1 DEF next
  <2>4. fl \in FlSet([D -> {c} \cup {NULL}], D) /\ fl.next = next
    BY <2>1, <2>2, <2>3 DEF FlSet
  <2>5. QED
    BY <2>4, <1>7 DEF FlType, D
<1>9. SweepOK(hd, fl, heap, gc_phase, gc_sweep_hp) /\ LiveOK(hd, live, gc_phase, gc_sweep_hp)
  BY <1>1 DEF SweepOK, LiveOK
<1>10. QED
  BY <1>1, <1>5, <1>6, <1>8, <1>9 DEF HeapInv, HeapOK

-----------------------------------------------------------------------------
(* The theorems                                                            *)

\* Every step keeps the heap well-formed.
LEMMA StepKeeps ==
  ASSUME HeapInv, [Next]_vars
  PROVE  HeapInv'
<1>1. CASE Next
  <2>1. ASSUME NEW wo \in 1 .. MaxRequest, alloc_shr(wo) PROVE HeapInv'
    BY <2>1, AllocKeeps
  <2>2. ASSUME NEW b \in DOMAIN live, NEW wo \in 1 .. MaxRequest, Truncate(b, wo) PROVE HeapInv'
    BY <2>2, TruncateKeeps
  <2>3. CASE start_cycle
    BY <2>3 DEF HeapInv, HeapOK, SweepOK, LiveOK, start_cycle
  <2>4. CASE StartSweep
    BY <2>4, StartSweepKeeps
  <2>5. CASE SweepWhite
    BY <2>5, SweepWhiteKeeps
  <2>6. CASE SweepBlue
    BY <2>6, SweepBlueKeeps
  <2>7. CASE SweepBlack
    BY <2>7, SweepBlackKeeps
  <2>8. CASE NextChunk
    BY <2>8, NextChunkKeeps
  <2>9. QED
    BY <1>1, <2>1, <2>2, <2>3, <2>4, <2>5, <2>6, <2>7, <2>8 DEF Next, Mutator, sweep_slice
<1>2. CASE UNCHANGED vars
  BY <1>2 DEF vars, HeapInv
<1>3. QED
  BY <1>1, <1>2

\* The heap is well-formed at all times, whatever the program and the
\* collector do (fl_allocate to sweep_slice).
THEOREM HeapInvariant == Spec => []HeapInv
<1>1. Init => HeapInv
  BY InitKeeps
<1>2. HeapInv /\ [Next]_vars => HeapInv'
  BY StepKeeps
<1>3. QED
  BY <1>1, <1>2, PTL DEF Spec

\* The blocks tile the chunks, so that the sweep and the rescan of mark_slice
\* can walk from header to header (major_gc.c:203, 256).
THEOREM HeapTiled == Spec => []Tiled
<1>1. HeapInv => Tiled
  <2> SUFFICES ASSUME HeapInv PROVE Tiled
    OBVIOUS
  <2>1. Tiling(hd, heap) /\ SweepOK(hd, fl, heap, gc_phase, gc_sweep_hp)
    BY DEF HeapInv, HeapOK
  <2>2. ASSUME NEW b \in DOMAIN hd
        PROVE  \E c \in heap :
                 /\ b \in InChunk(c)
                 /\ End(b) = Limit(c) \/ (End(b) < Limit(c) /\ End(b) \in DOMAIN hd)
                 /\ \A d \in DOMAIN hd : ~(b < d /\ d < End(b))
    <3>1. PICK c \in heap :
            c <= b /\ (EndIn(hd, b) = Limit(c) \/ (EndIn(hd, b) < Limit(c) /\ EndIn(hd, b) \in DOMAIN hd))
      BY <2>1 DEF Tiling
    <3>2. /\ b \in Int /\ EndIn(hd, b) \in Int /\ b < EndIn(hd, b)
          /\ c \in Int /\ Limit(c) \in Int
      BY <2>1, TilingTypes, ChunkTypes DEF Tiling
    <3>3. b \in InChunk(c)
      BY <3>1, <3>2 DEF InChunk
    <3>4. \A d \in DOMAIN hd : d \in Int /\ (b < d => EndIn(hd, b) <= d)
      BY <2>1 DEF Tiling
    <3>5. QED
      BY <3>1, <3>2, <3>3, <3>4 DEF End
  <2>3. QED
    BY <2>1, <2>2 DEF Tiled, Tiling, SweepOK
<1>2. QED
  BY <1>1, HeapInvariant, PTL

\* What the heap holds is what the program holds.
LEMMA HeldIsLive ==
  ASSUME HeapInv
  PROVE  held = live
  BY DEF HeapInv, HeapOK, LiveOK, held

\* The blocks of a well-formed heap are in its chunks and do not overlap.
LEMMA Disjoint ==
  ASSUME NEW h, NEW C, Tiling(h, C), NEW b \in DOMAIN h
  PROVE  /\ b .. b + h[b].wosize \subseteq Words
         /\ \A d \in DOMAIN h \ {b} : (b .. b + h[b].wosize) \cap (d .. d + h[d].wosize) = {}
<1>1. \A d \in DOMAIN h : /\ d \in Int /\ h[d].wosize \in Nat
                          /\ EndIn(h, d) = d + h[d].wosize + 1
  BY TilingTypes DEF EndIn
<1>2. PICK c \in C : c <= b /\ EndIn(h, b) <= Limit(c)
  <2>1. \A e \in C : Limit(e) \in Int
    BY ChunkTypes DEF Tiling
  <2>2. QED
    BY <2>1, <1>1 DEF Tiling
<1>3. c \in DOMAIN Chunk_size /\ c \in Int /\ Limit(c) \in Int
  BY ChunkTypes DEF Tiling
<1>4. b .. b + h[b].wosize \subseteq InChunk(c)
  BY <1>1, <1>2, <1>3 DEF InChunk
<1>5. InChunk(c) \subseteq Words
  BY <1>3 DEF Words
<1>6. ASSUME NEW d \in DOMAIN h \ {b}
      PROVE  (b .. b + h[b].wosize) \cap (d .. d + h[d].wosize) = {}
  <2>1. EndIn(h, b) <= d \/ EndIn(h, d) <= b
    BY <1>1 DEF Tiling
  <2>2. QED
    BY <2>1, <1>1
<1>7. QED
  BY <1>4, <1>5, <1>6

\* An allocation of the heap is one of the allocator.
LEMMA AllocIsAlloc ==
  ASSUME HeapInv, HeapInv', NEW wo \in 1 .. MaxRequest, Adds(wo)
  PROVE  A!Alloc
<1>1. PICK hp : hp \notin DOMAIN live /\ live' = With(live, hp, wo)
  BY DEF Adds
<1>2. held = live /\ held' = live'
  BY HeldIsLive DEF HeapInv, HeapOK, LiveOK, held
<1>3. /\ DOMAIN live' = DOMAIN live \cup {hp} /\ live'[hp] = wo
      /\ \A b \in DOMAIN live : live'[b] = live[b]
  BY <1>1 DEF With
<1>4. /\ Tiling(hd', heap')
      /\ \A b \in DOMAIN live' : b \in DOMAIN hd' /\ hd'[b].wosize = live'[b]
  BY DEF HeapInv, HeapOK, LiveOK
<1>5. hp \in Int /\ wo \in Int /\ wo > 0
  BY <1>3, <1>4, TilingTypes, RequestAssumption
<1>6. hp .. hp + wo \subseteq Words
  BY <1>3, <1>4, Disjoint
<1>7. ASSUME NEW b \in DOMAIN live PROVE (hp .. hp + wo) \cap (b .. b + live[b]) = {}
  BY <1>1, <1>3, <1>4, Disjoint
<1>8. hp .. hp + wo \subseteq Words \ A!Taken
  BY <1>2, <1>6, <1>7 DEF A!Taken, A!Extent
<1>9. hp \in Words /\ hp + wo \in Words
  BY <1>5, <1>6
<1>10. held' = [b \in DOMAIN held \cup {hp} |-> IF b = hp THEN (hp + wo) - hp ELSE held[b]]
  BY <1>1, <1>2, <1>5 DEF With
<1>11. QED
  BY <1>5, <1>8, <1>9, <1>10 DEF A!Alloc

\* The heap implements the allocator: no allocation, merge, sweep or cut gives
\* away a word of a block in use, or changes the size of one.
THEOREM HeapIsAllocator == Spec => IsAllocator
<1>1. Init => A!Init
  <2> SUFFICES ASSUME Init PROVE A!Init
    OBVIOUS
  <2>1. held = live
    BY InitKeeps, HeldIsLive
  <2>2. QED
    BY <2>1 DEF Init, A!Init
<1>2. HeapInv /\ HeapInv' /\ [Next]_vars => [A!Next]_held
  <2> SUFFICES ASSUME HeapInv, HeapInv', [Next]_vars PROVE A!Next \/ held' = held
    OBVIOUS
  <2>1. held = live /\ held' = live'
    BY HeldIsLive DEF HeapInv, HeapOK, LiveOK, held
  <2>2. ASSUME NEW wo \in 1 .. MaxRequest, alloc_shr(wo) PROVE A!Next
    BY <2>2, AllocKeeps, AllocIsAlloc DEF A!Next
  <2>3. ASSUME NEW b \in DOMAIN live, NEW wo \in 1 .. MaxRequest, Truncate(b, wo) PROVE A!Next
    <3>1. wo \in 1 .. live[b] - 1 /\ live' = [live EXCEPT ![b] = wo]
      BY <2>3 DEF Truncate
    <3>2. live[b] \in Int
      BY TilingTypes DEF HeapInv, HeapOK, LiveOK
    <3>3. wo \in 1 .. held[b] /\ b \in DOMAIN held
      BY <3>1, <3>2, <2>1
    <3>4. A!Shorten
      BY <3>1, <3>3, <2>1 DEF A!Shorten
    <3>5. QED
      BY <3>4 DEF A!Next
  <2>4. CASE StartSweep
    <3>1. DOMAIN live' \in SUBSET DOMAIN live /\ live' = [b \in DOMAIN live' |-> live[b]]
      BY <2>4, StartSweepKeeps
    <3>2. A!Free
      BY <3>1, <2>1 DEF A!Free
    <3>3. QED
      BY <3>2 DEF A!Next
  <2>5. CASE start_cycle \/ sweep_slice
    BY <2>1, <2>5 DEF start_cycle, sweep_slice, SweepWhite, SweepBlue, SweepBlack, NextChunk
  <2>6. CASE UNCHANGED vars
    BY <2>1, <2>6 DEF vars
  <2>7. QED
    BY <2>2, <2>3, <2>4, <2>5, <2>6 DEF Next, Mutator
<1>3. QED
  BY <1>1, <1>2, HeapInvariant, PTL DEF Spec, IsAllocator, A!Spec

-----------------------------------------------------------------------------
(* Walking along the list                                                  *)

\* e is the first place, from p on, where a walk to S stops.
Ends(rank, next, S, p, e) ==
  /\ e \in DOMAIN next /\ rank[p] <= rank[e]
  /\ e \in S \/ next[e] = NULL
  /\ \A q \in DOMAIN next : rank[p] <= rank[q] /\ rank[q] < rank[e] => q \notin S

\* A list with positions, as its parts.
LEMMA RankFacts ==
  ASSUME NEW next, NEW B, NEW rank, next \in [B \cup {Fl_head} -> B \cup {NULL}], Ranks(rank, next, B)
  PROVE  LET D == B \cup {Fl_head}
         IN  /\ DOMAIN next = D
             /\ rank \in [D -> Nat] /\ rank[Fl_head] = 0
             /\ \A p, q \in D : rank[p] = rank[q] => p = q
             /\ \A p \in D : next[p] = NULL => \A q \in D : rank[q] <= rank[p]
             /\ \A p \in D : next[p] # NULL => next[p] \in D /\ rank[next[p]] = rank[p] + 1
             /\ \E p \in D : next[p] = NULL
             /\ \A b \in B : \E p \in D : next[p] = b
  BY DEF Ranks

\* Where a walk stops, it stops at once; elsewhere it stops where it would from the next block.
LEMMA EndsNext ==
  ASSUME NEW next, NEW B, NEW rank, next \in [B \cup {Fl_head} -> B \cup {NULL}],
         Ranks(rank, next, B), NEW S, NEW p \in DOMAIN next
  PROVE  /\ p \in S \/ next[p] = NULL => Ends(rank, next, S, p, p)
         /\ ~(p \in S \/ next[p] = NULL) =>
              /\ next[p] \in DOMAIN next /\ rank[next[p]] = rank[p] + 1
              /\ \A e \in DOMAIN next : Ends(rank, next, S, next[p], e) => Ends(rank, next, S, p, e)
<1> DEFINE D == DOMAIN next
<1>1. /\ rank \in [D -> Nat]
      /\ \A x, q \in D : rank[x] = rank[q] => x = q
      /\ \A x \in D : next[x] # NULL => next[x] \in D /\ rank[next[x]] = rank[x] + 1
  BY RankFacts
<1>2. p \in S \/ next[p] = NULL => Ends(rank, next, S, p, p)
  BY <1>1 DEF Ends
<1>3. ASSUME ~(p \in S \/ next[p] = NULL), NEW e \in D, Ends(rank, next, S, next[p], e)
      PROVE  Ends(rank, next, S, p, e)
  <2>1. rank[next[p]] = rank[p] + 1 /\ rank[p] \in Nat /\ rank[e] \in Nat
    BY <1>1, <1>3
  <2>2. rank[p] <= rank[e] /\ (e \in S \/ next[e] = NULL)
    BY <2>1, <1>3 DEF Ends
  <2>3. ASSUME NEW q \in D, rank[p] <= rank[q], rank[q] < rank[e] PROVE q \notin S
    <3>1. CASE rank[q] = rank[p]
      BY <3>1, <1>1, <1>3
    <3>2. CASE rank[q] # rank[p]
      <4>1. rank[next[p]] <= rank[q]
        BY <3>2, <2>1, <2>3, <1>1
      <4>2. QED
        BY <4>1, <2>3, <1>3 DEF Ends
    <3>3. QED
      BY <3>1, <3>2
  <2>4. QED
    BY <2>2, <2>3 DEF Ends
<1>4. QED
  BY <1>1, <1>2, <1>3

\* g is the recursive function of Walk.
Walks(g, next, S) ==
  g = [p \in DOMAIN next |-> IF p \in S \/ next[p] = NULL THEN p ELSE g[next[p]]]

\* The recursive function of Walk exists.
LEMMA WalkExists ==
  ASSUME NEW next, NEW B, next \in [B \cup {Fl_head} -> B \cup {NULL}], NEW S
  PROVE  \E g : Walks(g, next, S)
<1> DEFINE D     == DOMAIN next
           goes  == {p \in D : ~(p \in S \/ next[p] = NULL)}
           links == [p \in goes |-> next[p]]
<1>1. goes \in SUBSET D /\ links \in [goes -> D]
  OBVIOUS
<1>2. PICK g : Follows(g, D, goes, links)
  <2> HIDE DEF D, goes, links
  <2>1. QED
    BY ONLY <1>1, FollowExists, Zenon
<1>3. g = [p \in D |-> IF p \in goes THEN g[links[p]] ELSE p]
  BY <1>2 DEF Follows
<1>4. \A p \in D : (IF p \in goes THEN g[links[p]] ELSE p)
                    = IF p \in S \/ next[p] = NULL THEN p ELSE g[next[p]]
  OBVIOUS
<1>5. [p \in D |-> IF p \in goes THEN g[links[p]] ELSE p]
        = [p \in D |-> IF p \in S \/ next[p] = NULL THEN p ELSE g[next[p]]]
  <2> HIDE DEF goes, links
  <2>1. QED
    BY <1>4
<1>6. Walks(g, next, S)
  BY <1>3, <1>5 DEF Walks
<1>7. QED
  BY <1>6

\* A walk ends at the first block of S, or at the end of the list.
LEMMA WalkEnds ==
  ASSUME NEW next, NEW B, NEW rank, next \in [B \cup {Fl_head} -> B \cup {NULL}],
         Ranks(rank, next, B), NEW S, NEW p \in DOMAIN next
  PROVE  Ends(rank, next, S, p, Walk(next, S)[p])
<1> DEFINE D == DOMAIN next
           g == Walk(next, S)
<1>1. Walks(g, next, S)
  <2>1. g = CHOOSE f : Walks(f, next, S)
    BY DEF Walk, Walks
  <2>2. \E f : Walks(f, next, S)
    BY WalkExists
  <2> HIDE DEF g
  <2>3. QED
    BY <2>1, <2>2
<1> HIDE DEF g
<1>2. \A q \in D : g[q] = IF q \in S \/ next[q] = NULL THEN q ELSE g[next[q]]
  BY <1>1 DEF Walks
<1>3. /\ rank \in [D -> Nat]
      /\ \A x \in D : next[x] = NULL => \A q \in D : rank[q] <= rank[x]
      /\ \E x \in D : next[x] = NULL
  BY RankFacts DEF Ranks
<1>4. PICK last \in D : next[last] = NULL
  BY <1>3
<1> DEFINE Left(q) == rank[last] - rank[q]
           T == {Left(q) : q \in {x \in D : ~Ends(rank, next, S, x, g[x])}}
<1>5. T \in SUBSET Nat
  BY <1>3, <1>4
<1>6. ASSUME T # {} PROVE FALSE
  <2>1. PICK n \in T : \A m \in T : n <= m
    <3> HIDE DEF T
    <3>1. QED
      BY <1>5, <1>6, SmallestNumber
  <2>2. PICK q \in D : n = Left(q) /\ ~Ends(rank, next, S, q, g[q])
    BY <2>1
  <2>3. ~(q \in S \/ next[q] = NULL)
    BY <1>2, <2>2, EndsNext
  <2>4. next[q] \in D /\ rank[next[q]] = rank[q] + 1 /\ g[q] = g[next[q]]
    BY <1>2, <2>3, EndsNext
  <2>5. Left(next[q]) \in Int /\ ~(Left(q) <= Left(next[q]))
    BY <1>3, <1>4, <2>4
  <2>6. Left(next[q]) \notin T
    <3> HIDE DEF T
    <3>1. QED
      BY <2>1, <2>2, <2>5
  <2>7. Ends(rank, next, S, next[q], g[next[q]])
    BY <2>4, <2>6
  <2>8. g[next[q]] \in D
    BY <2>7 DEF Ends
  <2>9. Ends(rank, next, S, q, g[next[q]])
    BY <2>3, <2>7, <2>8, EndsNext
  <2>10. QED
    BY <2>2, <2>4, <2>9
<1>7. Ends(rank, next, S, p, g[p])
  BY <1>6
<1>8. QED
  BY <1>7 DEF g

-----------------------------------------------------------------------------
(* The search                                                              *)

\* The search of fl_allocate fails only when no block of the list is large enough.
LEMMA SearchMissesNone ==
  ASSUME NEW l, NEW B, FlType(l, B), NULL \notin B, NEW h, NEW wo, fl_allocate(l, h, wo) = {}
  PROVE  Fitting(l, h, wo) = {}
<1> DEFINE next == l.next
           D    == B \cup {Fl_head}
           fit  == Fitting(l, h, wo)
           to   == Walk(next, fit)[l.prev]
           from == Walk(next, fit \cup {l.prev})[Fl_head]
<1> SUFFICES ASSUME NEW x \in fit PROVE FALSE
  OBVIOUS
<1>1. next \in [D -> B \cup {NULL}] /\ l.prev \in D /\ Fl_head \in D
  BY DEF FlType, IsList, FlSet
<1>2. PICK rank : Ranks(rank, next, B)
  BY DEF FlType, IsList
<1>3. /\ DOMAIN next = D /\ rank \in [D -> Nat] /\ rank[Fl_head] = 0
      /\ \A p, q \in D : rank[p] = rank[q] => p = q
      /\ \A p \in D : next[p] = NULL => \A q \in D : rank[q] <= rank[p]
  <2> HIDE DEF next
  <2>1. QED
    BY <1>1, <1>2, RankFacts DEF Ranks
<1>4. x \in D /\ next[x] # NULL
  BY <1>3 DEF Fitting
<1>5. Ends(rank, next, fit, l.prev, to) /\ Ends(rank, next, fit \cup {l.prev}, Fl_head, from)
  <2> HIDE DEF next, fit
  <2>1. \A S : \A p \in DOMAIN next : Ends(rank, next, S, p, Walk(next, S)[p])
    BY <1>1, <1>2, WalkEnds
  <2>2. QED
    BY <2>1, <1>1, <1>3
<1>6. fit \cap {IF next[to] # NULL THEN to ELSE from} = {}
  BY DEF fl_allocate
<1> HIDE DEF next, fit, to, from, D
<1>7. next[to] = NULL /\ from \notin fit
  BY <1>5, <1>6 DEF Ends
<1>8. ~(rank[l.prev] <= rank[x])
  <2> SUFFICES ASSUME rank[l.prev] <= rank[x] PROVE FALSE
    OBVIOUS
  <2>1. to \in D /\ rank[x] <= rank[to] /\ to # x
    BY <1>3, <1>4, <1>5, <1>7 DEF Ends
  <2>2. rank[x] < rank[to]
    BY <2>1, <1>3, <1>4
  <2>3. QED
    BY <2>2, <1>3, <1>4, <1>5 DEF Ends
<1>9. from \in D /\ (from = l.prev \/ next[from] = NULL)
  BY <1>3, <1>5, <1>7 DEF Ends
<1>10. rank[x] < rank[from]
  <2>1. CASE from = l.prev
    BY <2>1, <1>1, <1>3, <1>4, <1>8
  <2>2. CASE next[from] = NULL
    BY <2>2, <1>1, <1>3, <1>4, <1>8, <1>9
  <2>3. QED
    BY <2>1, <2>2, <1>9
<1>11. rank[Fl_head] <= rank[x]
  BY <1>3, <1>4
<1>12. QED
  BY <1>3, <1>4, <1>5, <1>10, <1>11 DEF Ends

\* When the search fails, every free block is too small.
LEMMA AllTooSmall ==
  ASSUME HeapInv, NEW wo \in Nat, fl_allocate(fl, hd, wo) = {}, NEW f \in Colored("blue")
  PROVE  hd[f].wosize < wo
<1>1. Tiling(hd, heap) /\ FlType(fl, BlueIn(hd))
  BY DEF HeapInv, HeapOK
<1>2. f \in BlueIn(hd) /\ f \in DOMAIN hd /\ hd[f].wosize \in Nat
  BY <1>1, TilingTypes DEF Colored, BlueIn
<1>3. NULL \notin BlueIn(hd)
  BY <1>1, HeadIsNoBlock DEF BlueIn
<1>4. Fitting(fl, hd, wo) = {}
  BY <1>1, <1>3, SearchMissesNone
<1>5. PICK rank : Ranks(rank, fl.next, BlueIn(hd))
  BY <1>1 DEF FlType, IsList
<1>6. PICK p \in DOMAIN fl.next : fl.next[p] = f
  BY <1>1, <1>2, <1>5, RankFacts DEF FlType, IsList
<1>7. p \notin Fitting(fl, hd, wo) /\ fl.next[p] # NULL
  BY <1>2, <1>3, <1>4, <1>6
<1>8. ~(hd[f].wosize >= wo)
  BY <1>6, <1>7 DEF Fitting
<1>9. QED
  BY <1>2, <1>8

\* The heap grows only when no free block has the size that is asked for: the two loops of
\* fl_allocate miss no block, from wherever fl_prev is (freelist.c:119).
THEOREM HeapGrowsWhenFull == Spec => GrowsWhenFull
<1> DEFINE Full == heap' # heap => \A b \in DOMAIN live' \ DOMAIN live : \A f \in Colored("blue") :
                                     hd[f].wosize < live'[b]
<1>1. HeapInv /\ [Next]_vars => [Full]_vars
  <2> SUFFICES ASSUME HeapInv, Next, heap' # heap,
                      NEW b \in DOMAIN live' \ DOMAIN live, NEW f \in Colored("blue")
               PROVE  hd[f].wosize < live'[b]
    OBVIOUS
  <2>1. PICK wo \in 1 .. MaxRequest : alloc_shr(wo)
    BY DEF Next, Mutator, Truncate, start_cycle, StartSweep, sweep_slice, SweepWhite, SweepBlue,
           SweepBlack, NextChunk
  <2>2. fl_allocate(fl, hd, wo) = {}
    BY <2>1 DEF alloc_shr
  <2>3. live'[b] = wo
    <3>1. Adds(wo)
      BY <2>1, AllocKeeps
    <3>2. PICK hp : live' = With(live, hp, wo)
      BY <3>1 DEF Adds
    <3>3. QED
      BY <3>2 DEF With
  <2>4. wo \in Nat
    BY RequestAssumption
  <2>5. QED
    BY <2>2, <2>3, <2>4, AllTooSmall
<1>2. QED
  BY <1>1, HeapInvariant, PTL DEF Spec, GrowsWhenFull

-----------------------------------------------------------------------------
(* Types                                                                   *)

\* What HeapInv does not say of the variables.
OtherTypes ==
  /\ gc_phase \in {"idle", "mark", "sweep"}
  /\ gc_sweep_hp \in Nat
  /\ grewBehind \in BOOLEAN

\* The sweep pointer is an address while the heap is swept.
LEMMA SweepPointer ==
  ASSUME HeapInv, gc_phase = "sweep" PROVE gc_sweep_hp \in Nat
<1>1. /\ Tiling(hd, heap) /\ gc_sweep_hp \in DOMAIN hd \cup {Limit(c) : c \in heap}
  BY DEF HeapInv, HeapOK, SweepOK
<1>2. \A c \in heap : Limit(c) \in Nat
  BY <1>1, ChunkTypes DEF Tiling
<1>3. QED
  BY <1>1, <1>2, TilingTypes

LEMMA OtherTypesStep ==
  ASSUME HeapInv, OtherTypes, [Next]_vars, HeapInv' PROVE OtherTypes'
<1>1. gc_phase' \in {"idle", "mark", "sweep"}
  BY DEF OtherTypes, Next, vars, Mutator, alloc_shr, Truncate, start_cycle, StartSweep, sweep_slice,
         SweepWhite, SweepBlue, SweepBlack, NextChunk
<1>2. grewBehind' \in BOOLEAN
  BY DEF OtherTypes, Next, vars, Mutator, alloc_shr, Truncate, start_cycle, StartSweep, sweep_slice,
         SweepWhite, SweepBlue, SweepBlack, NextChunk
<1>3. gc_phase' = "sweep" => gc_sweep_hp' \in Nat
  <2>1. (HeapInv /\ gc_phase = "sweep" => gc_sweep_hp \in Nat)'
    BY SweepPointer, PTL
  <2>2. QED
    BY <2>1
<1>4. gc_phase' # "sweep" => gc_sweep_hp' = gc_sweep_hp
  BY DEF Next, vars, Mutator, alloc_shr, Truncate, start_cycle, StartSweep, sweep_slice,
         SweepWhite, SweepBlue, SweepBlack, NextChunk, Sweeping
<1>5. QED
  BY <1>1, <1>2, <1>3, <1>4 DEF OtherTypes

\* The links lead from free blocks to free blocks, and fl_prev and fl_merge stay on the list
\* whatever is taken from it or merged (freelist.c 37-60, 99-103, 211-214).
THEOREM FreeListTypeCorrect == Spec => []TypeOK
<1>1. Init => OtherTypes
  <2>1. Init => gc_phase = "idle" /\ gc_sweep_hp = 0 /\ grewBehind = FALSE
    BY DEF Init
  <2>2. Init => gc_phase \in {"idle", "mark", "sweep"} /\ gc_sweep_hp \in Nat
    BY <2>1
  <2>3. Init => grewBehind \in BOOLEAN
    BY <2>1, Zenon
  <2>4. QED
    BY <2>2, <2>3 DEF OtherTypes
<1>2. OtherTypes /\ HeapInv /\ HeapInv' /\ [Next]_vars => OtherTypes'
  BY OtherTypesStep
<1>3. OtherTypes /\ HeapInv => TypeOK
  <2> SUFFICES ASSUME OtherTypes, HeapInv PROVE TypeOK
    OBVIOUS
  <2>1. Tiling(hd, heap) /\ FlType(fl, BlueIn(hd))
    BY DEF HeapInv, HeapOK
  <2>2. \A b \in DOMAIN hd : b \in Words
    <3>1. ASSUME NEW b \in DOMAIN hd PROVE b \in Words
      <4>1. b .. b + hd[b].wosize \subseteq Words
        BY <2>1, Disjoint
      <4>2. b \in b .. b + hd[b].wosize
        BY <2>1, TilingTypes
      <4>3. QED
        BY <4>1, <4>2
    <3>2. QED
      BY <3>1
  <2>3. \A b \in DOMAIN hd : hd[b].wosize \in Nat /\ hd[b].color \in {"white", "black", "blue"}
    BY <2>1, TilingTypes
  <2>4. /\ DOMAIN fl.next = BlueIn(hd) \cup {Fl_head}
        /\ \A p \in DOMAIN fl.next : fl.next[p] \in DOMAIN fl.next \cup {NULL}
    BY <2>1 DEF FlType, IsList
  <2>5. {fl.prev, fl.merge} \subseteq DOMAIN fl.next
    BY <2>1, <2>4 DEF FlType, FlSet
  <2>6. heap \subseteq DOMAIN Chunk_size
    BY <2>1 DEF Tiling
  <2>7. QED
    BY <2>2, <2>3, <2>4, <2>5, <2>6 DEF TypeOK, OtherTypes, BlueIn
<1>4. QED
  BY <1>1, <1>2, <1>3, HeapInvariant, PTL DEF Spec

-----------------------------------------------------------------------------
(* The sum of the sizes                                                    *)

\* The words of the blocks S.
Total(h, S) == MapThenSumSet(LAMBDA b : h[b].wosize + 1, S)

WordsOf(h, S) == [b \in S |-> h[b].wosize + 1]

LEMMA TotalIs ==
  ASSUME NEW S, IsFiniteSet(S), NEW h
  PROVE  Total(h, S) = SumOf(WordsOf(h, S), S)
<1> DEFINE f == WordsOf(h, S)
           Sum(g) == g = [s \in SUBSET S |-> IF s = {} THEN 0 ELSE (h[Some(s)].wosize + 1) + g[s \ {Some(s)}]]
           Own(g) == g = [s \in SUBSET S |-> IF s = {} THEN 0 ELSE f[Some(s)] + g[s \ {Some(s)}]]
<1>1. \A s \in SUBSET S : s # {} => f[Some(s)] = h[Some(s)].wosize + 1
  <2>1. \A s \in SUBSET S : s # {} => Some(s) \in S
    BY DEF Some
  <2>2. QED
    BY <2>1 DEF WordsOf
<1> HIDE DEF f
<1>2. \A g : Sum(g) <=> Own(g)
  BY <1>1
<1>3. (CHOOSE g : Sum(g)) = (CHOOSE g : Own(g))
  <2> HIDE DEF Sum, Own
  <2>1. QED
    BY <1>2
<1>4. Total(h, S) = (CHOOSE g : Sum(g))[S]
  BY DEF Total, MapThenSumSet, MapThenFoldSet, Some
<1>5. SumOf(f, S) = (CHOOSE g : Own(g))[S]
  BY DEF SumOf
<1> HIDE DEF Sum, Own
<1>6. QED
  BY <1>3, <1>4, <1>5 DEF f

\* The sum with one block more, the sum of none, and the same sum.
LEMMA TotalTakes ==
  ASSUME NEW S, IsFiniteSet(S), NEW h, \A y \in S : h[y].wosize \in Int, NEW x \in S
  PROVE  Total(h, S) = h[x].wosize + 1 + Total(h, S \ {x}) /\ Total(h, S \ {x}) \in Int
<1> DEFINE f == WordsOf(h, S)
           R == S \ {x}
           g == WordsOf(h, R)
<1>1. (\A y \in S : f[y] = h[y].wosize + 1) /\ (\A y \in R : g[y] = f[y])
  BY DEF WordsOf
<1>2. IsFiniteSet(R)
  BY FS_Subset
<1>3. Total(h, S) = SumOf(f, S)
  BY TotalIs
<1> HIDE DEF f, g
<1>4. \A y \in S : f[y] \in Int
  BY <1>1
<1>5. SumOf(f, S) = f[x] + SumOf(f, R) /\ SumOf(f, R) \in Int
  BY <1>4, SumOfTakes
<1> HIDE DEF R
<1>6. Total(h, R) = SumOf(g, R)
  BY <1>2, TotalIs DEF g
<1>7. SumOf(g, R) = SumOf(f, R)
  BY <1>1, <1>2, SumOfAgrees
<1>8. QED
  BY <1>1, <1>3, <1>5, <1>6, <1>7 DEF R

LEMMA TotalOfNone ==
  ASSUME NEW h PROVE Total(h, {}) = 0
  BY FS_EmptySet, TotalIs, SumOfNone

LEMMA TotalAgrees ==
  ASSUME NEW S, IsFiniteSet(S), NEW h, NEW g, \A x \in S : h[x].wosize = g[x].wosize
  PROVE  Total(h, S) = Total(g, S)
<1>1. \A x \in S : WordsOf(h, S)[x] = WordsOf(g, S)[x]
  BY DEF WordsOf
<1> DEFINE u == WordsOf(h, S)
           v == WordsOf(g, S)
<1>2. Total(h, S) = SumOf(u, S) /\ Total(g, S) = SumOf(v, S)
  BY TotalIs
<1> HIDE DEF u, v
<1>3. SumOf(u, S) = SumOf(v, S)
  BY <1>1, SumOfAgrees DEF u, v
<1>4. QED
  BY <1>2, <1>3

\* A heap has finitely many blocks.
LEMMA FinitelyMany ==
  ASSUME NEW h, NEW C, Tiling(h, C) PROVE IsFiniteSet(DOMAIN h) /\ IsFiniteSet(BlueIn(h))
<1>1. \A c \in DOMAIN Chunk_size : IsFiniteSet(InChunk(c))
  <2>1. ASSUME NEW c \in DOMAIN Chunk_size PROVE IsFiniteSet(InChunk(c))
    <3>1. c \in Int /\ Limit(c) - 1 \in Int
      BY ChunkTypes
    <3>2. IsFiniteSet(c .. Limit(c) - 1)
      BY <3>1, FS_Interval
    <3>3. QED
      BY <3>2 DEF InChunk
  <2>2. QED
    BY <2>1
<1>2. IsFiniteSet({InChunk(c) : c \in DOMAIN Chunk_size})
  <2> DEFINE f == [c \in DOMAIN Chunk_size |-> InChunk(c)]
             T == {InChunk(c) : c \in DOMAIN Chunk_size}
  <2>1. IsFiniteSet(DOMAIN Chunk_size)
    BY ChunkAssumption
  <2>2. f \in Surjection(DOMAIN Chunk_size, T)
    BY DEF Surjection
  <2> HIDE DEF f, T
  <2>3. IsFiniteSet(T)
    BY <2>1, <2>2, FS_Surjection
  <2>4. QED
    BY <2>3 DEF T
<1>3. IsFiniteSet(Words)
  <2>1. \A T \in {InChunk(c) : c \in DOMAIN Chunk_size} : IsFiniteSet(T)
    BY <1>1
  <2>2. QED
    BY <2>1, <1>2, FS_UNION DEF Words
<1>4. DOMAIN h \subseteq Words
  <2>1. ASSUME NEW b \in DOMAIN h PROVE b \in Words
    <3>1. b .. b + h[b].wosize \subseteq Words
      BY Disjoint
    <3>2. b \in b .. b + h[b].wosize
      BY TilingTypes
    <3>3. QED
      BY <3>1, <3>2
  <2>2. QED
    BY <2>1
<1>5. IsFiniteSet(DOMAIN h)
  BY <1>3, <1>4, FS_Subset
<1>6. BlueIn(h) \subseteq DOMAIN h
  BY DEF BlueIn
<1>7. QED
  BY <1>5, <1>6, FS_Subset

-----------------------------------------------------------------------------
(* The order of the list                                                   *)

Sorted(next) == \A p \in DOMAIN next : next[p] # NULL => p < next[p]

\* In a sorted list the positions follow the addresses.
LEMMA SortedRanks ==
  ASSUME NEW next, NEW B, B \subseteq Nat, NEW rank, next \in [B \cup {Fl_head} -> B \cup {NULL}],
         Ranks(rank, next, B), Sorted(next)
  PROVE  \A p, q \in B \cup {Fl_head} : rank[p] < rank[q] => p < q
<1> DEFINE D == B \cup {Fl_head}
           Bad == {x \in D \X D : rank[x[1]] < rank[x[2]] /\ ~(x[1] < x[2])}
           T == {rank[x[2]] - rank[x[1]] : x \in Bad}
<1>1. /\ DOMAIN next = D /\ rank \in [D -> Nat] /\ D \subseteq Nat
      /\ \A p, q \in D : rank[p] = rank[q] => p = q
      /\ \A p \in D : next[p] = NULL => \A q \in D : rank[q] <= rank[p]
      /\ \A p \in D : next[p] # NULL => next[p] \in D /\ rank[next[p]] = rank[p] + 1
  BY RankFacts DEF Fl_head, Ranks
<1>2. ASSUME NEW x \in Bad
      PROVE  x[1] \in D /\ x[2] \in D /\ rank[x[1]] < rank[x[2]] /\ ~(x[1] < x[2])
  OBVIOUS
<1>3. T \in SUBSET Nat
  BY <1>1, <1>2
<1>4. ASSUME NEW p \in D, NEW q \in D, rank[p] < rank[q], ~(p < q) PROVE FALSE
  <2>1. <<p, q>> \in Bad
    BY <1>4
  <2>2. T # {}
    BY <2>1
  <2>3. PICK n \in T : \A m \in T : n <= m
    <3> HIDE DEF T
    <3>1. QED
      BY <1>3, <2>2, SmallestNumber
  <2>4. PICK x \in Bad : n = rank[x[2]] - rank[x[1]]
    BY <2>3
  <2>5. PICK a, b : /\ a \in D /\ b \in D
                    /\ rank[a] < rank[b] /\ ~(a < b) /\ n = rank[b] - rank[a]
    BY <2>4, <1>2
  <2>6. next[a] \in D /\ rank[next[a]] = rank[a] + 1 /\ a < next[a]
    BY <1>1, <2>5 DEF Sorted
  <2>7. CASE next[a] = b
    BY <2>5, <2>6, <2>7
  <2>8. CASE next[a] # b
    <3> DEFINE c == next[a]
    <3>1. rank[c] < rank[b] /\ rank[b] - rank[c] < n /\ rank[b] - rank[c] \in Int /\ n \in Int
      BY <2>5, <2>6, <2>8, <1>1
    <3>2. ~(c < b)
      BY <2>5, <2>6, <1>1
    <3>3. <<c, b>> \in Bad
      <4>1. c \in D /\ b \in D
        BY <2>5, <2>6
      <4> HIDE DEF c, D
      <4>2. QED
        BY <4>1, <3>1, <3>2
    <3>4. rank[b] - rank[c] \in T
      <4>1. <<c, b>>[2] = b /\ <<c, b>>[1] = c
        OBVIOUS
      <4> HIDE DEF Bad, c
      <4>2. QED
        BY <3>3, <4>1
    <3> HIDE DEF T, c
    <3>5. n <= rank[b] - rank[c]
      BY <2>3, <3>4
    <3>6. QED
      BY <3>1, <3>5
  <2>9. QED
    BY <2>7, <2>8
<1>5. QED
  BY <1>4

\* In a sorted list the next block is the next one in the order of addresses.
LEMMA SortedTight ==
  ASSUME NEW next, NEW B, B \subseteq Nat, IsList(next, B), Sorted(next)
  PROVE  \A p, q \in B \cup {Fl_head} : p < q => next[p] # NULL /\ next[p] <= q
<1> DEFINE D == B \cup {Fl_head}
<1>1. next \in [D -> B \cup {NULL}] /\ D \subseteq Nat
  BY DEF IsList, Fl_head
<1>2. PICK rank : Ranks(rank, next, B)
  BY DEF IsList
<1>3. /\ rank \in [D -> Nat]
      /\ \A p, q \in D : rank[p] = rank[q] => p = q
      /\ \A p \in D : next[p] = NULL => \A q \in D : rank[q] <= rank[p]
      /\ \A p \in D : next[p] # NULL => next[p] \in D /\ rank[next[p]] = rank[p] + 1
  BY <1>1, <1>2, RankFacts DEF Ranks
<1>4. \A p, q \in D : rank[p] < rank[q] => p < q
  BY <1>1, <1>2, SortedRanks
<1>5. ASSUME NEW p \in D, NEW q \in D, p < q PROVE next[p] # NULL /\ next[p] <= q
  <2>1. p \in Nat /\ q \in Nat /\ rank[p] \in Nat /\ rank[q] \in Nat
    BY <1>1, <1>3
  <2>2. rank[p] < rank[q]
    BY <2>1, <1>3, <1>4, <1>5
  <2>3. next[p] # NULL /\ next[p] \in D /\ rank[next[p]] = rank[p] + 1
    BY <2>1, <2>2, <1>3
  <2>4. CASE next[p] = q
    BY <2>1, <2>3, <2>4
  <2>5. CASE next[p] # q
    <3>1. rank[next[p]] < rank[q]
      <4>1. rank[next[p]] # rank[q]
        BY <2>3, <2>5, <1>3
      <4>2. QED
        BY <4>1, <2>1, <2>2, <2>3
    <3>2. next[p] < q
      BY <3>1, <2>3, <1>4
    <3>3. next[p] \in Nat
      BY <2>3, <1>1
    <3>4. QED
      BY <3>2, <3>3, <2>1, <2>3
  <2>6. QED
    BY <2>4, <2>5
<1>6. QED
  BY <1>5

-----------------------------------------------------------------------------
(* What holds of the list                                                  *)

\* Free blocks have room for a link, and no two of them are neighbours.
Room(h)  == \A b \in BlueIn(h) : h[b].wosize > 0
Apart(h) == \A b \in BlueIn(h) : EndIn(h, b) \notin BlueIn(h)

\* fl_merge is the last free block before the sweep.
MergePoint(h, l, hp) == l.merge < hp /\ \A b \in BlueIn(h) : b < hp => b <= l.merge

OrderOK(h, l, phase, hp) ==
  /\ Sorted(l.next)
  /\ Apart(h)
  /\ phase = "sweep" => MergePoint(h, l, hp)

SizeOK(h, l) == Room(h) /\ l.cur_size = Total(h, BlueIn(h))

\* What HeapInv says of a list, in the form the lemmas need.
LEMMA ListTypes ==
  ASSUME NEW h, NEW C, Tiling(h, C), NEW l, FlType(l, BlueIn(h))
  PROVE  LET B == BlueIn(h)
         IN  /\ B \subseteq Nat /\ B \subseteq DOMAIN h /\ Fl_head \notin B /\ NULL \notin B
             /\ DOMAIN l.next = B \cup {Fl_head} /\ l.next \in [B \cup {Fl_head} -> B \cup {NULL}]
             /\ IsList(l.next, B)
             /\ l.prev \in B \cup {Fl_head} /\ l.merge \in B \cup {Fl_head}
             /\ l.cur_size \in Int /\ l.last_fragment \in Int
             /\ IsFiniteSet(B)
             /\ \A b \in B : /\ b \in Nat /\ b > 0 /\ h[b].wosize \in Nat
                             /\ EndIn(h, b) \in Nat /\ b < EndIn(h, b)
<1>1. /\ IsFiniteSet(BlueIn(h)) /\ BlueIn(h) \subseteq DOMAIN h
      /\ Fl_head \notin BlueIn(h) /\ NULL \notin BlueIn(h)
  BY FinitelyMany, HeadIsNoBlock DEF BlueIn
<1>2. \A b \in BlueIn(h) : /\ b \in Nat /\ b > 0 /\ h[b].wosize \in Nat
                           /\ EndIn(h, b) \in Nat /\ b < EndIn(h, b)
  BY <1>1, TilingTypes
<1>3. l \in FlSet([BlueIn(h) \cup {Fl_head} -> BlueIn(h) \cup {NULL}], BlueIn(h) \cup {Fl_head})
  BY DEF FlType
<1>4. /\ l.prev \in BlueIn(h) \cup {Fl_head} /\ l.merge \in BlueIn(h) \cup {Fl_head}
      /\ l.cur_size \in Int /\ l.last_fragment \in Int
      /\ l.next \in [BlueIn(h) \cup {Fl_head} -> BlueIn(h) \cup {NULL}]
  BY <1>3 DEF FlSet
<1>5. IsList(l.next, BlueIn(h))
  BY DEF FlType
<1>6. BlueIn(h) \subseteq Nat
  BY <1>2
<1>7. DOMAIN l.next = BlueIn(h) \cup {Fl_head}
  BY <1>4
<1>8. QED
  BY <1>1, <1>2, <1>4, <1>5, <1>6, <1>7

\* Unlinking keeps a list sorted.
LEMMA UnlinkSorted ==
  ASSUME NEW next, NEW B, B \subseteq Nat, NEW prev \in B \cup {Fl_head},
         next \in [B \cup {Fl_head} -> B \cup {NULL}], next[prev] # NULL, Sorted(next)
  PROVE  Sorted(Unlink(next, prev))
<1> DEFINE D == B \cup {Fl_head}
           cur == next[prev]
           new == Unlink(next, prev)
<1>1. /\ DOMAIN next = D /\ D \subseteq Nat /\ cur \in B
      /\ \A p \in D : next[p] \in B \cup {NULL}
      /\ NULL \notin Nat
  BY DEF Fl_head, NULL
<1>2. new = [x \in D \ {cur} |-> IF x = prev THEN next[cur] ELSE next[x]]
  BY <1>1 DEF Unlink, Without
<1>3. ASSUME NEW p \in D \ {cur}, new[p] # NULL PROVE p < new[p]
  <2>1. CASE p = prev
    <3>1. new[p] = next[cur] /\ next[cur] \in B
      BY <2>1, <1>1, <1>2, <1>3
    <3>2. prev < cur /\ cur < next[cur]
      BY <3>1, <1>1, <1>3 DEF Sorted
    <3>3. QED
      BY <2>1, <3>1, <3>2, <1>1
  <2>2. CASE p # prev
    BY <2>2, <1>1, <1>2, <1>3 DEF Sorted
  <2>3. QED
    BY <2>1, <2>2
<1>4. DOMAIN new = D \ {cur}
  BY <1>2
<1> HIDE DEF new
<1>5. Sorted(new)
  BY <1>3, <1>4 DEF Sorted
<1>6. QED
  BY <1>5 DEF new

\* Linking a block between its neighbours keeps a list sorted.
LEMMA LinkSorted ==
  ASSUME NEW next, NEW B, B \subseteq Nat, NEW prev \in B \cup {Fl_head},
         next \in [B \cup {Fl_head} -> B \cup {NULL}], Sorted(next),
         NEW b \in Nat, b \notin B \cup {Fl_head}, prev < b, next[prev] # NULL => b < next[prev]
  PROVE  Sorted(Link(next, prev, b))
<1> DEFINE D == B \cup {Fl_head}
           new == Link(next, prev, b)
<1>1. DOMAIN next = D
  OBVIOUS
<1>2. new = [x \in D \cup {b} |-> IF x = prev THEN b ELSE IF x = b THEN next[prev] ELSE next[x]]
  BY <1>1 DEF Link, With
<1>3. ASSUME NEW p \in D \cup {b}, new[p] # NULL PROVE p < new[p]
  BY <1>1, <1>2, <1>3 DEF Sorted
<1>4. DOMAIN new = D \cup {b}
  BY <1>2
<1> HIDE DEF new
<1>5. Sorted(new)
  BY <1>3, <1>4 DEF Sorted
<1>6. QED
  BY <1>5 DEF new

-----------------------------------------------------------------------------
(* An allocation                                                           *)

\* What an allocation does to the free blocks.
LEMMA CutBlue ==
  ASSUME NEW h, NEW C, Tiling(h, C), NEW cur \in BlueIn(h),
         NEW wo \in Nat, wo > 0, h[cur].wosize >= wo, NEW color \in {"white", "black"}
  PROVE  LET g == Cut(h, cur, wo, color)
         IN  /\ \A x \in BlueIn(h) \ {cur} : g[x] = h[x]
             /\ Exhausts(h[cur].wosize, wo) => BlueIn(g) = BlueIn(h) \ {cur}
             /\ ~Exhausts(h[cur].wosize, wo) =>
                  /\ BlueIn(g) = BlueIn(h)
                  /\ g[cur].wosize = h[cur].wosize - (wo + 1) /\ g[cur].wosize > 0
                  /\ EndIn(g, cur) \notin BlueIn(h)
<1> DEFINE g  == Cut(h, cur, wo, color)
           hp == Place_in(h, cur, wo)
<1>1. /\ BlueIn(g) = IF Exhausts(h[cur].wosize, wo) THEN BlueIn(h) \ {cur} ELSE BlueIn(h)
      /\ hp \notin DOMAIN h \ {cur}
      /\ \A x \in DOMAIN h \ {cur} : g[x] = h[x]
  <2>1. /\ Tiling(Cut(h, cur, wo, color), C)
        /\ BlueIn(Cut(h, cur, wo, color)) =
             IF Exhausts(h[cur].wosize, wo) THEN BlueIn(h) \ {cur} ELSE BlueIn(h)
        /\ DOMAIN Cut(h, cur, wo, color) = DOMAIN h \cup {Place_in(h, cur, wo)}
        /\ Place_in(h, cur, wo) \notin DOMAIN h \ {cur}
        /\ Cut(h, cur, wo, color)[Place_in(h, cur, wo)] = Header(wo, color)
        /\ \A x \in DOMAIN h \ {cur} : Cut(h, cur, wo, color)[x] = h[x]
    BY AllocateTiling
  <2>2. g = Cut(h, cur, wo, color) /\ hp = Place_in(h, cur, wo)
    OBVIOUS
  <2> HIDE DEF g, hp
  <2>3. QED
    BY <2>1, <2>2
<1>2. cur \in DOMAIN h /\ BlueIn(h) \subseteq DOMAIN h
  BY DEF BlueIn
<1>3. cur \in Nat /\ h[cur].wosize \in Nat
  BY <1>2, TilingTypes
<1>4. ASSUME ~Exhausts(h[cur].wosize, wo)
      PROVE  /\ g[cur].wosize = h[cur].wosize - (wo + 1) /\ g[cur].wosize > 0
             /\ EndIn(g, cur) \notin BlueIn(h)
  <2>1. ~(h[cur].wosize < wo + 2)
    BY <1>4 DEF Exhausts
  <2>2. hp # cur
    BY <2>1, <1>3 DEF Place_in
  <2>3. g[cur] = Rest(h, cur, wo)
    BY <2>2, <1>2 DEF Cut, With
  <2>4. Rest(h, cur, wo) = Header(h[cur].wosize - (wo + 1), "blue")
    BY <1>4 DEF Rest
  <2>5. g[cur].wosize = h[cur].wosize - (wo + 1)
    BY <2>3, <2>4 DEF Header
  <2>6. EndIn(g, cur) = hp
    BY <2>5, <1>3 DEF EndIn, Place_in
  <2>7. hp \notin DOMAIN h
    BY <2>2, <1>1
  <2> HIDE DEF g, hp
  <2>8. QED
    BY <2>1, <2>5, <2>6, <2>7, <1>2, <1>3
<1>5. QED
  BY <1>1, <1>2, <1>4

\* An allocation takes its words from the sum.
LEMMA AllocateSize ==
  ASSUME NEW h, NEW C, Tiling(h, C), NEW l, FlType(l, BlueIn(h)), SizeOK(h, l),
         NEW wo \in Nat, wo > 0, NEW prev \in fl_allocate(l, h, wo),
         NEW color \in {"white", "black"}
  PROVE  SizeOK(Cut(h, l.next[prev], wo, color), Taken_from(l, h, prev, wo))
<1> DEFINE B   == BlueIn(h)
           cur == l.next[prev]
           g   == Cut(h, cur, wo, color)
           m   == Taken_from(l, h, prev, wo)
<1>1. /\ prev \in B \cup {Fl_head} /\ cur \in B /\ h[cur].wosize >= wo
      /\ IsFiniteSet(B) /\ \A b \in B : h[b].wosize \in Int
      /\ l.cur_size \in Int
  <2>1. prev \in DOMAIN l.next /\ cur # NULL /\ h[cur].wosize >= wo
    BY FoundFits
  <2>2. /\ DOMAIN l.next = B \cup {Fl_head} /\ B \subseteq Nat
        /\ l.next \in [B \cup {Fl_head} -> B \cup {NULL}]
        /\ l.merge \in B \cup {Fl_head} /\ IsList(l.next, B)
        /\ IsFiniteSet(B) /\ \A b \in B : h[b].wosize \in Nat
        /\ l.cur_size \in Int
    BY ListTypes
  <2>3. cur \in B
    BY <2>1, <2>2
  <2>4. QED
    BY <2>1, <2>2, <2>3
<1>2. /\ \A x \in B \ {cur} : g[x] = h[x]
      /\ Exhausts(h[cur].wosize, wo) => BlueIn(g) = B \ {cur}
      /\ ~Exhausts(h[cur].wosize, wo) =>
           BlueIn(g) = B /\ g[cur].wosize = h[cur].wosize - (wo + 1) /\ g[cur].wosize > 0
  BY <1>1, CutBlue
<1>3. l \in FlSet([B \cup {Fl_head} -> B \cup {NULL}], B \cup {Fl_head})
  BY DEF FlType
<1>4. m.cur_size = IF Exhausts(h[cur].wosize, wo) THEN l.cur_size - (h[cur].wosize + 1)
                   ELSE l.cur_size - (wo + 1)
  BY <1>3 DEF Taken_from, Detach, Shrunk, FlSet
<1>5. /\ Total(h, B) = h[cur].wosize + 1 + Total(h, B \ {cur})
      /\ Total(h, B \ {cur}) \in Int
  BY <1>1, TotalTakes
<1> HIDE DEF B, cur, g, m
<1>6. Total(g, B \ {cur}) = Total(h, B \ {cur})
  <2>1. IsFiniteSet(B \ {cur})
    BY <1>1, FS_Subset
  <2>2. QED
    BY <2>1, <1>2, TotalAgrees
<1>7. l.cur_size = Total(h, B) /\ \A b \in B : h[b].wosize > 0
  BY DEF SizeOK, Room, B
<1>8. CASE Exhausts(h[cur].wosize, wo)
  <2>1. m.cur_size = Total(h, B \ {cur})
    BY <1>8, <1>1, <1>4, <1>5, <1>7
  <2>2. QED
    BY <2>1, <1>2, <1>6, <1>7, <1>8 DEF SizeOK, Room, g, m, cur
<1>9. CASE ~Exhausts(h[cur].wosize, wo)
  <2>1. \A b \in B : g[b].wosize \in Int
    BY <1>1, <1>2, <1>9
  <2>2. Total(g, B) = g[cur].wosize + 1 + Total(g, B \ {cur})
    BY <2>1, <1>1, TotalTakes
  <2>3. m.cur_size = Total(g, B)
    BY <2>2, <1>1, <1>2, <1>4, <1>5, <1>6, <1>7, <1>9
  <2>4. Room(g)
    BY <1>2, <1>7, <1>9 DEF Room
  <2>5. QED
    BY <2>3, <2>4, <1>2, <1>9 DEF SizeOK, g, m, cur
<1>10. QED
  BY <1>8, <1>9

\* An allocation keeps the order.
LEMMA AllocateOrder ==
  ASSUME NEW h, NEW C, Tiling(h, C), NEW l, FlType(l, BlueIn(h)),
         NEW phase, NEW hp \in Int, OrderOK(h, l, phase, hp),
         NEW wo \in Nat, wo > 0, NEW prev \in fl_allocate(l, h, wo),
         NEW color \in {"white", "black"}
  PROVE  OrderOK(Cut(h, l.next[prev], wo, color), Taken_from(l, h, prev, wo), phase, hp)
<1> DEFINE B   == BlueIn(h)
           cur == l.next[prev]
           g   == Cut(h, cur, wo, color)
           m   == Taken_from(l, h, prev, wo)
<1>1. /\ prev \in B \cup {Fl_head} /\ cur \in B /\ cur # NULL /\ h[cur].wosize >= wo
      /\ B \subseteq Nat /\ l.next \in [B \cup {Fl_head} -> B \cup {NULL}]
      /\ DOMAIN l.next = B \cup {Fl_head}
      /\ l.merge \in B \cup {Fl_head} /\ IsList(l.next, B)
  <2>1. prev \in DOMAIN l.next /\ cur # NULL /\ h[cur].wosize >= wo
    BY FoundFits
  <2>2. /\ DOMAIN l.next = B \cup {Fl_head} /\ B \subseteq Nat
        /\ l.next \in [B \cup {Fl_head} -> B \cup {NULL}]
        /\ l.merge \in B \cup {Fl_head} /\ IsList(l.next, B)
        /\ IsFiniteSet(B) /\ \A b \in B : h[b].wosize \in Nat
        /\ l.cur_size \in Int
    BY ListTypes
  <2>3. cur \in B
    BY <2>1, <2>2
  <2>4. QED
    BY <2>1, <2>2, <2>3
<1>2. /\ \A x \in B \ {cur} : g[x] = h[x]
      /\ Exhausts(h[cur].wosize, wo) => BlueIn(g) = B \ {cur}
      /\ ~Exhausts(h[cur].wosize, wo) => BlueIn(g) = B /\ EndIn(g, cur) \notin B
  BY <1>1, CutBlue
<1>3. l \in FlSet([B \cup {Fl_head} -> B \cup {NULL}], B \cup {Fl_head})
  BY DEF FlType
<1>4. /\ m.next = IF Exhausts(h[cur].wosize, wo) THEN Unlink(l.next, prev) ELSE l.next
      /\ m.merge = IF Exhausts(h[cur].wosize, wo) /\ l.merge = cur THEN prev ELSE l.merge
  BY <1>3 DEF Taken_from, Detach, Shrunk, FlSet
<1>5. /\ Sorted(l.next) /\ Sorted(Unlink(l.next, prev))
      /\ prev < cur
      /\ \A p, q \in B \cup {Fl_head} : p < q => l.next[p] <= q
  <2>1. Sorted(l.next)
    BY DEF OrderOK
  <2>2. Sorted(Unlink(l.next, prev))
    BY <2>1, <1>1, UnlinkSorted
  <2>3. QED
    BY <2>1, <2>2, <1>1, SortedTight DEF Sorted
<1>6. Apart(h) /\ (phase = "sweep" => MergePoint(h, l, hp))
  BY DEF OrderOK
<1> HIDE DEF B, cur, g, m
<1>7. Sorted(m.next)
  BY <1>4, <1>5
<1>8. Apart(g)
  <2>1. \A b \in B : EndIn(h, b) \notin B
    BY <1>6 DEF Apart, B
  <2>2. \A b \in B \ {cur} : EndIn(g, b) = EndIn(h, b)
    BY <1>2 DEF EndIn
  <2>3. QED
    BY <2>1, <2>2, <1>2 DEF Apart
<1>9. ASSUME phase = "sweep" PROVE MergePoint(g, m, hp)
  <2>1. l.merge < hp /\ \A b \in B : b < hp => b <= l.merge
    BY <1>6, <1>9 DEF MergePoint, B
  <2>2. B \cup {Fl_head} \subseteq Nat
    BY <1>1 DEF Fl_head
  <2>3. CASE Exhausts(h[cur].wosize, wo) /\ l.merge = cur
    <3>1. m.merge = prev /\ prev < hp
      BY <2>1, <2>2, <2>3, <1>1, <1>4, <1>5
    <3>2. \A b \in B \ {cur} : b < hp => b <= prev
      <4>1. ASSUME NEW b \in B \ {cur}, b < hp, ~(b <= prev) PROVE FALSE
        <5>1. prev < b /\ b <= cur /\ b \in Nat /\ cur \in Nat /\ prev \in Nat
          BY <2>1, <2>2, <2>3, <4>1, <1>1
        <5>2. cur <= b
          BY <5>1, <1>1, <1>5 DEF cur
        <5>3. QED
          BY <5>1, <5>2, <4>1
      <4>2. QED
        BY <4>1
    <3>3. QED
      BY <3>1, <3>2, <2>3, <1>2 DEF MergePoint
  <2>4. CASE ~(Exhausts(h[cur].wosize, wo) /\ l.merge = cur)
    <3>1. m.merge = l.merge /\ BlueIn(g) \subseteq B
      BY <2>4, <1>2, <1>4
    <3>2. QED
      BY <3>1, <2>1 DEF MergePoint
  <2>5. QED
    BY <2>3, <2>4
<1>10. OrderOK(g, m, phase, hp)
  BY <1>7, <1>8, <1>9 DEF OrderOK
<1>11. QED
  BY <1>10 DEF g, m, cur

-----------------------------------------------------------------------------
(* A new chunk                                                             *)

\* The end of a sorted list is above all others.
LEMMA LastIsGreatest ==
  ASSUME HeapInv, Sorted(fl.next)
  PROVE  /\ fl_last \in DOMAIN fl.next /\ fl.next[fl_last] = NULL
         /\ \A q \in DOMAIN fl.next : q <= fl_last
<1> DEFINE B == BlueIn(hd)
<1>1. Tiling(hd, heap) /\ FlType(fl, B)
  BY DEF HeapInv, HeapOK
<1>2. B \subseteq Nat /\ DOMAIN fl.next = B \cup {Fl_head} /\ IsList(fl.next, B)
  BY <1>1, ListTypes
<1>3. \E p \in DOMAIN fl.next : fl.next[p] = NULL
  BY <1>2 DEF IsList, Ranks
<1>4. fl_last \in DOMAIN fl.next /\ fl.next[fl_last] = NULL
  BY <1>3 DEF fl_last
<1>5. \A p, q \in B \cup {Fl_head} : p < q => fl.next[p] # NULL
  BY <1>2, SortedTight
<1>6. ASSUME NEW q \in DOMAIN fl.next PROVE q <= fl_last
  <2>1. ~(fl_last < q)
    BY <1>2, <1>4, <1>5
  <2>2. fl_last \in Nat /\ q \in Nat
    BY <1>2, <1>4 DEF Fl_head
  <2>3. QED
    BY <2>1, <2>2
<1>7. QED
  BY <1>4, <1>6

\* fl_add_block finds the place of a chunk in a sorted list.
LEMMA PlaceFits ==
  ASSUME HeapInv, Sorted(fl.next), NEW c \in Nat, c > 0, c \notin DOMAIN fl.next, NEW p \in Place(c)
  PROVE  p \in DOMAIN fl.next /\ p < c /\ (fl.next[p] # NULL => c < fl.next[p])
<1> DEFINE B == BlueIn(hd)
           D == B \cup {Fl_head}
           next == fl.next
           S == {q \in D : next[q] > c}
<1>1. Tiling(hd, heap) /\ FlType(fl, B)
  BY DEF HeapInv, HeapOK
<1>2. /\ B \subseteq Nat /\ DOMAIN next = D /\ next \in [D -> B \cup {NULL}] /\ IsList(next, B)
      /\ D \subseteq Nat /\ Fl_head \in D
  <2>1. /\ B \subseteq Nat /\ DOMAIN next = D /\ next \in [D -> B \cup {NULL}]
        /\ IsList(next, B)
    BY <1>1, ListTypes
  <2>2. QED
    BY <2>1 DEF Fl_head
<1>3. fl_last \in D /\ next[fl_last] = NULL /\ \A q \in D : q <= fl_last
  BY <1>2, LastIsGreatest
<1>4. p \in D /\ p = IF c > fl_last THEN fl_last ELSE Before(c)
  BY <1>2 DEF Place
<1>5. CASE c > fl_last
  BY <1>2, <1>3, <1>4, <1>5
<1>6. CASE ~(c > fl_last)
  <2>1. p = Walk(next, S)[Fl_head] /\ c < fl_last
    <3>1. c # fl_last /\ fl_last \in Nat
      BY <1>2, <1>3
    <3>2. Before(c) = Walk(next, S)[Fl_head]
      BY <1>2 DEF Before
    <3>3. QED
      BY <3>1, <3>2, <1>4, <1>6
  <2>2. PICK rank : Ranks(rank, next, B)
    BY <1>2 DEF IsList
  <2> HIDE DEF next, S
  <2>3. /\ rank \in [D -> Nat] /\ rank[Fl_head] = 0
        /\ \A a, b \in D : rank[a] = rank[b] => a = b
        /\ \A a \in D : next[a] = NULL => \A q \in D : rank[q] <= rank[a]
        /\ \A a \in D : next[a] # NULL => next[a] \in D /\ rank[next[a]] = rank[a] + 1
        /\ \A b \in B : \E a \in D : next[a] = b
    BY <1>2, <2>2, RankFacts DEF Ranks
  <2>4. Ends(rank, next, S, Fl_head, p)
    <3>1. \A a \in DOMAIN next : Ends(rank, next, S, a, Walk(next, S)[a])
      BY <1>2, <2>2, WalkEnds
    <3>2. QED
      BY <3>1, <2>1, <1>2
  <2>5. \A q \in D : rank[q] < rank[p] => ~(next[q] > c)
    BY <2>4, <2>3, <1>2 DEF Ends, S
  <2>6. next[p] # NULL
    <3> SUFFICES ASSUME next[p] = NULL PROVE FALSE
      OBVIOUS
    <3>1. rank[fl_last] <= rank[p]
      BY <2>3, <1>3, <1>4
    <3>2. fl_last \in B
      BY <2>1, <1>2, <1>3 DEF Fl_head
    <3>3. PICK q \in D : next[q] = fl_last
      BY <3>2, <2>3
    <3>4. next[q] # NULL /\ next[q] > c
      BY <3>2, <3>3, <2>1, <1>2 DEF NULL
    <3>5. rank[q] < rank[p]
      BY <3>1, <3>3, <3>4, <2>3, <1>3, <1>4
    <3>6. QED
      BY <3>4, <3>5, <2>5
  <2>7. next[p] > c
    BY <2>4, <2>6 DEF Ends, S
  <2>8. p < c
    <3>1. CASE p = Fl_head
      BY <3>1 DEF Fl_head
    <3>2. CASE p # Fl_head
      <4>1. PICK q \in D : next[q] = p
        BY <3>2, <2>3, <1>4
      <4>2. next[q] # NULL
        BY <4>1, <1>2, <1>4 DEF NULL
      <4>3. rank[q] < rank[p]
        BY <4>1, <4>2, <2>3
      <4>4. ~(p > c)
        BY <4>1, <4>3, <2>5
      <4>5. p # c /\ p \in Nat
        BY <1>2, <1>4 DEF next
      <4>6. QED
        BY <4>4, <4>5
    <3>3. QED
      BY <3>1, <3>2
  <2>9. next[p] \in Nat
    BY <2>3, <2>6, <1>2, <1>4
  <2>10. QED
    BY <2>7, <2>8, <2>9, <1>2, <1>4 DEF next
<1>7. QED
  BY <1>5, <1>6

\* The free blocks and the list after a chunk was added.
LEMMA AddBlue ==
  ASSUME HeapInv, NEW wo, NEW c \in expand_heap(wo), NEW p \in Place(c)
  PROVE  LET h == With(hd, c, Header(Chunk_size[c] - 1, "blue"))
             l == fl_add_block(c, p)
         IN  /\ c \in Nat /\ c > 0 /\ c \notin DOMAIN hd /\ c \notin DOMAIN fl.next
             /\ Chunk_size[c] \in Nat /\ Chunk_size[c] > 1
             /\ BlueIn(h) = BlueIn(hd) \cup {c}
             /\ h[c].wosize = Chunk_size[c] - 1 /\ EndIn(h, c) = Limit(c)
             /\ \A x \in BlueIn(hd) : h[x] = hd[x]
             /\ l.next = Link(fl.next, p, c) /\ l.cur_size = fl.cur_size + Chunk_size[c]
             /\ l.merge = IF c < fl_last /\ p = fl.merge /\ c < gc_sweep_hp THEN c ELSE fl.merge
<1> DEFINE h == With(hd, c, Header(Chunk_size[c] - 1, "blue"))
<1>1. Tiling(hd, heap) /\ FlType(fl, BlueIn(hd))
  BY DEF HeapInv, HeapOK
<1>2. c \in DOMAIN Chunk_size \ heap
  BY DEF expand_heap
<1>3. c \notin DOMAIN hd
  BY <1>1, <1>2, ChunkTiling
<1>4. /\ c \in Nat /\ c > 0 /\ Chunk_size[c] \in Nat /\ Chunk_size[c] > 1
  BY <1>2, ChunkTypes DEF Limit
<1>5. c \notin DOMAIN fl.next
  <2>1. DOMAIN fl.next = BlueIn(hd) \cup {Fl_head}
    BY <1>1, ListTypes
  <2>2. QED
    BY <2>1, <1>3, <1>4 DEF Fl_head, BlueIn
<1>6. h[c] = Header(Chunk_size[c] - 1, "blue") /\ DOMAIN h = DOMAIN hd \cup {c}
      /\ \A x \in DOMAIN hd : h[x] = hd[x]
  BY <1>3 DEF With
<1> HIDE DEF h
<1>7. BlueIn(h) = BlueIn(hd) \cup {c} /\ h[c].wosize = Chunk_size[c] - 1
      /\ \A x \in BlueIn(hd) : h[x] = hd[x]
  BY <1>3, <1>6 DEF BlueIn, Header
<1>8. EndIn(h, c) = Limit(c)
  BY <1>4, <1>7 DEF EndIn, Limit
<1>9. fl \in FlSet([BlueIn(hd) \cup {Fl_head} -> BlueIn(hd) \cup {NULL}], BlueIn(hd) \cup {Fl_head})
  BY <1>1 DEF FlType
<1>10. /\ fl_add_block(c, p).next = Link(fl.next, p, c)
       /\ fl_add_block(c, p).cur_size = fl.cur_size + Chunk_size[c]
       /\ fl_add_block(c, p).merge =
            IF c < fl_last /\ p = fl.merge /\ c < gc_sweep_hp THEN c ELSE fl.merge
  BY <1>9 DEF fl_add_block, FlSet
<1>11. QED
  BY <1>3, <1>4, <1>5, <1>7, <1>8, <1>10 DEF h

\* The words of the chunk are in the sum.
LEMMA AddSize ==
  ASSUME HeapInv, SizeOK(hd, fl), NEW wo, NEW c \in expand_heap(wo), NEW p \in Place(c)
  PROVE  SizeOK(With(hd, c, Header(Chunk_size[c] - 1, "blue")), fl_add_block(c, p))
<1> DEFINE h == With(hd, c, Header(Chunk_size[c] - 1, "blue"))
           l == fl_add_block(c, p)
           B == BlueIn(hd)
           R == BlueIn(hd) \cup {c}
<1>1. /\ c \notin DOMAIN hd /\ Chunk_size[c] \in Nat /\ Chunk_size[c] > 1
      /\ BlueIn(h) = R /\ h[c].wosize = Chunk_size[c] - 1
      /\ \A x \in B : h[x] = hd[x]
      /\ l.cur_size = fl.cur_size + Chunk_size[c]
  BY AddBlue
<1>2. Tiling(hd, heap) /\ FlType(fl, B)
  BY DEF HeapInv, HeapOK
<1>3. IsFiniteSet(B) /\ B \subseteq DOMAIN hd /\ fl.cur_size \in Int
  BY <1>2, ListTypes
<1>4. \A x \in B : hd[x].wosize \in Nat
  BY <1>2, ListTypes
<1>5. fl.cur_size = Total(hd, B) /\ \A x \in B : hd[x].wosize > 0
  BY DEF SizeOK, Room
<1> HIDE DEF h, l, B
<1>6. IsFiniteSet(R) /\ R \ {c} = B
  BY <1>1, <1>3, FS_AddElement DEF B
<1>7. \A x \in R : h[x].wosize \in Int
  BY <1>1, <1>4 DEF B
<1> HIDE DEF R
<1>8. c \in R
  BY DEF R
<1>9. Total(h, R) = h[c].wosize + 1 + Total(h, B) /\ Total(h, B) \in Int
  BY <1>6, <1>7, <1>8, TotalTakes
<1>10. Total(h, B) = Total(hd, B)
  BY <1>1, <1>3, TotalAgrees
<1>11. l.cur_size = Total(h, R)
  BY <1>1, <1>3, <1>5, <1>9, <1>10
<1>12. \A x \in R : h[x].wosize > 0
  BY <1>1, <1>5 DEF R, B
<1>13. QED
  BY <1>1, <1>11, <1>12 DEF SizeOK, Room, h, l

\* The chunk is in order, unless it is appended behind the sweep.
LEMMA AddOrder ==
  ASSUME HeapInv, OrderOK(hd, fl, gc_phase, gc_sweep_hp), NEW wo, NEW c \in expand_heap(wo),
         NEW p \in Place(c), ~AddsBehind(c)
  PROVE  OrderOK(With(hd, c, Header(Chunk_size[c] - 1, "blue")), fl_add_block(c, p),
                 gc_phase, gc_sweep_hp)
<1> DEFINE h == With(hd, c, Header(Chunk_size[c] - 1, "blue"))
           l == fl_add_block(c, p)
           B == BlueIn(hd)
           D == B \cup {Fl_head}
<1>1. /\ c \in Nat /\ c > 0 /\ c \notin DOMAIN hd /\ c \notin DOMAIN fl.next
      /\ BlueIn(h) = B \cup {c} /\ EndIn(h, c) = Limit(c)
      /\ \A x \in B : h[x] = hd[x]
      /\ l.next = Link(fl.next, p, c)
      /\ l.merge = IF c < fl_last /\ p = fl.merge /\ c < gc_sweep_hp THEN c ELSE fl.merge
  BY AddBlue
<1>2. Tiling(hd, heap) /\ FlType(fl, B)
  BY DEF HeapInv, HeapOK
<1>3. /\ B \subseteq Nat /\ B \subseteq DOMAIN hd
      /\ DOMAIN fl.next = D /\ fl.next \in [D -> B \cup {NULL}]
      /\ fl.merge \in D
  BY <1>2, ListTypes
<1>4. D \subseteq Nat /\ gc_sweep_hp \in Int
  BY <1>3 DEF Fl_head, HeapInv, HeapOK, SweepOK
<1>5. Sorted(fl.next) /\ Apart(hd) /\ (gc_phase = "sweep" => MergePoint(hd, fl, gc_sweep_hp))
  BY DEF OrderOK
<1>6. /\ p \in D /\ p < c /\ (fl.next[p] # NULL => c < fl.next[p])
      /\ fl_last \in D /\ \A q \in D : q <= fl_last
  BY <1>1, <1>3, <1>5, PlaceFits, LastIsGreatest
<1> HIDE DEF h, l
<1>7. Sorted(l.next)
  <2>1. Sorted(Link(fl.next, p, c))
    BY <1>1, <1>3, <1>5, <1>6, LinkSorted
  <2>2. QED
    BY <2>1, <1>1
<1>8. Apart(h)
  <2>1. ASSUME NEW b \in B PROVE EndIn(h, b) \notin B \cup {c}
    <3>1. EndIn(h, b) = EndIn(hd, b) /\ EndIn(hd, b) \notin B
      BY <1>1, <1>5 DEF EndIn, Apart
    <3>2. EndIn(hd, b) # c
      <4>1. b \in DOMAIN hd /\ c \notin DOMAIN hd
        BY <1>1, <1>3
      <4>2. CASE EndIn(hd, b) \in DOMAIN hd
        BY <4>1, <4>2
      <4>3. CASE EndIn(hd, b) \notin DOMAIN hd
        <5>1. PICK d \in heap : EndIn(hd, b) = Limit(d)
          BY <4>1, <4>3, <1>2 DEF Tiling
        <5>2. d \in DOMAIN Chunk_size /\ c \in DOMAIN Chunk_size \ heap
          BY <1>2 DEF Tiling, expand_heap
        <5>3. d # c /\ d <= Limit(d) /\ c <= Limit(c) /\ c \in Int
          BY <5>2, ChunkTypes
        <5>4. Limit(d) # c
          BY <5>2, <5>3, OneChunk
        <5>5. QED
          BY <5>1, <5>4
      <4>4. QED
        BY <4>2, <4>3
    <3>3. QED
      BY <3>1, <3>2
  <2>2. EndIn(h, c) \notin B \cup {c}
    <3>1. c \in DOMAIN Chunk_size \ heap
      BY DEF expand_heap
    <3>2. Limit(c) \in Nat /\ Limit(c) > c
      BY <3>1, <1>1, ChunkTypes
    <3>3. Limit(c) \notin DOMAIN hd
      <4> SUFFICES ASSUME Limit(c) \in DOMAIN hd PROVE FALSE
        OBVIOUS
      <4>1. PICK d \in heap : d <= Limit(c) /\ EndIn(hd, Limit(c)) <= Limit(d)
        <5>1. PICK d \in heap : /\ d <= Limit(c)
                                /\ \/ EndIn(hd, Limit(c)) = Limit(d)
                                   \/ EndIn(hd, Limit(c)) < Limit(d)
          BY <1>2 DEF Tiling
        <5>2. EndIn(hd, Limit(c)) \in Nat /\ Limit(d) \in Nat
          BY <1>2, TilingTypes, ChunkTypes DEF Tiling
        <5>3. QED
          BY <5>1, <5>2
      <4>2. Limit(c) < EndIn(hd, Limit(c)) /\ EndIn(hd, Limit(c)) \in Nat
        BY <1>2, TilingTypes
      <4>3. d \in DOMAIN Chunk_size /\ Limit(d) \in Nat /\ d \in Nat
        BY <1>2, ChunkTypes DEF Tiling
      <4>4. Limit(c) <= Limit(d)
        BY <4>1, <4>2, <4>3, <3>2
      <4>5. d = c
        BY <4>1, <4>3, <4>4, <3>1, <3>2, <1>1, OneChunk
      <4>6. QED
        BY <4>5, <3>1
    <3>4. QED
      BY <3>2, <3>3, <1>1, <1>3
  <2>3. QED
    BY <2>1, <2>2, <1>1 DEF Apart
<1>9. ASSUME gc_phase = "sweep" PROVE MergePoint(h, l, gc_sweep_hp)
  <2>1. fl.merge < gc_sweep_hp /\ \A b \in B : b < gc_sweep_hp => b <= fl.merge
    BY <1>5, <1>9 DEF MergePoint
  <2>2. ASSUME c < gc_sweep_hp, ~(c < fl_last /\ p = fl.merge) PROVE c <= fl.merge
    <3>1. p <= fl.merge
      <4>1. p < gc_sweep_hp
        BY <2>2, <1>1, <1>4, <1>6
      <4>2. CASE p = Fl_head
        BY <4>2, <1>3, <1>4 DEF Fl_head
      <4>3. CASE p # Fl_head
        BY <4>1, <4>3, <2>1, <1>6
      <4>4. QED
        BY <4>2, <4>3
    <3>2. CASE p = fl.merge
      <4>1. ~(c < fl_last) /\ c # fl_last
        BY <3>2, <2>2, <1>1, <1>3, <1>6
      <4>2. fl_last < c
        BY <4>1, <1>1, <1>4, <1>6
      <4>3. fl_last = p
        BY <4>2 DEF Place
      <4>4. AddsBehind(c)
        BY <4>2, <4>3, <3>2, <2>2, <1>9 DEF AddsBehind
      <4>5. QED
        BY <4>4
    <3>3. CASE p # fl.merge
      <4>1. p < fl.merge
        BY <3>1, <3>3, <1>3, <1>4, <1>6
      <4>2. fl.next[p] # NULL /\ fl.next[p] <= fl.merge
        BY <4>1, <1>2, <1>3, <1>5, <1>6, ListTypes, SortedTight
      <4>3. fl.next[p] \in Nat /\ fl.merge \in Nat
        BY <4>2, <1>3, <1>4, <1>6
      <4>4. QED
        BY <4>2, <4>3, <1>1, <1>6
    <3>4. QED
      BY <3>2, <3>3
  <2>3. CASE c < fl_last /\ p = fl.merge /\ c < gc_sweep_hp
    <3>1. l.merge = c
      BY <2>3, <1>1
    <3>2. \A b \in B : b < gc_sweep_hp => b <= c
      BY <2>1, <2>3, <1>1, <1>3, <1>4, <1>6
    <3>3. QED
      BY <3>1, <3>2, <2>3, <1>1 DEF MergePoint
  <2>4. CASE ~(c < fl_last /\ p = fl.merge /\ c < gc_sweep_hp)
    <3>1. l.merge = fl.merge
      BY <2>4, <1>1
    <3>2. c < gc_sweep_hp => c <= fl.merge
      BY <2>2, <2>4
    <3>3. QED
      BY <3>1, <3>2, <2>1, <1>1 DEF MergePoint
  <2>5. QED
    BY <2>3, <2>4
<1>10. OrderOK(h, l, gc_phase, gc_sweep_hp)
  BY <1>7, <1>8, <1>9 DEF OrderOK
<1>11. QED
  BY <1>10 DEF h, l

-----------------------------------------------------------------------------
(* Freeing a block                                                         *)

\* The merged block has the words of its parts and ends where the last of them did.
LEMMA MergedSize ==
  ASSUME HeapInv, SweepWhite
  PROVE  /\ hd[gc_sweep_hp].wosize \in Nat /\ Headers2[MergedAt].wosize \in Nat
         /\ Headers2[MergedAt].wosize + 1 =
              Whsize(gc_sweep_hp) + (IF HasFragment THEN 1 ELSE 0)
                + (IF MeetsNext THEN hd[NextFree].wosize + 1 ELSE 0)
         /\ \A x \in BlueLeft : Headers2[x] = hd[x]
         /\ MeetsNext => /\ NextFree \in BlueIn(hd) /\ NextFree = EndIn(hd, gc_sweep_hp)
                         /\ EndIn(Headers2, MergedAt) = EndIn(hd, NextFree)
         /\ ~MeetsNext => /\ EndIn(Headers2, MergedAt) = EndIn(hd, gc_sweep_hp)
                          /\ NextFree = EndIn(hd, gc_sweep_hp) => NextFree \notin BlueIn(hd)
<1> DEFINE b == gc_sweep_hp
<1>1. Tiling(hd, heap)
  BY DEF HeapInv, HeapOK
<1>2. /\ b \in DOMAIN hd /\ hd[b].color = "white" /\ NextFree \in BlueIn(hd) \cup {NULL}
      /\ HasFragment => /\ fl.last_fragment \in DOMAIN hd
                        /\ hd[fl.last_fragment] = Header(0, "white")
      /\ NULL \notin BlueIn(hd)
      /\ Tiling(Headers1, heap) /\ BlueIn(Headers1) = BlueIn(hd) /\ MergedAt \in DOMAIN Headers1
      /\ EndIn(Headers1, MergedAt) = EndIn(hd, b)
      /\ Headers2[MergedAt].color = "white"
      /\ b \in Int /\ fl.last_fragment \in Int
  BY MergeFacts
<1>3. hd[b].wosize \in Nat /\ Headers1[MergedAt].wosize \in Nat
  BY <1>1, <1>2, TilingTypes
<1>4. /\ Headers1[MergedAt].wosize + 1 = hd[b].wosize + 1 + (IF HasFragment THEN 1 ELSE 0)
      /\ \A x \in BlueIn(hd) : Headers1[x] = hd[x]
  <2>1. CASE HasFragment
    <3>1. MergedAt = fl.last_fragment /\ hd[MergedAt] = Header(0, "white")
      BY <1>2, <2>1 DEF MergedAt
    <3>2. MergedAt \in DOMAIN hd /\ b = EndIn(hd, MergedAt) /\ hd[MergedAt].wosize = 0
      BY <1>2, <2>1, <3>1 DEF HasFragment, EndIn, Header
    <3>3. Headers1 = Join(hd, MergedAt, b)
      BY <2>1 DEF Headers1
    <3>4. PICK m, h1 : m = MergedAt /\ h1 = Headers1
      OBVIOUS
    <3>5. Tiling(hd, heap) /\ m \in DOMAIN hd /\ b \in DOMAIN hd /\ b = EndIn(hd, m) /\ h1 = Join(hd, m, b)
      BY <1>1, <1>2, <3>2, <3>3, <3>4
    <3>6. /\ h1 \in [DOMAIN hd \ {b} -> HeaderType]
          /\ m # b
          /\ EndIn(h1, m) = EndIn(hd, b)
          /\ h1[m].wosize = hd[m].wosize + hd[b].wosize + 1
          /\ h1[m].wosize # 0
          /\ h1[m].color = hd[m].color
          /\ \A x \in DOMAIN hd \ {m, b} : h1[x] = hd[x]
      BY <3>5, JoinFacts
    <3>7. \A x \in BlueIn(hd) : x \in DOMAIN hd \ {m, b}
      BY <1>2, <3>1, <3>4 DEF BlueIn, Header
    <3>8. QED
      BY <1>3, <2>1, <3>2, <3>4, <3>6, <3>7
  <2>2. CASE ~HasFragment
    BY <1>3, <2>2 DEF Headers1, MergedAt
  <2>3. QED
    BY <2>1, <2>2
<1>5. CASE MeetsNext
  <2>1. NextFree # NULL /\ EndIn(Headers1, MergedAt) = NextFree /\ Headers2 = Join(Headers1, MergedAt, NextFree)
    BY <1>5 DEF MeetsNext, Meets, Headers2
  <2>2. NextFree \in BlueIn(hd) /\ NextFree \in DOMAIN Headers1
    BY <1>2, <2>1 DEF BlueIn
  <2>3. PICK m, n, h1, h2 : m = MergedAt /\ n = NextFree /\ h1 = Headers1 /\ h2 = Headers2
    OBVIOUS
  <2>4. Tiling(h1, heap) /\ m \in DOMAIN h1 /\ n \in DOMAIN h1 /\ n = EndIn(h1, m) /\ h2 = Join(h1, m, n)
    BY <1>2, <2>1, <2>2, <2>3
  <2>5. /\ h2 \in [DOMAIN h1 \ {n} -> HeaderType]
        /\ m # n
        /\ EndIn(h2, m) = EndIn(h1, n)
        /\ h2[m].wosize = h1[m].wosize + h1[n].wosize + 1
        /\ h2[m].wosize # 0
        /\ h2[m].color = h1[m].color
        /\ \A x \in DOMAIN h1 \ {m, n} : h2[x] = h1[x]
    BY <2>4, JoinFacts
  <2>6. h1[n] = hd[n] /\ hd[n].wosize \in Nat
    BY <1>1, <1>4, <2>2, <2>3, TilingTypes DEF BlueIn
  <2>7. \A x \in BlueLeft : x \in BlueIn(hd) /\ x \in DOMAIN h1 \ {m, n}
    <3>1. BlueLeft = BlueIn(hd) \ {n}
      BY <1>5, <2>3 DEF BlueLeft
    <3>2. MergedAt \notin BlueLeft
      BY MergeFacts
    <3>3. QED
      BY <1>2, <2>3, <3>1, <3>2 DEF BlueIn
  <2>8. EndIn(h1, n) = EndIn(hd, n)
    BY <2>6 DEF EndIn
  <2>9. /\ h2[m].wosize + 1 = Whsize(b) + (IF HasFragment THEN 1 ELSE 0) + (hd[n].wosize + 1)
        /\ h2[m].wosize \in Nat
    BY <1>3, <1>4, <2>3, <2>5, <2>6 DEF Whsize
  <2>10. \A x \in BlueLeft : h2[x] = hd[x]
    BY <1>4, <2>3, <2>5, <2>7
  <2>11. QED
    BY <1>2, <1>3, <1>5, <2>1, <2>2, <2>3, <2>5, <2>8, <2>9, <2>10
<1>6. CASE ~MeetsNext
  <2>1. Headers2 = Headers1 /\ BlueLeft = BlueIn(hd)
    BY <1>6 DEF Headers2, BlueLeft
  <2>2. NextFree = EndIn(hd, b) => NextFree \notin BlueIn(hd)
    BY <1>2, <1>6 DEF MeetsNext, Meets
  <2>3. QED
    BY <1>2, <1>3, <1>4, <1>6, <2>1, <2>2 DEF Whsize
<1>7. QED
  BY <1>5, <1>6

\* The words of a freed block are in the sum, those of a fragment are not.
LEMMA SweepWhiteSize ==
  ASSUME HeapInv, SweepWhite, SizeOK(hd, fl)
  PROVE  SizeOK(hd', fl')
<1> DEFINE B == BlueIn(hd)
<1>1. Tiling(hd, heap) /\ FlType(fl, B)
  BY DEF HeapInv, HeapOK
<1>2. /\ IsFiniteSet(B) /\ fl.cur_size \in Int /\ B \subseteq DOMAIN hd
      /\ \A x \in B : hd[x].wosize \in Nat
  BY <1>1, ListTypes
<1>3. fl.cur_size = Total(hd, B) /\ \A x \in B : hd[x].wosize > 0
  BY DEF SizeOK, Room
<1>4. /\ hd[gc_sweep_hp].wosize \in Nat /\ Headers2[MergedAt].wosize \in Nat
      /\ Headers2[MergedAt].wosize + 1 =
              Whsize(gc_sweep_hp) + (IF HasFragment THEN 1 ELSE 0)
                + (IF MeetsNext THEN hd[NextFree].wosize + 1 ELSE 0)
      /\ \A x \in BlueLeft : Headers2[x] = hd[x]
      /\ MeetsNext => NextFree \in B
  BY MergedSize
<1>5. /\ BlueIn(hd') = BlueAfter
      /\ JoinsPrev => /\ fl.merge \in BlueLeft
                      /\ hd'[fl.merge].wosize =
                              Headers2[fl.merge].wosize + Headers2[MergedAt].wosize + 1
      /\ ~JoinsPrev => hd'[MergedAt].wosize = Headers2[MergedAt].wosize
      /\ \A x \in BlueLeft : (JoinsPrev => x # fl.merge) => hd'[x] = Headers2[x]
  BY MergedHeaders
<1>6. MergedAt \notin BlueLeft
  BY MergeFacts
<1>7. fl'.cur_size = fl.cur_size + Whsize(gc_sweep_hp) + (IF HasFragment THEN 1 ELSE 0)
                                    - (IF IsFragment THEN 1 ELSE 0)
  <2>1. fl \in FlSet([B \cup {Fl_head} -> B \cup {NULL}], B \cup {Fl_head})
    BY <1>1 DEF FlType
  <2>2. fl' = [fl EXCEPT
                     !.next = IF StaysFree THEN Link(RestOfList, fl.merge, MergedAt) ELSE RestOfList,
                     !.prev = IF MeetsNext /\ @ = NextFree THEN fl.merge ELSE @,
                     !.merge = IF StaysFree THEN MergedAt ELSE @,
                     !.cur_size = @ + Whsize(gc_sweep_hp) + (IF HasFragment THEN 1 ELSE 0)
                                    - (IF IsFragment THEN 1 ELSE 0),
                     !.last_fragment = IF IsFragment THEN MergedAt ELSE @]
    BY MergeFacts
  <2>3. QED
    BY <2>1, <2>2 DEF FlSet
<1>8. BlueLeft \subseteq B /\ IsFiniteSet(BlueLeft)
  <2>1. BlueLeft \subseteq B
    BY DEF BlueLeft
  <2>2. QED
    BY <2>1, <1>2, FS_Subset
<1> HIDE DEF B
<1>9. /\ Total(hd, BlueLeft) \in Int
      /\ Total(hd, B) = Total(hd, BlueLeft) + (IF MeetsNext THEN hd[NextFree].wosize + 1 ELSE 0)
  <2>1. CASE MeetsNext
    <3>1. NextFree \in B /\ \A x \in B : hd[x].wosize \in Int
      BY <2>1, <1>2, <1>4
    <3>2. Total(hd, B) = hd[NextFree].wosize + 1 + Total(hd, B \ {NextFree}) /\ Total(hd, B \ {NextFree}) \in Int
      BY <3>1, <1>2, TotalTakes
    <3>3. BlueLeft = B \ {NextFree}
      BY <2>1 DEF BlueLeft, B
    <3>4. QED
      BY <2>1, <3>1, <3>2, <3>3
  <2>2. CASE ~MeetsNext
    <3>1. BlueLeft = B
      BY <2>2 DEF BlueLeft, B
    <3>2. QED
      BY <2>2, <3>1, <1>2, <1>3
  <2>3. QED
    BY <2>1, <2>2
<1>10. Total(hd, BlueLeft) + Headers2[MergedAt].wosize + 1 =
         fl.cur_size + Whsize(gc_sweep_hp) + (IF HasFragment THEN 1 ELSE 0)
  <2>1. MeetsNext => hd[NextFree].wosize \in Int
    BY <1>2, <1>4
  <2>2. Whsize(gc_sweep_hp) \in Int
    BY <1>4 DEF Whsize
  <2>3. QED
    BY <2>1, <2>2, <1>2, <1>3, <1>4, <1>9
<1>11. Whsize(gc_sweep_hp) \in Int
  BY <1>4 DEF Whsize
<1>12. \A x \in BlueLeft : hd[x].wosize \in Nat /\ hd[x].wosize > 0
  BY <1>2, <1>3, <1>8
<1>13. CASE JoinsPrev
  <2>1. BlueIn(hd') = BlueLeft /\ fl'.cur_size = fl.cur_size + Whsize(gc_sweep_hp) + (IF HasFragment THEN 1 ELSE 0)
    BY <1>13, <1>2, <1>5, <1>7, <1>11 DEF BlueAfter, StaysFree, IsFragment
  <2>2. PICK p, g, n : p = fl.merge /\ g = hd' /\ n = Headers2[MergedAt].wosize
    OBVIOUS
  <2>3. /\ p \in BlueLeft /\ n \in Nat /\ g[p].wosize = hd[p].wosize + n + 1
        /\ \A x \in BlueLeft \ {p} : g[x] = hd[x]
    BY <1>4, <1>5, <1>13, <2>2
  <2>4. \A x \in BlueLeft : g[x].wosize \in Int /\ g[x].wosize > 0 /\ hd[x].wosize \in Int
    BY <1>12, <2>3
  <2>5. Total(hd, BlueLeft) = hd[p].wosize + 1 + Total(hd, BlueLeft \ {p}) /\ Total(hd, BlueLeft \ {p}) \in Int
    BY <1>8, <2>3, <2>4, TotalTakes
  <2>6. Total(g, BlueLeft) = g[p].wosize + 1 + Total(g, BlueLeft \ {p}) /\ Total(g, BlueLeft \ {p}) \in Int
    BY <1>8, <2>3, <2>4, TotalTakes
  <2>7. Total(g, BlueLeft \ {p}) = Total(hd, BlueLeft \ {p})
    <3>1. IsFiniteSet(BlueLeft \ {p}) /\ \A x \in BlueLeft \ {p} : g[x].wosize = hd[x].wosize
      BY <1>8, <2>3, FS_Subset
    <3>2. QED
      BY <3>1, TotalAgrees
  <2>8. Total(g, BlueLeft) = Total(hd, BlueLeft) + n + 1
    BY <2>3, <2>4, <2>5, <2>6, <2>7
  <2>9. fl'.cur_size = Total(hd', BlueIn(hd'))
    BY <1>10, <2>1, <2>2, <2>8
  <2>10. \A x \in BlueIn(hd') : hd'[x].wosize > 0
    BY <2>1, <2>2, <2>4
  <2>11. QED
    BY <2>9, <2>10 DEF SizeOK, Room
<1>14. CASE StaysFree
  <2>1. ~JoinsPrev /\ ~IsFragment /\ BlueIn(hd') = BlueLeft \cup {MergedAt} /\ Headers2[MergedAt].wosize # 0
    BY <1>14, <1>5 DEF BlueAfter, StaysFree, IsFragment
  <2>2. fl'.cur_size = fl.cur_size + Whsize(gc_sweep_hp) + (IF HasFragment THEN 1 ELSE 0)
    BY <2>1, <1>2, <1>7, <1>11
  <2>3. PICK m, g, n : m = MergedAt /\ g = hd' /\ n = Headers2[MergedAt].wosize
    OBVIOUS
  <2> DEFINE R == BlueLeft \cup {m}
  <2>4. /\ m \in R /\ n \in Nat /\ n > 0 /\ g[m].wosize = n /\ R \ {m} = BlueLeft
        /\ \A x \in BlueLeft : g[x] = hd[x]
    BY <1>4, <1>5, <1>6, <2>1, <2>3
  <2>5. IsFiniteSet(R) /\ \A x \in R : g[x].wosize \in Int /\ g[x].wosize > 0
    BY <1>8, <1>12, <2>4, FS_AddElement
  <2> HIDE DEF R
  <2>6. Total(g, R) = g[m].wosize + 1 + Total(g, R \ {m}) /\ Total(g, R \ {m}) \in Int
    BY <2>4, <2>5, TotalTakes
  <2>7. Total(g, BlueLeft) = Total(hd, BlueLeft)
    BY <1>8, <2>4, TotalAgrees
  <2>8. Total(g, R) = Total(hd, BlueLeft) + n + 1
    BY <2>4, <2>6, <2>7, <1>9
  <2>9. fl'.cur_size = Total(hd', BlueIn(hd')) /\ \A x \in BlueIn(hd') : hd'[x].wosize > 0
    BY <1>10, <2>1, <2>2, <2>3, <2>5, <2>8 DEF R
  <2>10. QED
    BY <2>9 DEF SizeOK, Room
<1>15. CASE IsFragment
  <2>1. ~JoinsPrev /\ ~StaysFree /\ BlueIn(hd') = BlueLeft /\ Headers2[MergedAt].wosize = 0
    BY <1>15, <1>5 DEF BlueAfter, StaysFree, IsFragment
  <2>2. fl'.cur_size = fl.cur_size + Whsize(gc_sweep_hp) + (IF HasFragment THEN 1 ELSE 0) - 1
    BY <1>15, <1>7
  <2>3. fl'.cur_size = Total(hd, BlueLeft)
    BY <2>1, <2>2, <1>2, <1>9, <1>10, <1>11
  <2>4. \A x \in BlueLeft : hd'[x] = hd[x]
    BY <2>1, <1>4, <1>5
  <2>5. Total(hd', BlueLeft) = Total(hd, BlueLeft)
    <3>1. PICK g : g = hd'
      OBVIOUS
    <3>2. \A x \in BlueLeft : g[x].wosize = hd[x].wosize
      BY <3>1, <2>4
    <3>3. Total(g, BlueLeft) = Total(hd, BlueLeft)
      BY <3>2, <1>8, TotalAgrees
    <3>4. QED
      BY <3>1, <3>3
  <2>6. QED
    BY <2>1, <2>3, <2>4, <2>5, <1>12 DEF SizeOK, Room
<1>16. QED
  BY <1>13, <1>14, <1>15 DEF IsFragment

\* No free block is in what was merged: the ones left are up to fl_merge or behind it.
LEMMA NoneInMerged ==
  ASSUME HeapInv, SweepWhite, Sorted(fl.next), Apart(hd), MergePoint(hd, fl, gc_sweep_hp)
  PROVE  /\ BlueLeft \subseteq BlueIn(hd) /\ BlueIn(hd) \subseteq Nat
         /\ fl.merge \in Nat /\ gc_sweep_hp \in Nat /\ gc_sweep_hp' \in Nat /\ MergedAt \in Nat
         /\ fl.merge < MergedAt /\ MergedAt <= gc_sweep_hp /\ gc_sweep_hp < gc_sweep_hp'
         /\ \A x \in BlueLeft : x <= fl.merge \/ x > gc_sweep_hp'
         /\ \A x \in BlueIn(hd) : x <= fl.merge \/ x > gc_sweep_hp
         /\ NextFree # NULL => NextFree > gc_sweep_hp
<1> DEFINE b == gc_sweep_hp
           B == BlueIn(hd)
           e == EndIn(Headers2, MergedAt)
<1>1. Tiling(hd, heap) /\ FlType(fl, B)
  BY DEF HeapInv, HeapOK
<1>2. /\ B \subseteq Nat /\ B \subseteq DOMAIN hd /\ IsList(fl.next, B)
      /\ DOMAIN fl.next = B \cup {Fl_head} /\ fl.merge \in B \cup {Fl_head}
      /\ fl.next \in [B \cup {Fl_head} -> B \cup {NULL}]
  BY <1>1, ListTypes
<1>3. /\ b \in DOMAIN hd /\ hd[b].color = "white"
      /\ HasFragment => /\ fl.last_fragment \in DOMAIN hd
                        /\ hd[fl.last_fragment] = Header(0, "white")
      /\ MergedAt \in Int /\ gc_sweep_hp' = e
  BY MergeFacts
<1>4. b \in Nat /\ b > 0 /\ EndIn(hd, b) \in Nat /\ b < EndIn(hd, b) /\ b \notin B
  BY <1>1, <1>3, TilingTypes DEF BlueIn
<1>5. fl.merge \in Nat
  BY <1>2 DEF Fl_head
<1>6. fl.merge < b /\ \A x \in B : x < b => x <= fl.merge
  BY DEF MergePoint
<1>7. MergedAt \in Nat /\ MergedAt <= b /\ fl.merge < MergedAt
  <2>1. CASE HasFragment
    <3>1. MergedAt = fl.last_fragment /\ MergedAt + 1 = b /\ MergedAt \in DOMAIN hd /\ MergedAt \notin B
      BY <1>3, <2>1 DEF MergedAt, HasFragment, BlueIn, Header
    <3>2. MergedAt \in Nat /\ MergedAt > 0
      BY <1>1, <3>1, TilingTypes
    <3>3. fl.merge # MergedAt
      BY <1>2, <3>1, <3>2 DEF Fl_head
    <3>4. QED
      BY <1>4, <1>5, <1>6, <3>1, <3>2, <3>3
  <2>2. CASE ~HasFragment
    BY <1>4, <1>6, <2>2 DEF MergedAt
  <2>3. QED
    BY <2>1, <2>2
<1>8. \A x \in B : x <= fl.merge \/ x > b
  <2>1. ASSUME NEW x \in B PROVE x <= fl.merge \/ x > b
    <3>1. x \in Nat /\ x # b
      BY <1>2, <1>4
    <3>2. QED
      BY <3>1, <1>4, <1>6
  <2>2. QED
    BY <2>1
<1>9. NextFree # NULL => NextFree \in B /\ NextFree > b
  <2>1. SUFFICES ASSUME NextFree # NULL PROVE NextFree \in B /\ NextFree > b
    OBVIOUS
  <2>2. NextFree \in B /\ fl.merge < NextFree
    BY <2>1, <1>2 DEF NextFree, Sorted
  <2>3. NextFree \in Nat
    BY <2>2, <1>2
  <2>4. ~(NextFree <= fl.merge)
    BY <2>2, <2>3, <1>5
  <2>5. QED
    BY <2>2, <2>4, <1>8
<1>10. \A x \in B : x > b => NextFree # NULL /\ NextFree <= x
  <2>1. ASSUME NEW x \in B, x > b PROVE NextFree # NULL /\ NextFree <= x
    <3>1. fl.merge < x /\ x \in B \cup {Fl_head}
      BY <2>1, <1>2, <1>4, <1>5, <1>6
    <3>2. \A p, q \in B \cup {Fl_head} : p < q => fl.next[p] # NULL /\ fl.next[p] <= q
      BY <1>2, SortedTight
    <3>3. QED
      BY <3>1, <3>2, <1>2 DEF NextFree
  <2>2. QED
    BY <2>1
<1>11. /\ MeetsNext => /\ NextFree \in B /\ NextFree = EndIn(hd, b)
                       /\ e = EndIn(hd, NextFree)
       /\ ~MeetsNext => /\ e = EndIn(hd, b)
                        /\ NextFree = EndIn(hd, b) => NextFree \notin B
  BY MergedSize
<1>12. BlueLeft \subseteq B
  BY DEF BlueLeft
<1>13. \A x, y \in DOMAIN hd : x < y => EndIn(hd, x) <= y
  BY <1>1 DEF Tiling
<1> HIDE DEF e
<1>14. CASE MeetsNext
  <2>1. NextFree \in B /\ NextFree \in Nat /\ NextFree \in DOMAIN hd /\ NextFree > b /\ e = EndIn(hd, NextFree)
    BY <1>2, <1>4, <1>11, <1>14
  <2>2. e \in Nat /\ NextFree < e /\ e \notin B
    BY <1>1, <2>1, TilingTypes DEF Apart
  <2>3. ASSUME NEW x \in BlueLeft, x > b PROVE x > e
    <3>1. x \in B /\ x # NextFree /\ x \in Nat /\ x \in DOMAIN hd
      BY <2>3, <1>2, <1>12, <1>14 DEF BlueLeft
    <3>2. NextFree <= x
      BY <2>3, <3>1, <1>10
    <3>3. NextFree < x
      BY <3>1, <3>2, <2>1
    <3>4. e <= x
      BY <2>1, <3>1, <3>3, <1>13
    <3>5. x # e
      BY <2>2, <3>1
    <3>6. QED
      BY <2>2, <3>1, <3>4, <3>5
  <2>4. e > b
    BY <2>1, <2>2, <1>4
  <2>5. \A x \in BlueLeft : x <= fl.merge \/ x > e
    BY <2>3, <1>8, <1>12
  <2>6. QED
    BY <2>2, <2>4, <2>5, <1>2, <1>3, <1>4, <1>5, <1>7, <1>8, <1>9, <1>12
<1>15. CASE ~MeetsNext
  <2>1. e = EndIn(hd, b) /\ e \in Nat /\ b < e
    BY <1>4, <1>11, <1>15
  <2>2. ASSUME NEW x \in BlueLeft, x > b PROVE x > e
    <3>1. x \in B /\ x \in Nat /\ x \in DOMAIN hd /\ NextFree # NULL /\ NextFree <= x
      BY <2>2, <1>2, <1>10, <1>12
    <3>2. NextFree \in B /\ NextFree > b /\ NextFree \in Nat /\ NextFree \in DOMAIN hd
      BY <3>1, <1>2, <1>9
    <3>3. e <= NextFree
      BY <2>1, <3>2, <1>3, <1>4, <1>13
    <3>4. e # NextFree
      BY <2>1, <3>2, <1>11, <1>15
    <3>5. QED
      BY <3>1, <3>2, <3>3, <3>4, <2>1
  <2>3. \A x \in BlueLeft : x <= fl.merge \/ x > e
    BY <2>2, <1>8, <1>12
  <2>4. QED
    BY <2>1, <2>3, <1>2, <1>3, <1>4, <1>5, <1>7, <1>8, <1>9, <1>12
<1>16. QED
  BY <1>14, <1>15

\* The merged block is in order, and fl_merge is again the last one before the sweep.
LEMMA SweepWhiteOrder ==
  ASSUME HeapInv, SweepWhite, OrderOK(hd, fl, "sweep", gc_sweep_hp)
  PROVE  OrderOK(hd', fl', "sweep", gc_sweep_hp')
<1> DEFINE B == BlueIn(hd)
           b == gc_sweep_hp
<1>1. Tiling(hd, heap) /\ FlType(fl, B)
  BY DEF HeapInv, HeapOK
<1>2. /\ B \subseteq Nat /\ B \subseteq DOMAIN hd /\ IsList(fl.next, B)
      /\ DOMAIN fl.next = B \cup {Fl_head} /\ fl.merge \in B \cup {Fl_head}
      /\ fl.next \in [B \cup {Fl_head} -> B \cup {NULL}]
      /\ \A x \in B : x > 0
  BY <1>1, ListTypes
<1>3. Sorted(fl.next) /\ Apart(hd) /\ MergePoint(hd, fl, b)
  BY DEF OrderOK
<1>4. /\ BlueLeft \subseteq B /\ B \subseteq Nat
      /\ fl.merge \in Nat /\ b \in Nat /\ gc_sweep_hp' \in Nat /\ MergedAt \in Nat
      /\ fl.merge < MergedAt /\ MergedAt <= b /\ b < gc_sweep_hp'
      /\ \A x \in BlueLeft : x <= fl.merge \/ x > gc_sweep_hp'
      /\ \A x \in B : x <= fl.merge \/ x > b
      /\ NextFree # NULL => NextFree > b
  BY <1>3, NoneInMerged
<1>5. /\ IsList(RestOfList, BlueLeft) /\ fl.merge \in BlueLeft \cup {Fl_head}
      /\ MergedAt \notin BlueLeft \cup {Fl_head, NULL}
      /\ Fl_head \notin B /\ NULL \notin B
  BY MergeFacts
<1>6. RestOfList \in [BlueLeft \cup {Fl_head} -> BlueLeft \cup {NULL}] /\ BlueLeft \subseteq Nat
  BY <1>4, <1>5 DEF IsList
<1>7. Sorted(RestOfList)
  <2>1. CASE MeetsNext
    <3>1. fl.next[fl.merge] # NULL /\ RestOfList = Unlink(fl.next, fl.merge)
      BY <2>1 DEF MeetsNext, Meets, NextFree, RestOfList
    <3>2. Sorted(Unlink(fl.next, fl.merge))
      BY <1>2, <1>3, <3>1, UnlinkSorted
    <3>3. QED
      BY <3>1, <3>2
  <2>2. CASE ~MeetsNext
    BY <1>3, <2>2 DEF RestOfList
  <2>3. QED
    BY <2>1, <2>2
<1>8. RestOfList[fl.merge] # NULL => MergedAt < RestOfList[fl.merge]
  <2>1. SUFFICES ASSUME RestOfList[fl.merge] # NULL PROVE MergedAt < RestOfList[fl.merge]
    OBVIOUS
  <2>2. RestOfList[fl.merge] \in BlueLeft
    BY <2>1, <1>5, <1>6
  <2>3. fl.merge < RestOfList[fl.merge]
    BY <2>1, <1>5, <1>6, <1>7 DEF Sorted
  <2>4. QED
    BY <2>2, <2>3, <1>4
<1>9. /\ fl'.next = IF StaysFree THEN Link(RestOfList, fl.merge, MergedAt) ELSE RestOfList
      /\ fl'.merge = IF StaysFree THEN MergedAt ELSE fl.merge
  <2>1. fl \in FlSet([B \cup {Fl_head} -> B \cup {NULL}], B \cup {Fl_head})
    BY <1>1 DEF FlType
  <2>2. fl' = [fl EXCEPT
                     !.next = IF StaysFree THEN Link(RestOfList, fl.merge, MergedAt) ELSE RestOfList,
                     !.prev = IF MeetsNext /\ @ = NextFree THEN fl.merge ELSE @,
                     !.merge = IF StaysFree THEN MergedAt ELSE @,
                     !.cur_size = @ + Whsize(gc_sweep_hp) + (IF HasFragment THEN 1 ELSE 0)
                                    - (IF IsFragment THEN 1 ELSE 0),
                     !.last_fragment = IF IsFragment THEN MergedAt ELSE @]
    BY MergeFacts
  <2>3. QED
    BY <2>1, <2>2 DEF FlSet
<1>10. Sorted(fl'.next)
  <2>1. Sorted(Link(RestOfList, fl.merge, MergedAt))
    <3>1. MergedAt \notin BlueLeft \cup {Fl_head}
      BY <1>5
    <3>2. QED
      BY <3>1, <1>4, <1>5, <1>6, <1>7, <1>8, LinkSorted
  <2>2. QED
    BY <2>1, <1>7, <1>9
<1>11. /\ BlueIn(hd') = BlueAfter
       /\ JoinsPrev => fl.merge \in BlueLeft /\ EndIn(hd', fl.merge) = gc_sweep_hp'
       /\ ~JoinsPrev => EndIn(hd', MergedAt) = gc_sweep_hp'
       /\ \A x \in BlueLeft : (JoinsPrev => x # fl.merge) => hd'[x] = Headers2[x]
  BY MergedHeaders
<1>12. \A x \in BlueLeft : Headers2[x] = hd[x]
  BY MergedSize
<1>13. gc_sweep_hp' \notin BlueLeft \cup {MergedAt}
  <2>1. gc_sweep_hp' \notin BlueLeft
    BY <1>4
  <2>2. QED
    BY <2>1, <1>4
<1>14. ASSUME NEW x \in BlueLeft, JoinsPrev => x # fl.merge PROVE EndIn(hd', x) = EndIn(hd, x) /\ EndIn(hd, x) \notin B
  BY <1>3, <1>4, <1>11, <1>12, <1>14 DEF EndIn, Apart
<1>15. Apart(hd')
  <2>1. CASE StaysFree
    <3>1. ~JoinsPrev /\ BlueIn(hd') = BlueLeft \cup {MergedAt}
      BY <2>1, <1>11 DEF StaysFree, BlueAfter
    <3>2. ASSUME NEW x \in BlueLeft PROVE EndIn(hd', x) \notin BlueLeft \cup {MergedAt}
      <4>1. EndIn(hd', x) = EndIn(hd, x) /\ EndIn(hd, x) \notin B
        BY <1>14, <3>1
      <4>2. SUFFICES ASSUME EndIn(hd, x) = MergedAt PROVE FALSE
        BY <4>1, <1>4
      <4>3. x \in B /\ x \in Nat /\ x \in DOMAIN hd /\ x > 0 /\ x < EndIn(hd, x)
        BY <1>1, <1>2, <1>4, TilingTypes
      <4>4. x <= fl.merge
        BY <4>2, <4>3, <1>4
      <4>5. CASE x = fl.merge
        <5>1. fl.merge # Fl_head /\ Headers2[fl.merge] = hd[fl.merge]
          BY <4>3, <4>5, <1>12 DEF Fl_head
        <5>2. EndIn(Headers2, fl.merge) = MergedAt
          BY <4>2, <4>5, <5>1 DEF EndIn
        <5>3. QED
          BY <5>1, <5>2, <3>1 DEF JoinsPrev
      <4>6. CASE x # fl.merge
        <5>1. fl.merge \in B
          BY <4>3, <4>4, <4>6, <1>2 DEF Fl_head
        <5>2. x < fl.merge /\ fl.merge \in DOMAIN hd
          BY <4>3, <4>4, <4>6, <5>1, <1>2, <1>4
        <5>3. EndIn(hd, x) <= fl.merge
          BY <4>3, <5>2, <1>1 DEF Tiling
        <5>4. QED
          BY <5>3, <4>2, <1>4
      <4>7. QED
        BY <4>5, <4>6
    <3>3. EndIn(hd', MergedAt) \notin BlueLeft \cup {MergedAt}
      BY <3>1, <1>11, <1>13
    <3>4. QED
      BY <3>1, <3>2, <3>3 DEF Apart
  <2>2. CASE ~StaysFree
    <3>1. BlueIn(hd') = BlueLeft
      BY <2>2, <1>11 DEF BlueAfter
    <3>2. ASSUME NEW x \in BlueLeft PROVE EndIn(hd', x) \notin BlueLeft
      <4>1. CASE JoinsPrev /\ x = fl.merge
        BY <4>1, <1>11, <1>13
      <4>2. CASE JoinsPrev => x # fl.merge
        BY <4>2, <1>4, <1>14
      <4>3. QED
        BY <4>1, <4>2
    <3>3. QED
      BY <3>1, <3>2 DEF Apart
  <2>3. QED
    BY <2>1, <2>2
<1>16. MergePoint(hd', fl', gc_sweep_hp')
  <2>1. CASE StaysFree
    <3>1. fl'.merge = MergedAt /\ BlueIn(hd') = BlueLeft \cup {MergedAt}
      BY <2>1, <1>9, <1>11 DEF BlueAfter
    <3>2. MergedAt < gc_sweep_hp'
      BY <1>4
    <3>3. ASSUME NEW x \in BlueLeft, x < gc_sweep_hp' PROVE x <= MergedAt
      BY <3>3, <1>4
    <3>4. MergedAt <= MergedAt
      BY <1>4
    <3>5. QED
      BY <3>1, <3>2, <3>3, <3>4 DEF MergePoint
  <2>2. CASE ~StaysFree
    <3>1. fl'.merge = fl.merge /\ BlueIn(hd') = BlueLeft
      BY <2>2, <1>9, <1>11 DEF BlueAfter
    <3>2. fl.merge < gc_sweep_hp'
      BY <1>4
    <3>3. ASSUME NEW x \in BlueLeft, x < gc_sweep_hp' PROVE x <= fl.merge
      BY <3>3, <1>4
    <3>4. QED
      BY <3>1, <3>2, <3>3 DEF MergePoint
  <2>3. QED
    BY <2>1, <2>2
<1>17. QED
  BY <1>10, <1>15, <1>16 DEF OrderOK

-----------------------------------------------------------------------------
(* The list at each step                                                   *)

\* Allocating from the list h and l, in the terms of the code.
LEMMA AllocateBlockSound ==
  ASSUME NEW STATE h, NEW STATE l, NEW STATE C,
         HeapOK(h, l, C, live, gc_phase, gc_sweep_hp),
         NEW wo \in 1 .. MaxRequest, NEW STATE prev, prev \in fl_allocate(l, h, wo),
         allocate_block(l, h, prev, wo)
  PROVE  /\ SizeOK(h, l) => SizeOK(hd', fl')
         /\ OrderOK(h, l, gc_phase, gc_sweep_hp) => OrderOK(hd', fl', gc_phase, gc_sweep_hp)
<1> DEFINE cur   == l.next[prev]
           hp    == Place_in(h, cur, wo)
           color == allocation_color(hp)
<1>1. wo \in Nat /\ wo > 0
  BY RequestAssumption
<1>2. hd' = Cut(h, cur, wo, color) /\ fl' = Taken_from(l, h, prev, wo)
  BY DEF allocate_block, Cut, Taken_from, Shrunk, Rest, Place_in
<1>3. color \in {"white", "black"}
  BY DEF allocation_color
<1>4. Tiling(h, C) /\ FlType(l, BlueIn(h)) /\ gc_sweep_hp \in Int
  BY DEF HeapOK, SweepOK
<1> HIDE DEF color
<1>5. ASSUME SizeOK(h, l) PROVE SizeOK(hd', fl')
  <2>1. SizeOK(Cut(h, l.next[prev], wo, color), Taken_from(l, h, prev, wo))
    BY <1>1, <1>3, <1>4, <1>5, AllocateSize
  <2>2. QED
    BY <2>1, <1>2
<1>6. ASSUME OrderOK(h, l, gc_phase, gc_sweep_hp)
      PROVE  OrderOK(hd', fl', gc_phase, gc_sweep_hp)
  <2>1. OrderOK(Cut(h, l.next[prev], wo, color), Taken_from(l, h, prev, wo), gc_phase, gc_sweep_hp)
    BY <1>1, <1>3, <1>4, <1>6, AllocateOrder
  <2>2. QED
    BY <2>1, <1>2
<1>7. QED
  BY <1>5, <1>6

SizeInv  == SizeOK(hd, fl)
OrderInv == OrderOK(hd, fl, gc_phase, gc_sweep_hp)

\* The heap and the list that alloc_shr goes on with after it has added a chunk.
LEMMA GrownOK ==
  ASSUME HeapInv, NEW wo \in 1 .. MaxRequest, NEW c \in expand_heap(wo), NEW p \in Place(c)
  PROVE  HeapOK(With(hd, c, Header(Chunk_size[c] - 1, "blue")), fl_add_block(c, p),
                heap \cup {c}, live, gc_phase, gc_sweep_hp)
<1> DEFINE merge == IF c < fl_last /\ p = fl.merge /\ c < gc_sweep_hp THEN c ELSE fl.merge
           l     == fl_add_block(c, p)
<1>1. c \in DOMAIN Chunk_size \ heap /\ p \in DOMAIN fl.next
  BY DEF expand_heap, Place
<1>2. merge \in {fl.merge, c}
  OBVIOUS
<1>3. l = [fl EXCEPT !.next = Link(@, p, c), !.cur_size = @ + Chunk_size[c], !.merge = merge]
  BY DEF fl_add_block
<1> HIDE DEF merge, l
<1>4. PICK f, m, mg, h : f = fl /\ m = l /\ mg = merge /\ h = hd
  OBVIOUS
<1>5. /\ HeapOK(h, f, heap, live, gc_phase, gc_sweep_hp)
      /\ p \in DOMAIN f.next /\ mg \in {f.merge, c}
      /\ m = [f EXCEPT !.next = Link(@, p, c), !.cur_size = @ + Chunk_size[c], !.merge = mg]
  BY <1>1, <1>2, <1>3, <1>4 DEF HeapInv
<1>6. HeapOK(With(h, c, Header(Chunk_size[c] - 1, "blue")), m,
             heap \cup {c}, live, gc_phase, gc_sweep_hp)
  BY ONLY <1>1, <1>5, AddBlockOK, Zenon
<1>7. QED
  BY <1>4, <1>6 DEF l

LEMMA AllocSize ==
  ASSUME HeapInv, SizeInv, NEW wo \in 1 .. MaxRequest, alloc_shr(wo) PROVE SizeInv'
<1>1. ASSUME NEW prev \in fl_allocate(fl, hd, wo), allocate_block(fl, hd, prev, wo) PROVE SizeInv'
  BY <1>1, AllocateBlockSound DEF HeapInv, SizeInv
<1>2. ASSUME NEW c \in expand_heap(wo), NEW p \in Place(c),
             NEW prev \in fl_allocate(fl_add_block(c, p), With(hd, c, Header(Chunk_size[c] - 1, "blue")), wo),
             allocate_block(fl_add_block(c, p), With(hd, c, Header(Chunk_size[c] - 1, "blue")), prev, wo)
      PROVE  SizeInv'
  <2> DEFINE l == fl_add_block(c, p)
             h == With(hd, c, Header(Chunk_size[c] - 1, "blue"))
             C == heap \cup {c}
  <2>1. HeapOK(h, l, C, live, gc_phase, gc_sweep_hp)
    BY GrownOK
  <2>2. SizeOK(h, l)
    BY AddSize DEF SizeInv
  <2> HIDE DEF l, h, C
  <2>3. prev \in fl_allocate(l, h, wo) /\ allocate_block(l, h, prev, wo)
    BY <1>2 DEF l, h
  <2>4. QED
    BY <2>1, <2>2, <2>3, AllocateBlockSound DEF SizeInv
<1>3. QED
  BY <1>1, <1>2 DEF alloc_shr

LEMMA AllocOrder ==
  ASSUME HeapInv, OrderInv, NEW wo \in 1 .. MaxRequest, alloc_shr(wo), ~grewBehind' PROVE OrderInv'
<1>1. gc_phase' = gc_phase /\ gc_sweep_hp' = gc_sweep_hp
  BY DEF alloc_shr
<1>2. ASSUME NEW prev \in fl_allocate(fl, hd, wo), allocate_block(fl, hd, prev, wo) PROVE OrderInv'
  <2>1. OrderOK(hd', fl', gc_phase, gc_sweep_hp)
    BY <1>2, AllocateBlockSound DEF HeapInv, OrderInv
  <2>2. QED
    BY <2>1, <1>1 DEF OrderInv
<1>3. ASSUME NEW c \in expand_heap(wo), NEW p \in Place(c),
             NEW prev \in fl_allocate(fl_add_block(c, p), With(hd, c, Header(Chunk_size[c] - 1, "blue")), wo),
             allocate_block(fl_add_block(c, p), With(hd, c, Header(Chunk_size[c] - 1, "blue")), prev, wo),
             ~AddsBehind(c)
      PROVE  OrderInv'
  <2> DEFINE l == fl_add_block(c, p)
             h == With(hd, c, Header(Chunk_size[c] - 1, "blue"))
             C == heap \cup {c}
  <2>1. HeapOK(h, l, C, live, gc_phase, gc_sweep_hp)
    BY GrownOK
  <2>2. OrderOK(h, l, gc_phase, gc_sweep_hp)
    BY <1>3, AddOrder DEF OrderInv
  <2> HIDE DEF l, h, C
  <2>3. prev \in fl_allocate(l, h, wo) /\ allocate_block(l, h, prev, wo)
    BY <1>3 DEF l, h
  <2>4. OrderOK(hd', fl', gc_phase, gc_sweep_hp)
    BY <2>1, <2>2, <2>3, AllocateBlockSound
  <2>5. QED
    BY <2>4, <1>1 DEF OrderInv
<1>4. ASSUME NEW c, grewBehind' = (grewBehind \/ AddsBehind(c)) PROVE ~AddsBehind(c)
  BY <1>4, Zenon
<1>5. QED
  BY <1>2, <1>3, <1>4 DEF alloc_shr

\* Steps that leave the free blocks and the list alone.
LEMMA SameSize ==
  ASSUME HeapInv, SizeInv, SameFree, fl'.cur_size = fl.cur_size PROVE SizeInv'
<1>1. PICK g : g = hd'
  OBVIOUS
<1>2. IsFiniteSet(BlueIn(hd))
  BY FinitelyMany DEF HeapInv, HeapOK
<1>3. BlueIn(g) = BlueIn(hd) /\ \A x \in BlueIn(hd) : g[x].wosize = hd[x].wosize
  BY <1>1 DEF SameFree
<1>4. Total(g, BlueIn(hd)) = Total(hd, BlueIn(hd))
  BY <1>2, <1>3, TotalAgrees
<1>5. Room(hd) /\ fl.cur_size = Total(hd, BlueIn(hd))
  BY DEF SizeInv, SizeOK
<1>6. Room(g) /\ fl'.cur_size = Total(g, BlueIn(g))
  BY <1>3, <1>4, <1>5 DEF Room
<1>7. QED
  BY <1>1, <1>6 DEF SizeInv, SizeOK

LEMMA SameOrder ==
  ASSUME OrderInv, SameFree, fl'.next = fl.next,
         gc_phase' = "sweep" => MergePoint(hd', fl', gc_sweep_hp')
  PROVE  OrderInv'
<1>1. Apart(hd')
  BY DEF SameFree, OrderInv, OrderOK, Apart, EndIn
<1>2. Sorted(fl'.next)
  BY DEF OrderInv, OrderOK
<1>3. QED
  BY <1>1, <1>2 DEF OrderInv, OrderOK

\* The steps that do not move the list.
LEMMA SizeStep ==
  ASSUME HeapInv, SizeInv, [Next]_vars PROVE SizeInv'
<1>1. ASSUME NEW wo \in 1 .. MaxRequest, alloc_shr(wo) PROVE SizeInv'
  BY <1>1, AllocSize
<1>2. ASSUME NEW b \in DOMAIN live, NEW wo \in 1 .. MaxRequest, Truncate(b, wo) PROVE SizeInv'
  <2>1. SameFree
    BY <1>2, TruncateKeeps
  <2>2. fl'.cur_size = fl.cur_size
    BY <1>2 DEF Truncate
  <2>3. QED
    BY <2>1, <2>2, SameSize
<1>3. CASE hd' = hd /\ fl' = fl
  BY <1>3 DEF SizeInv
<1>4. CASE StartSweep
  <2>1. SameFree
    BY <1>4, StartSweepKeeps
  <2>2. fl'.cur_size = fl.cur_size
    <3>1. fl \in FlSet([BlueIn(hd) \cup {Fl_head} -> BlueIn(hd) \cup {NULL}], BlueIn(hd) \cup {Fl_head})
      BY DEF HeapInv, HeapOK, FlType
    <3>2. QED
      BY <3>1, <1>4 DEF StartSweep, fl_init_merge, FlSet
  <2>3. QED
    BY <2>1, <2>2, SameSize
<1>5. CASE SweepWhite
  BY <1>5, SweepWhiteSize DEF SizeInv
<1>6. CASE SweepBlue
  <2>1. hd' = hd /\ fl'.cur_size = fl.cur_size
    <3>1. fl \in FlSet([BlueIn(hd) \cup {Fl_head} -> BlueIn(hd) \cup {NULL}], BlueIn(hd) \cup {Fl_head})
      BY DEF HeapInv, HeapOK, FlType
    <3>2. QED
      BY <3>1, <1>6 DEF SweepBlue, FlSet
  <2>2. QED
    BY <2>1 DEF SizeInv, SizeOK
<1>7. CASE SweepBlack
  <2>1. SameFree
    BY <1>7, SweepBlackKeeps
  <2>2. fl'.cur_size = fl.cur_size
    BY <1>7 DEF SweepBlack
  <2>3. QED
    BY <2>1, <2>2, SameSize
<1>8. start_cycle \/ NextChunk \/ UNCHANGED vars => hd' = hd /\ fl' = fl
  BY DEF start_cycle, NextChunk, vars
<1>9. QED
  BY <1>1, <1>2, <1>3, <1>4, <1>5, <1>6, <1>7, <1>8 DEF Next, Mutator, sweep_slice

\* No block is below the first chunk, and none is between the end of a chunk and the next one.
LEMMA BlockChunk ==
  ASSUME HeapInv, NEW b \in DOMAIN hd
  PROVE  b \in Nat /\ \E c \in heap : c \in Nat /\ c <= b /\ b < Limit(c) /\ Limit(c) \in Nat
<1>1. Tiling(hd, heap)
  BY DEF HeapInv, HeapOK
<1>2. b \in Nat /\ EndIn(hd, b) \in Nat /\ b < EndIn(hd, b)
  BY <1>1, TilingTypes
<1>3. PICK c \in heap : c <= b /\ (EndIn(hd, b) = Limit(c) \/ EndIn(hd, b) < Limit(c))
  BY <1>1 DEF Tiling
<1>4. c \in Nat /\ Limit(c) \in Nat
  BY <1>1, ChunkTypes DEF Tiling
<1>5. QED
  BY <1>2, <1>3, <1>4

LEMMA MergeIsNat ==
  ASSUME HeapInv PROVE fl.merge \in Nat
<1>1. Tiling(hd, heap) /\ FlType(fl, BlueIn(hd))
  BY DEF HeapInv, HeapOK
<1>2. BlueIn(hd) \subseteq Nat /\ fl.merge \in BlueIn(hd) \cup {Fl_head}
  BY <1>1, ListTypes
<1>3. QED
  BY <1>2 DEF Fl_head

\* The sweep begins below all free blocks.
LEMMA StartSweepOrder ==
  ASSUME HeapInv, OrderInv, StartSweep PROVE OrderInv'
<1>1. SameFree
  BY StartSweepKeeps
<1>2. fl'.next = fl.next /\ fl'.merge = Fl_head
  <2>1. fl \in FlSet([BlueIn(hd) \cup {Fl_head} -> BlueIn(hd) \cup {NULL}], BlueIn(hd) \cup {Fl_head})
    BY DEF HeapInv, HeapOK, FlType
  <2>2. QED
    BY <2>1 DEF StartSweep, fl_init_merge, FlSet
<1>3. gc_sweep_hp' \in heap /\ IsLeast(gc_sweep_hp', heap)
  BY DEF StartSweep
<1>4. gc_sweep_hp' \in Nat /\ gc_sweep_hp' > 0
  BY <1>3, ChunkTypes DEF HeapInv, HeapOK, Tiling
<1>5. ASSUME NEW b \in BlueIn(hd) PROVE ~(b < gc_sweep_hp')
  <2>1. PICK c \in heap : c \in Nat /\ c <= b /\ b \in Nat
    BY BlockChunk DEF BlueIn
  <2>2. QED
    BY <2>1, <1>3, <1>4 DEF IsLeast
<1>6. MergePoint(hd', fl', gc_sweep_hp')
  BY <1>1, <1>2, <1>4, <1>5 DEF MergePoint, SameFree, Fl_head
<1>7. QED
  BY <1>1, <1>2, <1>6, SameOrder

\* fl_merge goes with the sweep past a free block.
LEMMA SweepBlueOrder ==
  ASSUME HeapInv, OrderInv, SweepBlue PROVE OrderInv'
<1> DEFINE b == gc_sweep_hp
<1>1. Tiling(hd, heap) /\ b \in DOMAIN hd /\ gc_sweep_hp' = EndIn(hd, b) /\ hd' = hd
  BY SweepAtBlock DEF HeapInv, HeapOK, SweepBlue, End
<1>2. b \in Nat /\ EndIn(hd, b) \in Nat /\ b < EndIn(hd, b)
  BY <1>1, TilingTypes
<1>3. fl'.next = fl.next /\ fl'.merge = b
  <2>1. fl \in FlSet([BlueIn(hd) \cup {Fl_head} -> BlueIn(hd) \cup {NULL}], BlueIn(hd) \cup {Fl_head})
    BY DEF HeapInv, HeapOK, FlType
  <2>2. QED
    BY <2>1 DEF SweepBlue, FlSet
<1>4. ASSUME NEW x \in BlueIn(hd), x < EndIn(hd, b) PROVE x <= b
  <2>1. x \in DOMAIN hd /\ x \in Nat
    BY <1>1, TilingTypes DEF BlueIn
  <2>2. ~(b < x)
    BY <2>1, <1>1, <1>2, <1>4 DEF Tiling
  <2>3. QED
    BY <2>1, <2>2, <1>2
<1>5. MergePoint(hd', fl', gc_sweep_hp')
  BY <1>1, <1>2, <1>3, <1>4 DEF MergePoint
<1>6. SameFree
  BY <1>1 DEF SameFree
<1>7. QED
  BY <1>3, <1>5, <1>6, SameOrder

\* There is no free block in a block in use.
LEMMA SweepBlackOrder ==
  ASSUME HeapInv, OrderInv, SweepBlack PROVE OrderInv'
<1> DEFINE b == gc_sweep_hp
<1>1. /\ Tiling(hd, heap) /\ FlType(fl, BlueIn(hd)) /\ b \in DOMAIN hd /\ hd[b].color = "black"
      /\ gc_sweep_hp' = EndIn(hd, b) /\ fl' = fl
  BY SweepAtBlock DEF HeapInv, HeapOK, SweepBlack, End
<1>2. b \in Nat /\ EndIn(hd, b) \in Nat /\ b < EndIn(hd, b) /\ b \notin BlueIn(hd)
  BY <1>1, TilingTypes DEF BlueIn
<1>3. MergePoint(hd, fl, b)
  BY DEF OrderInv, OrderOK, SweepBlack, Sweeping
<1>4. fl.merge \in Nat
  BY MergeIsNat
<1>5. ASSUME NEW x \in BlueIn(hd), x < EndIn(hd, b) PROVE x <= fl.merge
  <2>1. x \in DOMAIN hd /\ x \in Nat /\ x # b
    BY <1>1, <1>2, TilingTypes DEF BlueIn
  <2>2. ~(b < x)
    BY <2>1, <1>1, <1>2, <1>5 DEF Tiling
  <2>3. x < b
    BY <2>1, <2>2, <1>2
  <2>4. QED
    BY <2>3, <1>3 DEF MergePoint
<1>6. SameFree
  BY SweepBlackKeeps
<1>7. MergePoint(hd', fl', gc_sweep_hp')
  BY <1>1, <1>2, <1>3, <1>4, <1>5, <1>6 DEF MergePoint, SameFree
<1>8. QED
  BY <1>1, <1>6, <1>7, SameOrder

\* Nor between two chunks.
LEMMA NextChunkOrder ==
  ASSUME HeapInv, OrderInv, NextChunk PROVE OrderInv'
<1>1. hd' = hd /\ fl' = fl /\ SameFree
  BY DEF NextChunk, SameFree
<1>2. CASE gc_phase' = "idle"
  BY <1>1, <1>2, SameOrder
<1>3. CASE /\ gc_sweep_hp' \in heap /\ gc_sweep_hp' > gc_sweep_hp
           /\ \A c \in heap : c > gc_sweep_hp => gc_sweep_hp' <= c
  <2>1. Tiling(hd, heap) /\ FlType(fl, BlueIn(hd)) /\ gc_sweep_hp \in Nat
    BY SweepPointer DEF HeapInv, HeapOK, NextChunk
  <2>2. gc_sweep_hp' \in Nat /\ fl.merge \in Nat
    BY <1>3, <2>1, ChunkTypes, MergeIsNat DEF Tiling
  <2>3. MergePoint(hd, fl, gc_sweep_hp)
    BY DEF OrderInv, OrderOK, NextChunk
  <2>4. \E d \in heap : gc_sweep_hp = Limit(d)
    <3>1. gc_sweep_hp = Limit(chunk)
      BY DEF NextChunk
    <3>2. \E c \in heap : c <= gc_sweep_hp /\ gc_sweep_hp <= Limit(c)
      <4>1. gc_sweep_hp \in DOMAIN hd \cup {Limit(c) : c \in heap}
        BY DEF HeapInv, HeapOK, SweepOK, NextChunk
      <4>2. CASE gc_sweep_hp \in DOMAIN hd
        BY <4>2, BlockChunk
      <4>3. CASE gc_sweep_hp \notin DOMAIN hd
        <5>1. PICK c \in heap : gc_sweep_hp = Limit(c)
          BY <4>1, <4>3
        <5>2. c \in Nat /\ Limit(c) \in Nat /\ c <= Limit(c)
          BY <2>1, ChunkTypes DEF Tiling
        <5>3. QED
          BY <5>1, <5>2
      <4>4. QED
        BY <4>2, <4>3
    <3>3. chunk \in heap
      BY <3>2 DEF chunk
    <3>4. QED
      BY <3>1, <3>3
  <2>5. PICK d \in heap : gc_sweep_hp = Limit(d)
    BY <2>4
  <2>6. ASSUME NEW x \in BlueIn(hd), x < gc_sweep_hp' PROVE x <= fl.merge
    <3>1. PICK c \in heap : c \in Nat /\ c <= x /\ x < Limit(c) /\ Limit(c) \in Nat /\ x \in Nat
      BY BlockChunk DEF BlueIn
    <3>2. ~(c > gc_sweep_hp)
      BY <3>1, <2>2, <2>6, <1>3
    <3>3. x < gc_sweep_hp
      <4>1. SUFFICES ASSUME ~(x < gc_sweep_hp) PROVE FALSE
        OBVIOUS
      <4>2. c <= gc_sweep_hp /\ gc_sweep_hp <= Limit(c)
        BY <4>1, <3>1, <3>2, <2>1
      <4>3. c \in DOMAIN Chunk_size /\ d \in DOMAIN Chunk_size
        BY <2>1 DEF Tiling
      <4>4. d <= Limit(d) /\ Limit(d) \in Nat /\ d \in Nat
        BY <4>3, ChunkTypes
      <4>5. c = d
        BY <4>2, <4>3, <4>4, <2>5, OneChunk
      <4>6. QED
        BY <4>1, <4>5, <3>1, <2>5
    <3>4. QED
      BY <3>3, <2>3 DEF MergePoint
  <2>7. fl.merge < gc_sweep_hp'
    BY <2>1, <2>2, <2>3, <1>3 DEF MergePoint
  <2>8. MergePoint(hd', fl', gc_sweep_hp')
    BY <2>6, <2>7, <1>1 DEF MergePoint
  <2>9. QED
    BY <2>8, <1>1, SameOrder
<1>4. QED
  BY <1>2, <1>3 DEF NextChunk, IsLeast

\* The list stays in order in every step that does not append a chunk behind the sweep.
LEMMA OrderStep ==
  ASSUME HeapInv, OrderInv, [Next]_vars, ~grewBehind' PROVE OrderInv'
<1>1. ASSUME NEW wo \in 1 .. MaxRequest, alloc_shr(wo) PROVE OrderInv'
  BY <1>1, AllocOrder
<1>2. ASSUME NEW b \in DOMAIN live, NEW wo \in 1 .. MaxRequest, Truncate(b, wo) PROVE OrderInv'
  <2>1. SameFree
    BY <1>2, TruncateKeeps
  <2>2. fl' = fl /\ gc_phase' = gc_phase /\ gc_sweep_hp' = gc_sweep_hp
    BY <1>2 DEF Truncate
  <2>3. gc_phase' = "sweep" => MergePoint(hd', fl', gc_sweep_hp')
    BY <2>1, <2>2 DEF OrderInv, OrderOK, MergePoint, SameFree
  <2>4. QED
    BY <2>1, <2>2, <2>3, SameOrder
<1>3. CASE start_cycle
  BY <1>3, SameOrder DEF start_cycle, SameFree
<1>4. CASE StartSweep
  BY <1>4, StartSweepOrder
<1>5. CASE SweepWhite
  <2>1. OrderOK(hd, fl, "sweep", gc_sweep_hp) /\ gc_phase' = "sweep"
    BY <1>5 DEF OrderInv, OrderOK, SweepWhite, Sweeping
  <2>2. OrderOK(hd', fl', "sweep", gc_sweep_hp')
    BY <2>1, <1>5, SweepWhiteOrder
  <2>3. QED
    BY <2>1, <2>2 DEF OrderInv
<1>6. CASE SweepBlue
  BY <1>6, SweepBlueOrder
<1>7. CASE SweepBlack
  BY <1>7, SweepBlackOrder
<1>8. CASE NextChunk
  BY <1>8, NextChunkOrder
<1>9. CASE UNCHANGED vars
  BY <1>9 DEF vars, OrderInv
<1>10. QED
  BY <1>1, <1>2, <1>3, <1>4, <1>5, <1>6, <1>7, <1>8, <1>9 DEF Next, Mutator, sweep_slice

\* A chunk that was appended behind the sweep is never forgotten.
LEMMA StaysGrown ==
  ASSUME [Next]_vars, ~grewBehind' PROVE ~grewBehind
<1>1. ASSUME NEW c, grewBehind' = (grewBehind \/ AddsBehind(c)) PROVE ~grewBehind
  BY <1>1, Zenon
<1>2. CASE grewBehind' = grewBehind
  BY <1>2, Zenon
<1>3. ASSUME NEW wo \in 1 .. MaxRequest, alloc_shr(wo) PROVE ~grewBehind
  BY <1>1, <1>2, <1>3 DEF alloc_shr
<1>4. grewBehind' = grewBehind \/ \E wo \in 1 .. MaxRequest : alloc_shr(wo)
  BY DEF Next, vars, Mutator, Truncate, start_cycle, StartSweep, sweep_slice, SweepWhite, SweepBlue,
         SweepBlack, NextChunk
<1>5. QED
  BY <1>2, <1>3, <1>4

-----------------------------------------------------------------------------
(* The list at the beginning                                               *)

LEMMA InitSound ==
  ASSUME Init PROVE SizeInv /\ OrderInv
<1>1. PICK c \in Chunk_first :
        /\ heap = {c}
        /\ hd = [b \in {c} |-> Header(Chunk_size[c] - 1, "blue")]
        /\ fl = [next |-> [p \in {Fl_head, c} |-> IF p = c THEN NULL ELSE c],
                 prev |-> Fl_head, merge |-> c, cur_size |-> Chunk_size[c],
                 last_fragment |-> NULL]
        /\ gc_phase = "idle"
  BY DEF Init
<1>2. c \in DOMAIN Chunk_size /\ c \in Nat /\ c > 0 /\ Chunk_size[c] \in Nat /\ Limit(c) > c + 1
  BY ChunkAssumption, ChunkTypes
<1>3. BlueIn(hd) = {c} /\ hd[c].wosize = Chunk_size[c] - 1 /\ Chunk_size[c] > 1
  BY <1>1, <1>2 DEF BlueIn, Header, Limit
<1>4. Total(hd, {c}) = Chunk_size[c]
  <2>1. IsFiniteSet({c}) /\ \A y \in {c} : hd[y].wosize \in Int
    BY <1>2, <1>3, FS_Singleton
  <2>2. Total(hd, {c}) = hd[c].wosize + 1 + Total(hd, {c} \ {c})
    BY <2>1, TotalTakes
  <2>3. {c} \ {c} = {}
    OBVIOUS
  <2>4. Total(hd, {c} \ {c}) = 0
    BY <2>3, TotalOfNone
  <2>5. QED
    BY <2>2, <2>4, <1>2, <1>3
<1>5. SizeInv
  <2>1. fl.cur_size = Chunk_size[c]
    BY <1>1
  <2>2. Room(hd)
    BY <1>2, <1>3 DEF Room
  <2>3. QED
    BY <2>1, <2>2, <1>3, <1>4 DEF SizeInv, SizeOK
<1>6. EndIn(hd, c) # c
  BY <1>2, <1>3 DEF EndIn
<1>7. Sorted(fl.next)
  BY <1>1, <1>2 DEF Sorted, Fl_head
<1>8. OrderInv
  BY <1>1, <1>3, <1>6, <1>7 DEF OrderInv, OrderOK, Apart
<1>9. QED
  BY <1>5, <1>8

-----------------------------------------------------------------------------
(* The theorems about the list                                             *)

\* A walk from the head of the list comes to every free block, by a single way.
LEMMA WalkReaches ==
  ASSUME HeapInv
  PROVE  /\ DOMAIN fl.next = BlueIn(hd) \cup {Fl_head}
         /\ \A b \in BlueIn(hd) : Walk(fl.next, {b})[Fl_head] = b
         /\ \A p, q \in DOMAIN fl.next : fl.next[p] = fl.next[q] => p = q
<1> DEFINE B    == BlueIn(hd)
           D    == BlueIn(hd) \cup {Fl_head}
           next == fl.next
<1>1. Tiling(hd, heap) /\ FlType(fl, B)
  BY DEF HeapInv, HeapOK
<1>2. DOMAIN next = D /\ next \in [D -> B \cup {NULL}] /\ IsList(next, B)
  BY <1>1, ListTypes
<1>3. PICK rank : Ranks(rank, next, B)
  BY <1>2 DEF IsList
<1>4. /\ rank \in [D -> Nat] /\ rank[Fl_head] = 0
      /\ \A p, q \in D : rank[p] = rank[q] => p = q
      /\ \A p \in D : next[p] = NULL => \A q \in D : rank[q] <= rank[p]
      /\ \A p \in D : next[p] # NULL => next[p] \in D /\ rank[next[p]] = rank[p] + 1
  BY <1>2, <1>3, RankFacts DEF Ranks
<1> HIDE DEF next
<1>5. ASSUME NEW b \in B PROVE Walk(next, {b})[Fl_head] = b
  <2> DEFINE e == Walk(next, {b})[Fl_head]
  <2>1. \A p \in DOMAIN next : Ends(rank, next, {b}, p, Walk(next, {b})[p])
    BY <1>2, <1>3, WalkEnds
  <2>2. Ends(rank, next, {b}, Fl_head, e)
    BY <2>1, <1>2
  <2> HIDE DEF e
  <2>3. /\ e \in D /\ (e = b \/ next[e] = NULL)
        /\ \A q \in D : rank[Fl_head] <= rank[q] /\ rank[q] < rank[e] => q # b
    BY <2>2, <1>2 DEF Ends
  <2>4. CASE next[e] = NULL
    <3>1. rank[b] <= rank[e] /\ rank[b] \in Nat /\ rank[e] \in Nat /\ b \in D
      BY <2>3, <2>4, <1>4
    <3>2. ~(rank[b] < rank[e])
      BY <2>3, <3>1, <1>4
    <3>3. QED
      BY <3>1, <3>2, <2>3, <1>4 DEF e
  <2>5. QED
    BY <2>3, <2>4 DEF e
<1>6. ASSUME NEW p \in D, NEW q \in D, next[p] = next[q] PROVE p = q
  <2>1. CASE next[p] = NULL
    <3>1. rank[p] <= rank[q] /\ rank[q] <= rank[p] /\ rank[p] \in Nat /\ rank[q] \in Nat
      BY <2>1, <1>4, <1>6
    <3>2. QED
      BY <3>1, <1>4
  <2>2. CASE next[p] # NULL
    <3>1. rank[p] + 1 = rank[q] + 1 /\ rank[p] \in Nat /\ rank[q] \in Nat
      BY <2>2, <1>4, <1>6
    <3>2. QED
      BY <3>1, <1>4
  <2>3. QED
    BY <2>1, <2>2
<1>7. QED
  BY <1>2, <1>5, <1>6 DEF next

OrderUnlessGrown == grewBehind \/ OrderInv

LEMMA SoundList ==
  ASSUME HeapInv, SizeInv, OrderUnlessGrown PROVE ListSound
<1>1. Colored("blue") = BlueIn(hd)
  BY DEF Colored, BlueIn
<1>2. ListIsBlue
  <2>1. /\ DOMAIN fl.next = BlueIn(hd) \cup {Fl_head}
        /\ \A b \in BlueIn(hd) : Walk(fl.next, {b})[Fl_head] = b
        /\ \A p, q \in DOMAIN fl.next : fl.next[p] = fl.next[q] => p = q
    BY WalkReaches
  <2>2. \A b \in BlueIn(hd) : hd[b].wosize > 0
    BY DEF SizeInv, SizeOK, Room
  <2>3. fl.cur_size = MapThenSumSet(Whsize, BlueIn(hd))
    <3>1. Total(hd, BlueIn(hd)) = MapThenSumSet(Whsize, BlueIn(hd))
      BY DEF Total, MapThenSumSet, MapThenFoldSet, Whsize
    <3>2. QED
      BY <3>1 DEF SizeInv, SizeOK
  <2>4. QED
    BY <2>1, <2>2, <2>3, <1>1 DEF ListIsBlue
<1>3. ASSUME OrderInv PROVE ListSorted
  BY <1>3 DEF OrderInv, OrderOK, Sorted, ListSorted
<1>4. ASSUME OrderInv, gc_phase = "sweep"
      PROVE  fl.merge = Max({Fl_head} \cup {b \in Colored("blue") : b < gc_sweep_hp})
  <2> DEFINE S == {Fl_head} \cup {b \in BlueIn(hd) : b < gc_sweep_hp}
  <2>1. MergePoint(hd, fl, gc_sweep_hp)
    BY <1>4 DEF OrderInv, OrderOK
  <2>2. Tiling(hd, heap) /\ FlType(fl, BlueIn(hd))
    BY DEF HeapInv, HeapOK
  <2>3. BlueIn(hd) \subseteq Nat /\ fl.merge \in BlueIn(hd) \cup {Fl_head}
    BY <2>2, ListTypes
  <2>4. S \subseteq Nat /\ fl.merge \in S /\ \A y \in S : fl.merge >= y
    BY <2>1, <2>3 DEF MergePoint, Fl_head
  <2> HIDE DEF S
  <2>5. ASSUME NEW x \in S, \A y \in S : x >= y PROVE x = fl.merge
    <3>1. x >= fl.merge /\ fl.merge >= x /\ x \in Nat /\ fl.merge \in Nat
      BY <2>4, <2>5
    <3>2. QED
      BY <3>1
  <2>6. fl.merge = Max(S)
    BY <2>4, <2>5 DEF Max
  <2>7. QED
    BY <2>6, <1>1 DEF S
<1>5. ASSUME OrderInv PROVE \A b \in Colored("blue") : End(b) \notin Colored("blue")
  BY <1>1, <1>5 DEF OrderInv, OrderOK, Apart, End
<1>6. SortedForMerging
  BY <1>3, <1>4, Zenon DEF SortedForMerging, OrderUnlessGrown
<1>7. Merged
  BY <1>5, Zenon DEF Merged, OrderUnlessGrown
<1>8. QED
  BY <1>2, <1>6, <1>7 DEF ListSound

\* The free list survives every order of allocating, cutting short, sweeping and growing, for
\* any chunks (freelist.c 99-288): it is the free blocks and their size, it is sorted, fl_merge
\* is where the sweep inserts, and no free blocks are left unmerged.
THEOREM FreeListSound == Spec => []ListSound
<1>1. Init => SizeInv /\ OrderUnlessGrown
  BY InitSound, Zenon DEF OrderUnlessGrown
<1>2. HeapInv /\ SizeInv /\ [Next]_vars => SizeInv'
  BY SizeStep
<1>3. HeapInv /\ OrderUnlessGrown /\ [Next]_vars => OrderUnlessGrown'
  <2>1. SUFFICES ASSUME HeapInv, OrderUnlessGrown, [Next]_vars, ~grewBehind' PROVE OrderInv'
    BY Zenon DEF OrderUnlessGrown
  <2>2. ~grewBehind
    BY <2>1, StaysGrown
  <2>3. OrderInv
    BY <2>1, <2>2, Zenon DEF OrderUnlessGrown
  <2>4. QED
    BY <2>1, <2>3, OrderStep
<1>4. HeapInv /\ SizeInv /\ OrderUnlessGrown => ListSound
  BY SoundList
<1>5. QED
  BY <1>1, <1>2, <1>3, <1>4, HeapInvariant, PTL DEF Spec
=============================================================================

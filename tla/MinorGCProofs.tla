---------------------------- MODULE MinorGCProofs ----------------------------
(***************************************************************************)
(* What the minor collector keeps, for young areas, heaps, tables and     *)
(* programs of every size.  Two hypotheses exclude what the code does     *)
(* wrong (see the README): no large application is filled by plain stores, *)
(* and the bytes of a string do not look like the address of a young      *)
(* block.                                                                  *)
(***************************************************************************)
EXTENDS MinorGC, InductionLemmas, FiniteSetTheorems, SequenceTheorems, TLAPS

\* the cell is entered in the table
Known(c) == \E j \in DOMAIN ref_table : ref_table[j] = c

\* A heap as the program and the collections leave it.
Sound(h, f) ==
  /\ h \in [Young \cup Old -> Header] /\ f \in [Cell -> Value]
  /\ \A b \in Young \cup Old : h[b] # Forwarded
  /\ \A c \in Cell : IsYoung(f[c]) => h[f[c]] # Free /\ young_ptr <= f[c] /\ f[c] < young_end
  /\ \A c \in Cell : c[1] \in Old /\ h[c[1]] = Free => f[c] = Imm
  /\ \A c \in Cell : /\ c[1] \in Young \cup Old /\ h[c[1]].kind = "raw" /\ c[2] < h[c[1]].size
                     => f[c] \in Bytes
  /\ \A c \in Cell : c[1] \in Old /\ IsYoung(f[c]) => Known(c)
  /\ \A c \in Cell : Known(c) => h[c[1]] # Free

\* Whatever is in use has room in the major heap.
Capacity ==
  Cardinality({b \in Young : hd[b] \notin {Free, Forwarded}})
    <= Cardinality({b \in Old : hd[b] = Free})

\* the copy of a promoted block
Copy(b) == field[<<b, 0>>]

\* A young block keeps its header until it is promoted, a block of the major heap that was
\* in use for good; the others are free or copies.
HeadersKept ==
  /\ \A b \in Young : \/ hd[b] = before.hd[b]
                      \/ hd[b] = Forwarded /\ before.hd[b].kind \in {"scan", "raw"}
  /\ \A b \in Old : before.hd[b] # Free => hd[b] = before.hd[b]
  /\ \A b \in Old : before.hd[b] = Free /\ hd[b] # Free => \E a \in Promoted : Copy(a) = b

\* Each promoted block has one copy, in a block that was free; of the young area only the
\* first fields of promoted blocks are written.
CopiesMade ==
  /\ \A b \in Promoted : Copy(b) \in Old /\ before.hd[Copy(b)] = Free /\ hd[Copy(b)] = before.hd[b]
  /\ \A a, b \in Promoted : Copy(a) = Copy(b) => a = b
  /\ \A c \in Cell : IsYoung(c[1]) /\ ~(c[2] = 0 /\ c[1] \in Promoted) => field[c] = before.field[c]
  /\ \A c \in Cell : c[1] \in Old /\ before.hd[c[1]] = Free /\ c[2] >= hd[c[1]].size => field[c] = Imm

\* The cell c holds what s held when the collection began: a root or an old cell itself, or
\* a cell of a copy.
From(c, s) ==
  \/ s = c /\ (c[1] \in Root \/ (c[1] \in Old /\ before.hd[c[1]] # Free))
  \/ s[1] \in Promoted /\ c = <<Copy(s[1]), s[2]>> /\ s[2] < before.hd[s[1]].size

\* It has been given what it must hold in the end ...
Settled(c, s) ==
  /\ field[c] \in Old \cup {Imm}
  /\ field[c] = Image(before.field[s])
  /\ IsYoung(Behind(before.field[s])) => hd[Behind(before.field[s])] = Forwarded

\* ... or the collection still comes to it: in a loop over the roots or the table, or
\* when the copy is completed.
Scanned(c) ==
  /\ field[c] = before.field[c]
  /\ \/ c[1] \in Root /\ pc = "roots" /\ \E j \in k .. Len(Roots) : Roots[j] = c[1]
     \/ c[1] \in Old /\ pc = "roots" /\ Known(c)
     \/ c[1] \in Old /\ pc = "refs" /\ \E j \in k .. Len(ref_table) : ref_table[j] = c

Listed(c, s) ==
  /\ s[2] = 0 => field[c] = before.field[s]
  /\ (\E j \in DOMAIN todo : todo[j] = s[1]) \/ (s[1] = work /\ s[2] >= k)

Waits(c, s) == IF s = c THEN Scanned(c) ELSE Listed(c, s)

CellsDone ==
  \A c, s \in Cell : From(c, s) => (call # NoCall /\ P = c) \/ Settled(c, s) \/ Waits(c, s)

\* oldify_one is on its way to the block behind what the cell held, or it visits the
\* cell once more.
CallGoesOn ==
  call # NoCall =>
    /\ V \in Value
    /\ IsYoung(V) => before.hd[V] # Free /\ young_ptr <= V
    /\ \E s \in Cell : /\ From(P, s)
                       /\ \/ Behind(V) = Behind(before.field[s])
                          \/ V = field[P] /\ Settled(P, s)

ListKept ==
  /\ todo \in Seq(Young) /\ \A j \in DOMAIN todo : todo[j] \in Promoted
  /\ work # Imm => work \in Promoted /\ k < before.hd[work].size
  /\ k \in Nat
  /\ pc # "mopup" => work = Imm
  /\ pc \in {"roots", "refs"} => k > 0
  /\ pc = "emptied" => call = NoCall /\ todo = <<>>

Collecting == pc \in {"roots", "refs", "mopup", "emptied"}

CollectInv ==
  /\ Sound(before.hd, before.field)
  /\ HeadersKept /\ CopiesMade /\ CellsDone /\ CallGoesOn /\ ListKept

\* Between collections.
IdleInv ==
  /\ Sound(hd, field)
  /\ call = NoCall /\ todo = <<>> /\ work = Imm
  /\ pc = "slice" => /\ \A b \in Young : hd[b] = Free
                     /\ \A c \in Cell : ~IsYoung(field[c])
                     /\ ref_table = <<>> /\ ref_table_limit = ref_table_size

\* The inductive invariant.
HeapInv ==
  /\ TypeOK
  /\ TableInBounds /\ ref_table_size \in Nat \ {0}
  /\ Capacity
  /\ IF Collecting THEN CollectInv ELSE IdleInv

-----------------------------------------------------------------------------
(* Cells and headers                                                       *)

\* The kinds of cells and of values are disjoint.
LEMMA Places ==
  /\ Young \cap Old = {} /\ Imm \notin Young \cup Old /\ Root \cap (Young \cup Old) = {}
  /\ Value = {Imm} \cup Young \cup Old /\ Imm \in Value
  /\ NF \in Nat \ {0} /\ YoungMax \in Nat
  /\ \A b \in Young \cup Old, i \in 0 .. NF - 1 : <<b, i>> \in Cell
  /\ \A b \in Young \cup Old : <<b, 0>> \in Cell
  /\ \A r \in Root : <<r, 0>> \in Cell
  /\ \A c \in Cell : /\ c = <<c[1], c[2]>>
                     /\ \/ c[1] \in Root /\ c[2] = 0
                        \/ c[1] \in Young \cup Old /\ c[2] \in 0 .. NF - 1
<1>1. Young \cap Old = {} /\ Imm \notin Young \cup Old
  BY YoungAssumption, OldAssumption DEF Young, Imm
<1>2. Root \cap (Young \cup Old) = {}
  BY YoungAssumption, OldAssumption, RootsAssumption DEF Young, Root
<1>3. NF \in Nat \ {0} /\ YoungMax \in Nat
  BY YoungAssumption
<1>4. 0 \in 0 .. NF - 1
  BY <1>3
<1>5. QED
  BY <1>1, <1>2, <1>3, <1>4 DEF Value, Cell

\* The young area and the major heap are finite.
LEMMA FiniteHeap == IsFiniteSet(Young) /\ IsFiniteSet(Old)
  BY FS_Interval, YoungAssumption, OldAssumption DEF Young

\* A header is free, the mark of a promoted block, or has a size and a kind.
LEMMA HeaderIs ==
  /\ Free \in Header /\ Forwarded \in Header /\ Free # Forwarded
  /\ Free.size = 0 /\ Forwarded.size = 0 /\ Free.kind \notin Kinds /\ Forwarded.kind \notin Kinds
  /\ \A h \in Header : /\ h.size \in 0 .. NF
                       /\ h.kind \in Kinds <=> h # Free /\ h # Forwarded
                       /\ h.kind \in Kinds => h.size \in 1 .. NF
  /\ \A n \in 1 .. NF, kind \in Kinds : /\ [size |-> n, kind |-> kind] \in Header
                                        /\ [size |-> n, kind |-> kind].size = n
                                        /\ [size |-> n, kind |-> kind].kind = kind
<1>1. NF \in Nat \ {0}
  BY Places
<1>2. Free \in Header /\ Forwarded \in Header /\ Free # Forwarded
  BY DEF Free, Forwarded, Header
<1>3. Free.size = 0 /\ Forwarded.size = 0 /\ Free.kind \notin Kinds /\ Forwarded.kind \notin Kinds
  BY DEF Free, Forwarded, Kinds
<1>4. ASSUME NEW h \in Header
      PROVE  /\ h.size \in 0 .. NF
             /\ h.kind \in Kinds <=> h # Free /\ h # Forwarded
             /\ h.kind \in Kinds => h.size \in 1 .. NF
  <2>1. CASE h = Free \/ h = Forwarded
    BY <2>1, <1>1, <1>3
  <2>2. CASE h \in [size: 1 .. NF, kind: Kinds]
    <3>1. h.size \in 1 .. NF /\ h.kind \in Kinds
      BY <2>2
    <3>2. QED
      BY <3>1, <1>1, <1>3
  <2>3. QED
    BY <2>1, <2>2 DEF Header
<1>5. QED
  BY <1>2, <1>3, <1>4 DEF Header

-----------------------------------------------------------------------------
(* The recursive definition                                                *)

\* Behind follows the indirections of the heap before the collection.
LEMMA BehindIs ==
  ASSUME before.field \in [Cell -> Value], NEW v \in Value
  PROVE  Behind(v) = IF IsYoung(v) /\ before.hd[v].kind = "ind"
                     THEN Behind(before.field[<<v, 0>>]) ELSE v
<1> DEFINE ind  == {u \in Young : before.hd[u].kind = "ind"}
           next == [u \in ind |-> before.field[<<u, 0>>]]
           last == CHOOSE f : f = [u \in Value |->
                     IF IsYoung(u) /\ before.hd[u].kind = "ind" THEN f[before.field[<<u, 0>>]] ELSE u]
<1>1. \A u \in Young : <<u, 0>> \in Cell
  BY Places
<1>2. ind \in SUBSET Value
  BY Places
<1>3. next \in [ind -> Value]
  BY <1>1, Places
<1>4. PICK g : g = [u \in Value |-> IF u \in ind THEN g[next[u]] ELSE u]
  <2> HIDE DEF ind, next
  <2>1. \E g : Follows(g, Value, ind, next)
    BY ONLY <1>2, <1>3, FollowExists, Zenon
  <2>2. QED
    BY ONLY <2>1 DEF Follows
<1>5. g = [u \in Value |->
             IF IsYoung(u) /\ before.hd[u].kind = "ind" THEN g[before.field[<<u, 0>>]] ELSE u]
  BY <1>4 DEF IsYoung
<1>6. last = [u \in Value |->
             IF IsYoung(u) /\ before.hd[u].kind = "ind" THEN last[before.field[<<u, 0>>]] ELSE u]
  BY <1>5
<1>7. \A u \in Value : Behind(u) = last[u]
  BY DEF Behind
<1> HIDE DEF last
<1>8. IsYoung(v) => before.field[<<v, 0>>] \in Value
  BY <1>1 DEF IsYoung
<1>9. QED
  BY <1>6, <1>7, <1>8

-----------------------------------------------------------------------------
(* The reference table                                                     *)

\* The table holds old cells, has room for one more, and asks for a collection when it
\* uses its reserve.
GoodTable(t) ==
  /\ t \in [refs: Seq(Old \X (0 .. NF - 1)), size: Nat \ {0}, limit: Nat, urge: BOOLEAN]
  /\ Len(t.refs) < t.limit
  /\ t.limit \in {t.size, t.size + Reserve}
  /\ t.limit > t.size => t.urge

Entered(t, c) == \E j \in DOMAIN t.refs : t.refs[j] = c

\* realloc_ref_table makes room for one more when there is none.
LEMMA ReallocGood ==
  ASSUME NEW t \in [refs: Seq(Old \X (0 .. NF - 1)), size: Nat \ {0}, limit: Nat, urge: BOOLEAN],
         Len(t.refs) = t.limit, t.limit \in {t.size, t.size + Reserve}, t.limit > t.size => t.urge
  PROVE  GoodTable(realloc_ref_table(t)) /\ realloc_ref_table(t).refs = t.refs
<1> DEFINE u == realloc_ref_table(t)
<1>1. Reserve \in Nat \ {0}
  BY TableAssumption
<1>2. t.size \in Nat \ {0} /\ t.limit \in Nat /\ t.urge \in BOOLEAN
  OBVIOUS
<1>3. CASE t.limit = t.size
  <2>1. u = [t EXCEPT !.limit = t.size + Reserve, !.urge = TRUE]
    BY <1>3 DEF realloc_ref_table
  <2>2. /\ u.refs = t.refs /\ u.size = t.size /\ u.limit = t.size + Reserve /\ u.urge = TRUE
        /\ u \in [refs: Seq(Old \X (0 .. NF - 1)), size: Nat \ {0}, limit: Nat, urge: BOOLEAN]
    <3>1. t.size + Reserve \in Nat /\ TRUE \in BOOLEAN
      BY <1>1, <1>2
    <3>2. u.refs = t.refs /\ u.size = t.size /\ u.limit = t.size + Reserve /\ u.urge = TRUE
      BY <2>1
    <3>3. u \in [refs: Seq(Old \X (0 .. NF - 1)), size: Nat \ {0}, limit: Nat, urge: BOOLEAN]
      BY <2>1, <3>1
    <3>4. QED
      BY <3>2, <3>3
  <2> HIDE DEF u
  <2>3. GoodTable(u)
    BY <2>2, <1>1, <1>2, <1>3 DEF GoodTable
  <2>4. QED
    BY <2>2, <2>3 DEF u
<1>4. CASE t.limit # t.size
  <2>1. u = [t EXCEPT !.size = 2 * t.size, !.limit = 2 * t.size + Reserve]
    BY <1>4 DEF realloc_ref_table
  <2>2. /\ u.refs = t.refs /\ u.size = 2 * t.size /\ u.limit = 2 * t.size + Reserve /\ u.urge = t.urge
        /\ u \in [refs: Seq(Old \X (0 .. NF - 1)), size: Nat \ {0}, limit: Nat, urge: BOOLEAN]
    <3>1. 2 * t.size \in Nat \ {0} /\ 2 * t.size + Reserve \in Nat
      BY <1>1, <1>2
    <3>2. u.refs = t.refs /\ u.size = 2 * t.size /\ u.limit = 2 * t.size + Reserve /\ u.urge = t.urge
      BY <2>1
    <3>3. u \in [refs: Seq(Old \X (0 .. NF - 1)), size: Nat \ {0}, limit: Nat, urge: BOOLEAN]
      BY <2>1, <3>1
    <3>4. QED
      BY <3>2, <3>3
  <2> HIDE DEF u
  <2>3. t.limit = t.size + Reserve /\ t.urge
    BY <1>1, <1>2, <1>4
  <2>4. GoodTable(u)
    BY <2>2, <2>3, <1>1, <1>2 DEF GoodTable
  <2>5. QED
    BY <2>2, <2>4 DEF u
<1>5. QED
  BY <1>3, <1>4

\* Enter keeps the table sound and what is in it, and enters an old cell that becomes a
\* reference to a young block.
LEMMA EnterGood ==
  ASSUME NEW t, GoodTable(t), NEW c \in Cell, NEW old, NEW v
  PROVE  /\ GoodTable(Enter(t, c, old, v))
         /\ \A d : Entered(t, d) => Entered(Enter(t, c, old, v), d)
         /\ \A d : Entered(Enter(t, c, old, v), d) => Entered(t, d) \/ (d = c /\ c[1] \in Old)
         /\ c[1] \in Old /\ IsYoung(v) /\ ~IsYoung(old) => Entered(Enter(t, c, old, v), c)
<1>1. CASE ~(c[1] \in Old /\ IsYoung(v) /\ ~IsYoung(old))
  BY <1>1 DEF Enter
<1>2. CASE c[1] \in Old /\ IsYoung(v) /\ ~IsYoung(old)
  <2> DEFINE u == [t EXCEPT !.refs = Append(@, c)]
             w == IF Len(u.refs) >= u.limit THEN realloc_ref_table(u) ELSE u
             S == Old \X (0 .. NF - 1)
  <2>1. c \in S
    BY <1>2, Places
  <2>2. t \in [refs: Seq(S), size: Nat \ {0}, limit: Nat, urge: BOOLEAN]
    BY DEF GoodTable
  <2>3. /\ Append(t.refs, c) \in Seq(S) /\ Len(Append(t.refs, c)) = Len(t.refs) + 1
        /\ \A j \in 1 .. Len(t.refs) : Append(t.refs, c)[j] = t.refs[j]
        /\ Append(t.refs, c)[Len(t.refs) + 1] = c
    BY <2>1, <2>2, AppendProperties
  <2>4. /\ u \in [refs: Seq(S), size: Nat \ {0}, limit: Nat, urge: BOOLEAN]
        /\ u.refs = Append(t.refs, c) /\ u.size = t.size /\ u.limit = t.limit /\ u.urge = t.urge
    BY <2>2, <2>3
  <2> HIDE DEF u, S
  <2>5. Len(t.refs) \in Nat /\ DOMAIN t.refs = 1 .. Len(t.refs)
        /\ DOMAIN u.refs = 1 .. Len(t.refs) + 1 /\ Len(u.refs) = Len(t.refs) + 1
    <3>1. t.refs \in Seq(S) /\ u.refs \in Seq(S)
      BY <2>2, <2>4
    <3>2. QED
      BY <3>1, <2>3, <2>4, LenProperties
  <2>6. Entered(u, c) /\ \A d : Entered(t, d) => Entered(u, d)
    BY <2>3, <2>4, <2>5 DEF Entered
  <2>6a. \A d : Entered(u, d) => Entered(t, d) \/ d = c
    <3>1. ASSUME NEW d, NEW j \in DOMAIN u.refs, u.refs[j] = d PROVE Entered(t, d) \/ d = c
      <4>1. CASE j = Len(t.refs) + 1
        BY <2>3, <2>4, <3>1, <4>1
      <4>2. CASE j # Len(t.refs) + 1
        <5>1. j \in 1 .. Len(t.refs)
          BY <2>5, <4>2
        <5>2. u.refs[j] = t.refs[j]
          BY <2>3, <2>4, <5>1
        <5>3. QED
          BY <2>5, <3>1, <5>1, <5>2 DEF Entered
      <4>3. QED
        BY <4>1, <4>2
    <3>2. QED
      BY <3>1 DEF Entered
  <2>7. w.refs = u.refs /\ GoodTable(w)
    <3>1. /\ u.limit \in {u.size, u.size + Reserve}
          /\ u.limit > u.size => u.urge
          /\ Len(u.refs) <= u.limit /\ u.limit \in Nat /\ Len(u.refs) \in Nat
      BY <2>2, <2>4, <2>5 DEF GoodTable
    <3>2. CASE Len(u.refs) >= u.limit
      <4>1. Len(u.refs) = u.limit
        BY <3>1, <3>2
      <4>2. w = realloc_ref_table(u)
        BY <3>2
      <4>3. u \in [refs: Seq(Old \X (0 .. NF - 1)), size: Nat \ {0}, limit: Nat, urge: BOOLEAN]
        BY <2>4 DEF S
      <4>4. u.limit \in {u.size, u.size + Reserve} /\ (u.limit > u.size => u.urge)
        BY <3>1
      <4>5. GoodTable(realloc_ref_table(u)) /\ realloc_ref_table(u).refs = u.refs
        BY <4>1, <4>3, <4>4, ReallocGood
      <4>6. QED
        BY <4>2, <4>5
    <3>3. CASE ~(Len(u.refs) >= u.limit)
      <4>1. w = u
        BY <3>3
      <4>2. QED
        BY <4>1, <3>1, <3>3, <2>4 DEF GoodTable, S
    <3>4. QED
      BY <3>2, <3>3
  <2>8. Enter(t, c, old, v) = w
    BY <1>2 DEF Enter, u
  <2> HIDE DEF w
  <2>9. /\ Entered(w, c) /\ \A d : Entered(t, d) => Entered(w, d)
        /\ \A d : Entered(w, d) => Entered(t, d) \/ d = c
    BY <2>6, <2>6a, <2>7 DEF Entered
  <2>10. QED
    BY <1>2, <2>7, <2>8, <2>9
<1>3. QED
  BY <1>1, <1>2

\* g is the recursive function of EnterAll for the first l fields.
EntersUpTo(g, t, b, vs, f, l) ==
  g = [i \in 0 .. l |-> IF i = 0 THEN t
                        ELSE Enter(g[i - 1], <<b, i - 1>>, f[<<b, i - 1>>], vs[i])]

\* The recursive function of EnterAll exists: one for i fields can be extended to one for
\* i + 1, so there is no smallest number of fields without one.
LEMMA EnteredExists ==
  ASSUME NEW t, NEW b, NEW vs, NEW f, NEW l \in Nat
  PROVE  \E g : EntersUpTo(g, t, b, vs, f, l)
<1> DEFINE Rec(g, n) == EntersUpTo(g, t, b, vs, f, n)
           T == {n \in Nat : ~ \E g : Rec(g, n)}
<1> USE DEF EntersUpTo
<1>0. \A n \in Nat : n \notin T <=> \E g : Rec(g, n)
  <2> HIDE DEF Rec
  <2>1. QED
    OBVIOUS
<1>1. ASSUME T # {} PROVE FALSE
  <2>1. T \in SUBSET Nat
    OBVIOUS
  <2>2. PICK n \in T : \A m \in T : n <= m
    <3> HIDE DEF T
    <3>1. QED
      BY <1>1, <2>1, SmallestNumber
  <2>3. n \in Nat /\ ~ \E g : Rec(g, n)
    OBVIOUS
  <2>4. CASE n = 0
    <3> DEFINE g == [i \in 0 .. 0 |-> t]
    <3>1. Rec(g, 0)
      OBVIOUS
    <3>2. QED
      BY <3>1, <2>3, <2>4
  <2>5. CASE n # 0
    <3>1. n - 1 \in Nat /\ n - 1 \notin T
      <4>1. n - 1 \in Nat /\ ~(n <= n - 1)
        BY <2>3, <2>5
      <4> HIDE DEF T
      <4>2. QED
        BY <4>1, <2>2
    <3>2. PICK h : Rec(h, n - 1)
      <4> HIDE DEF Rec, T
      <4>1. QED
        BY <3>1, <1>0
    <3> DEFINE g == [i \in 0 .. n |-> IF i = n THEN Enter(h[n - 1], <<b, n - 1>>, f[<<b, n - 1>>], vs[n])
                                      ELSE h[i]]
    <3>3. \A i \in 0 .. n - 1 : /\ g[i] = h[i]
                                /\ h[i] = IF i = 0 THEN t
                                          ELSE Enter(h[i - 1], <<b, i - 1>>, f[<<b, i - 1>>], vs[i])
      <4>1. ASSUME NEW i \in 0 .. n - 1
            PROVE  h[i] = IF i = 0 THEN t
                          ELSE Enter(h[i - 1], <<b, i - 1>>, f[<<b, i - 1>>], vs[i])
        BY <3>2
      <4>2. ASSUME NEW i \in 0 .. n - 1 PROVE g[i] = h[i]
        <5>1. i # n /\ i \in 0 .. n
          BY <2>3
        <5>2. QED
          BY <5>1
      <4>3. QED
        BY <4>1, <4>2
    <3>4. ASSUME NEW i \in 0 .. n
          PROVE  g[i] = IF i = 0 THEN t ELSE Enter(g[i - 1], <<b, i - 1>>, f[<<b, i - 1>>], vs[i])
      <4>1. CASE i = n
        <5>1. g[i] = Enter(h[n - 1], <<b, n - 1>>, f[<<b, n - 1>>], vs[n])
          BY <4>1
        <5>2. n - 1 \in 0 .. n - 1 /\ g[n - 1] = h[n - 1]
          BY <2>3, <2>5, <3>3
        <5>3. QED
          BY <5>1, <5>2, <4>1, <2>5
      <4>2. CASE i # n /\ i # 0
        <5>1. i \in 0 .. n - 1 /\ i - 1 \in 0 .. n - 1
          BY <4>2, <2>3
        <5>2. g[i] = h[i] /\ g[i - 1] = h[i - 1]
          BY <5>1, <3>3
        <5> HIDE DEF g
        <5>3. QED
          BY <5>1, <5>2, <3>3, <4>2
      <4>3. CASE i # n /\ i = 0
        <5>1. i \in 0 .. n - 1
          BY <4>3, <2>3
        <5> HIDE DEF g
        <5>2. QED
          BY <5>1, <3>3, <4>3
      <4>4. QED
        BY <4>1, <4>2, <4>3
    <3>5. g = [i \in 0 .. n |-> g[i]]
      OBVIOUS
    <3> HIDE DEF g
    <3>6. Rec(g, n)
      BY <3>4, <3>5
    <3>7. QED
      BY <3>6, <2>3
  <2>6. QED
    BY <2>4, <2>5
<1>2. \E g : Rec(g, l)
  BY <1>1
<1>3. QED
  BY <1>2

\* EnterAll keeps the table sound and what is in it, and enters every field of an old
\* block that becomes a reference to a young one.
LEMMA EnterAllGood ==
  ASSUME NEW t, GoodTable(t), NEW b \in Young \cup Old, NEW vs \in Seq(Value), Len(vs) <= NF
  PROVE  /\ GoodTable(EnterAll(t, b, vs))
         /\ \A d : Entered(t, d) => Entered(EnterAll(t, b, vs), d)
         /\ \A d : Entered(EnterAll(t, b, vs), d) => Entered(t, d) \/ (d[1] = b /\ b \in Old)
         /\ \A i \in 0 .. Len(vs) - 1 :
              b \in Old /\ IsYoung(vs[i + 1]) /\ ~IsYoung(field[<<b, i>>])
              => Entered(EnterAll(t, b, vs), <<b, i>>)
<1> DEFINE l == Len(vs)
           e == CHOOSE g : g = [i \in 0 .. l |-> IF i = 0 THEN t
                             ELSE Enter(g[i - 1], <<b, i - 1>>, field[<<b, i - 1>>], vs[i])]
           Good(n) == /\ GoodTable(e[n])
                      /\ \A d : Entered(t, d) => Entered(e[n], d)
                      /\ \A d : Entered(e[n], d) => Entered(t, d) \/ (d[1] = b /\ b \in Old)
                      /\ \A i \in 0 .. n - 1 :
                           b \in Old /\ IsYoung(vs[i + 1]) /\ ~IsYoung(field[<<b, i>>])
                           => Entered(e[n], <<b, i>>)
           T == {n \in 0 .. l : ~Good(n)}
<1>1. l \in Nat /\ l <= NF /\ NF \in Nat
  BY LenProperties, Places
<1>2. e = [i \in 0 .. l |-> IF i = 0 THEN t
             ELSE Enter(e[i - 1], <<b, i - 1>>, field[<<b, i - 1>>], vs[i])]
  <2> HIDE DEF l
  <2>1. PICK g : EntersUpTo(g, t, b, vs, field, l)
    BY <1>1, EnteredExists
  <2>2. QED
    BY <2>1 DEF EntersUpTo
<1>3. EnterAll(t, b, vs) = e[l]
  BY DEF EnterAll
<1> HIDE DEF e, l
<1>4. ASSUME T # {} PROVE FALSE
  <2>1. T \in SUBSET Nat
    BY <1>1
  <2>2. PICK n \in T : \A m \in T : n <= m
    <3> HIDE DEF T
    <3>1. QED
      BY <1>4, <2>1, SmallestNumber
  <2>3. n \in 0 .. l /\ n \in Nat /\ ~Good(n)
    BY <2>1
  <2>4. CASE n = 0
    <3>1. e[0] = t
      BY <1>1, <1>2
    <3>2. Good(0)
      BY <3>1
    <3>3. QED
      BY <3>2, <2>3, <2>4
  <2>5. CASE n # 0
    <3>1. n - 1 \in Nat /\ n - 1 \in 0 .. l /\ n - 1 \in 0 .. NF - 1
      BY <2>3, <2>5, <1>1
    <3>2. n - 1 \notin T
      BY <2>2, <2>3, <3>1
    <3>3. Good(n - 1)
      BY <3>1, <3>2
    <3> DEFINE c == <<b, n - 1>>
    <3>4. e[n] = Enter(e[n - 1], c, field[c], vs[n])
      BY <1>2, <2>3, <2>5
    <3>5. c \in Cell /\ c[1] = b
      BY <3>1, Places
    <3> HIDE DEF c
    <3>6. /\ GoodTable(e[n])
          /\ \A d : Entered(e[n - 1], d) => Entered(e[n], d)
          /\ \A d : Entered(e[n], d) => Entered(e[n - 1], d) \/ (d = c /\ c[1] \in Old)
          /\ c[1] \in Old /\ IsYoung(vs[n]) /\ ~IsYoung(field[c]) => Entered(e[n], c)
      BY <3>3, <3>4, <3>5, EnterGood
    <3>7. ASSUME NEW i \in 0 .. n - 1, b \in Old, IsYoung(vs[i + 1]), ~IsYoung(field[<<b, i>>])
          PROVE  Entered(e[n], <<b, i>>)
      <4>1. CASE i = n - 1
        <5>1. i + 1 = n
          BY <4>1, <2>3
        <5>2. QED
          BY <5>1, <4>1, <3>5, <3>6, <3>7 DEF c
      <4>2. CASE i # n - 1
        <5>1. i \in 0 .. (n - 1) - 1
          BY <4>2, <2>3
        <5>2. QED
          BY <5>1, <3>3, <3>6, <3>7
      <4>3. QED
        BY <4>1, <4>2
    <3>8. \A d : Entered(e[n], d) => Entered(t, d) \/ (d[1] = b /\ b \in Old)
      BY <3>3, <3>5, <3>6
    <3>9. Good(n)
      BY <3>3, <3>6, <3>7, <3>8
    <3>10. QED
      BY <3>9, <2>3
  <2>6. QED
    BY <2>4, <2>5
<1>5. Good(l)
  BY <1>1, <1>4
<1>6. QED
  BY <1>3, <1>5 DEF l

\* The table of the program is a sound one, and so is what SetTable makes of one.
LEMMA TableGood ==
  ASSUME TypeOK, TableInBounds, ref_table_size \in Nat \ {0}
  PROVE  GoodTable(Table) /\ \A c : Entered(Table, c) <=> Known(c)
<1>1. Reserve \in Nat
  BY TableAssumption
<1>2. ref_table_limit \in Nat /\ ref_table \in Seq(Old \X (0 .. NF - 1)) /\ force_major_slice \in BOOLEAN
  BY <1>1 DEF TypeOK, TableInBounds
<1>3. /\ Table.refs = ref_table /\ Table.size = ref_table_size
      /\ Table.limit = ref_table_limit /\ Table.urge = force_major_slice
  BY DEF Table
<1>4. Table \in [refs: Seq(Old \X (0 .. NF - 1)), size: Nat \ {0}, limit: Nat, urge: BOOLEAN]
  BY <1>2 DEF Table
<1>5. GoodTable(Table)
  BY <1>3, <1>4 DEF GoodTable, TableInBounds
<1>6. QED
  BY <1>3, <1>5 DEF Entered, Known

TableKept ==
  /\ ref_table \in Seq(Old \X (0 .. NF - 1)) /\ ref_table_size \in Nat \ {0}
  /\ force_major_slice \in BOOLEAN
  /\ TableInBounds

LEMMA SetTableGood ==
  ASSUME NEW t, GoodTable(t), SetTable(t)
  PROVE  TableKept' /\ \A c : Entered(t, c) <=> Known(c)'
  BY DEF GoodTable, SetTable, TableKept, TableInBounds, Entered, Known

-----------------------------------------------------------------------------
(* The program                                                             *)

\* A value that a cell may hold: a block in use, when it is a young one.
CurrentIn(h, lo, end, v) == IsYoung(v) => h[v] # Free /\ lo <= v /\ v < end
Current(v)      == CurrentIn(hd, young_ptr, young_end, v)
StaysCurrent(v) == CurrentIn(hd', young_ptr', young_end', v)

\* A store into the cells of b, which gets the header h, and into roots keeps the heap
\* sound if what is stored is current and the table knows of it.
LEMMA SoundStore ==
  ASSUME Sound(hd, field), TypeOK, NEW b \in Young \cup Old, NEW h \in Header,
         h # Free, h # Forwarded, hd' = [hd EXCEPT ![b] = h],
         field' \in [Cell -> Value], young_ptr' \in Int, young_ptr' <= young_ptr, young_end' = young_end,
         \A c \in Cell : c[1] # b /\ field'[c] # field[c] => c[1] \in Root /\ StaysCurrent(field'[c]),
         \A c \in Cell : c[1] = b => StaysCurrent(field'[c]),
         h.kind = "raw" => \A i \in 0 .. NF - 1 : i < h.size => field'[<<b, i>>] \in Bytes,
         \A c : Known(c) => Known(c)',
         \A c : Known(c)' => Known(c) \/ (c[1] = b /\ b \in Old),
         \A c \in Cell : c[1] = b /\ b \in Old /\ IsYoung(field'[c]) => Known(c)'
  PROVE  Sound(hd, field)'
<1>1. hd \in [Young \cup Old -> Header] /\ hd' \in [Young \cup Old -> Header]
  BY DEF TypeOK
<1>2. \A d \in Young \cup Old : hd'[d] # Forwarded /\ (hd[d] # Free => hd'[d] # Free)
  BY <1>1 DEF Sound
<1>3. young_ptr \in Int /\ young_end \in Int /\ Young \subseteq Int
  BY YoungAssumption DEF TypeOK, Young
<1>4. \A c \in Cell : StaysCurrent(field'[c])
  <2>1. ASSUME NEW c \in Cell, c[1] # b, field'[c] = field[c] PROVE StaysCurrent(field'[c])
    <3>1. Current(field[c])
      BY DEF Sound, Current, StaysCurrent, CurrentIn
    <3>2. IsYoung(field[c]) => field[c] \in Int /\ field[c] \in Young \cup Old
      BY <1>3 DEF IsYoung
    <3>3. QED
      BY <2>1, <3>1, <3>2, <1>2, <1>3 DEF Current, StaysCurrent, CurrentIn
  <2>2. QED
    BY <2>1
<1>5. \A c \in Cell : c[1] \in Old /\ hd'[c[1]] = Free => field'[c] = Imm
  <2>1. ASSUME NEW c \in Cell, c[1] \in Old, hd'[c[1]] = Free PROVE field'[c] = Imm
    <3>1. c[1] # b /\ hd[c[1]] = Free
      BY <2>1, <1>1
    <3>2. field'[c] = field[c]
      BY <2>1, <3>1, Places
    <3>3. QED
      BY <2>1, <3>1, <3>2 DEF Sound
  <2>2. QED
    BY <2>1
<1>6. ASSUME NEW c \in Cell, c[1] \in Young \cup Old, hd'[c[1]].kind = "raw", c[2] < hd'[c[1]].size
      PROVE  field'[c] \in Bytes
  <2>1. c = <<c[1], c[2]>> /\ c[2] \in 0 .. NF - 1
    BY <1>6, Places
  <2>2. CASE c[1] = b
    BY <2>1, <2>2, <1>1, <1>6
  <2>3. CASE c[1] # b
    <3>1. hd'[c[1]] = hd[c[1]] /\ field'[c] = field[c]
      BY <2>3, <1>1, <1>6, Places
    <3>2. QED
      BY <3>1, <1>6 DEF Sound
  <2>4. QED
    BY <2>2, <2>3
<1>7. ASSUME NEW c \in Cell, c[1] \in Old, IsYoung(field'[c]) PROVE Known(c)'
  <2>1. CASE c[1] = b
    BY <2>1, <1>7
  <2>2. CASE c[1] # b
    <3>1. field'[c] = field[c]
      BY <2>2, <1>7, Places
    <3>2. QED
      BY <3>1, <1>7 DEF Sound
  <2>3. QED
    BY <2>1, <2>2
<1>8. ASSUME NEW c \in Cell, Known(c)' PROVE hd'[c[1]] # Free
  <2>1. CASE Known(c)
    <3>1. hd[c[1]] # Free /\ c[1] \in Young \cup Old
      <4>1. hd[c[1]] # Free
        BY <2>1 DEF Sound
      <4>2. PICK j \in DOMAIN ref_table : ref_table[j] = c
        BY <2>1 DEF Known
      <4>3. c \in Old \X (0 .. NF - 1)
        BY <4>2 DEF TypeOK
      <4>4. QED
        BY <4>1, <4>3
    <3>2. QED
      BY <1>2, <3>1
  <2>2. CASE c[1] = b
    BY <1>1, <2>2
  <2>3. QED
    BY <1>8, <2>1, <2>2
<1>9. QED
  BY <1>1, <1>2, <1>4, <1>5, <1>6, <1>7, <1>8 DEF Sound, Current, StaysCurrent, CurrentIn

\* The blocks of the major heap that are free, and the young ones that may be promoted.
FreeOld  == {b \in Old : hd[b] = Free}
MayMove  == {b \in Young : hd[b] \notin {Free, Forwarded}}

LEMMA Counting ==
  /\ IsFiniteSet(FreeOld) /\ Cardinality(FreeOld) \in Nat
  /\ IsFiniteSet(MayMove) /\ Cardinality(MayMove) \in Nat
  /\ Capacity <=> Cardinality(MayMove) <= Cardinality(FreeOld)
<1>1. FreeOld \in SUBSET Old /\ MayMove \in SUBSET Young
  BY DEF FreeOld, MayMove
<1>2. QED
  BY <1>1, FiniteHeap, FS_Subset, FS_CardinalityType DEF Capacity, FreeOld, MayMove

\* A block is found as long as one is free.
LEMMA NextFreeIs ==
  ASSUME Cardinality(FreeOld) > 0
  PROVE  NextFree \in Old /\ hd[NextFree] = Free
<1>1. FreeOld # {}
  BY Counting, FS_EmptySet
<1>2. \E b \in Old : hd[b] = Free
  BY <1>1 DEF FreeOld
<1>3. QED
  BY <1>2 DEF NextFree

\* A new header for a block in use.
LEMMA CapacityUsed ==
  ASSUME TypeOK, Capacity, NEW b \in Young \cup Old, hd[b] \notin {Free, Forwarded},
         NEW h \in Header, h \notin {Free, Forwarded}, hd' = [hd EXCEPT ![b] = h]
  PROVE  Capacity'
<1>1. hd \in [Young \cup Old -> Header]
  BY DEF TypeOK
<1>2. FreeOld' = FreeOld /\ MayMove' = MayMove
  BY <1>1 DEF FreeOld, MayMove
<1>3. QED
  BY <1>2 DEF Capacity, FreeOld, MayMove

\* A new block, after Room has been asked for one more.
LEMMA CapacityNew ==
  ASSUME TypeOK, Room(1), \A b \in Young \cup Old : hd[b] # Forwarded,
         NEW b \in Young \cup Old, b \in Old => hd[b] = Free,
         NEW h \in Header, h \notin {Free, Forwarded}, hd' = [hd EXCEPT ![b] = h]
  PROVE  Capacity'
<1>1. hd \in [Young \cup Old -> Header]
  BY DEF TypeOK
<1>2. MayMove = {d \in Young : hd[d] # Free}
  BY DEF MayMove
<1>3. Cardinality(MayMove) + 1 <= Cardinality(FreeOld)
  BY <1>2 DEF Room, FreeOld
<1>4. CASE b \in Old
  <2>1. b \notin Young /\ b \in FreeOld
    BY <1>4, Places DEF FreeOld
  <2>2. MayMove' = MayMove /\ FreeOld' = FreeOld \ {b}
    BY <1>1, <2>1 DEF MayMove, FreeOld
  <2>3. Cardinality(FreeOld') = Cardinality(FreeOld) - 1
    BY <2>1, <2>2, Counting, FS_RemoveElement
  <2>4. Cardinality(MayMove') <= Cardinality(FreeOld')
    BY <1>3, <2>2, <2>3, Counting
  <2>5. QED
    BY <2>4 DEF Capacity, FreeOld, MayMove
<1>5. CASE b \in Young
  <2>1. b \notin Old
    BY <1>5, Places
  <2>2. MayMove' = MayMove \cup {b} /\ FreeOld' = FreeOld
    BY <1>1, <1>5, <2>1 DEF MayMove, FreeOld
  <2>3. Cardinality(MayMove') <= Cardinality(MayMove) + 1
    <3>1. IsFiniteSet(MayMove) /\ Cardinality(MayMove) \in Nat
      BY Counting
    <3>2. Cardinality(MayMove \cup {b}) =
            IF b \in MayMove THEN Cardinality(MayMove) ELSE Cardinality(MayMove) + 1
      BY <3>1, FS_AddElement
    <3>3. QED
      BY <2>2, <3>1, <3>2
  <2>4. Cardinality(MayMove') \in Nat
    BY <2>2, Counting, FS_AddElement, FS_CardinalityType
  <2>5. Cardinality(MayMove') <= Cardinality(FreeOld')
    BY <1>3, <2>2, <2>3, <2>4, Counting
  <2>6. QED
    BY <2>5 DEF Capacity, FreeOld, MayMove
<1>6. QED
  BY <1>4, <1>5

\* What is left to show for a step of the program.
LEMMA MutatorKeeps ==
  ASSUME HeapInv, pc = "mutator", UNCHANGED <<area, callVars>>,
         Sound(hd, field)', Capacity', TableKept', young_ptr' \in 1 .. young_end
  PROVE  HeapInv'
<1>1. IdleInv /\ TypeOK
  BY DEF HeapInv, Collecting
<1>2. pc' = "mutator" /\ call' = NoCall /\ todo' = <<>> /\ work' = Imm
      /\ young_end' = young_end /\ max_young' = max_young /\ call' = call
  BY <1>1 DEF IdleInv, callVars, area
<1>3. IdleInv' /\ ~Collecting'
  BY <1>2 DEF IdleInv, Collecting
<1>4. TypeOK'
  BY <1>1, <1>2 DEF TypeOK, TableKept, Sound
<1>5. QED
  BY <1>3, <1>4 DEF HeapInv, TableKept

\* Numbers of the young area.
LEMMA AreaIs ==
  ASSUME TypeOK
  PROVE  /\ young_end \in Int /\ young_end <= YoungMax + 1 /\ young_ptr \in Int
         /\ 1 <= young_ptr /\ young_ptr <= young_end
         /\ max_young \in 0 .. NF /\ YoungMax \in Nat /\ NF \in Nat
         /\ \A v \in Young : v \in Int
  BY YoungAssumption DEF TypeOK, Young

\* A value stays current when the area only grows and nothing is freed.
LEMMA CurrentKept ==
  ASSUME TypeOK, NEW v \in Value, Current(v), young_ptr' \in Int, young_ptr' <= young_ptr,
         young_end' = young_end, \A b \in Young : hd[b] # Free => hd'[b] # Free
  PROVE  StaysCurrent(v)
<1>1. IsYoung(v) => v \in Int /\ v \in Young
  BY AreaIs DEF IsYoung
<1>2. young_ptr \in Int
  BY AreaIs
<1>3. QED
  BY <1>1, <1>2 DEF Current, StaysCurrent, CurrentIn

\* The values at hand are current ones.
LEMMA HeldIs ==
  ASSUME Sound(hd, field), NEW v \in Held \cup {Imm}
  PROVE  v \in Value /\ Current(v)
<1>1. CASE v = Imm
  BY <1>1, Places DEF Current, StaysCurrent, CurrentIn, IsYoung
<1>2. CASE v \in Held
  <2>1. PICK r \in Root : v = field[<<r, 0>>]
    BY <1>2 DEF Held
  <2>2. <<r, 0>> \in Cell
    BY Places
  <2>3. QED
    BY <2>1, <2>2 DEF Sound, Current, StaysCurrent, CurrentIn
<1>3. QED
  BY <1>1, <1>2

\* The words of a block after it has been filled.
LEMMA FilledIs ==
  ASSUME NEW f \in [Cell -> Value], NEW b \in Young \cup Old, NEW vs \in Seq(Value)
  PROVE  /\ Filled(f, b, vs) \in [Cell -> Value]
         /\ \A c \in Cell : c[1] # b => Filled(f, b, vs)[c] = f[c]
         /\ \A c \in Cell : c[1] = b => \/ Filled(f, b, vs)[c] = Imm
                                        \/ /\ c[2] \in 0 .. Len(vs) - 1
                                           /\ Filled(f, b, vs)[c] = vs[c[2] + 1]
         /\ \A i \in 0 .. NF - 1 : i < Len(vs) => Filled(f, b, vs)[<<b, i>>] = vs[i + 1]
<1>1. Len(vs) \in Nat /\ \A i \in 1 .. Len(vs) : vs[i] \in Value
  BY LenProperties
<1>2. Imm \in Value /\ b \notin Root
  BY Places
<1>3. ASSUME NEW c \in Cell, c[1] = b
      PROVE  /\ c[2] \in 0 .. NF - 1
             /\ c[2] < Len(vs) => c[2] + 1 \in 1 .. Len(vs) /\ c[2] \in 0 .. Len(vs) - 1
  <2>1. c[2] \in 0 .. NF - 1
    BY <1>3, <1>2, Places
  <2>2. NF \in Nat
    BY Places
  <2>3. QED
    BY <1>1, <2>1, <2>2
<1>4. Filled(f, b, vs) \in [Cell -> Value]
  BY <1>1, <1>2, <1>3 DEF Filled
<1>5. \A i \in 0 .. NF - 1 : i < Len(vs) => Filled(f, b, vs)[<<b, i>>] = vs[i + 1]
  BY Places DEF Filled
<1>6. \A c \in Cell : c[1] = b => \/ Filled(f, b, vs)[c] = Imm
                                  \/ /\ c[2] \in 0 .. Len(vs) - 1
                                     /\ Filled(f, b, vs)[c] = vs[c[2] + 1]
  BY <1>3 DEF Filled
<1>7. QED
  BY <1>4, <1>5, <1>6 DEF Filled

\* What the words of a new block are.
LEMMA ContentsAre ==
  ASSUME Sound(hd, field), Bytes \cap Young = {}, NEW n \in 1 .. NF, NEW kind \in {"scan", "raw"},
         NEW vs \in Contents(n, kind)
  PROVE  /\ vs \in Seq(Value) /\ Len(vs) = n
         /\ \A i \in 1 .. n : Current(vs[i]) /\ (kind = "raw" => vs[i] \in Bytes)
<1>1. n \in Nat
  BY Places
<1>2. CASE kind = "raw"
  <2>1. vs \in [1 .. n -> Bytes] /\ Bytes \subseteq Value
    BY <1>2, BytesAssumption DEF Contents
  <2>2. vs \in Seq(Value) /\ Len(vs) = n
    BY <1>1, <2>1
  <2>3. QED
    BY <2>1, <2>2 DEF Current, StaysCurrent, CurrentIn, IsYoung
<1>3. CASE kind # "raw"
  <2>1. vs \in [1 .. n -> Held \cup {Imm}] /\ Held \cup {Imm} \subseteq Value
    BY <1>3, HeldIs DEF Contents
  <2>2. vs \in Seq(Value) /\ Len(vs) = n
    BY <1>1, <2>1
  <2>3. QED
    BY <1>3, <2>1, <2>2, HeldIs
<1>4. QED
  BY <1>2, <1>3

LEMMA AllocSmallKeeps ==
  ASSUME HeapInv, Bytes \cap Young = {}, pc = "mutator", AllocSmall
  PROVE  HeapInv'
<1>1. TypeOK /\ Sound(hd, field) /\ TableKept
  BY DEF HeapInv, Collecting, IdleInv, TableKept, TypeOK
<1>2. PICK n \in 1 .. max_young, kind \in {"scan", "raw"}, r \in Root :
       /\ young_ptr - (n + 1) >= 1
       /\ Room(1)
       /\ young_ptr' = young_ptr - (n + 1)
       /\ hd' = [hd EXCEPT ![young_ptr'] = [size |-> n, kind |-> kind]]
       /\ \E vs \in Contents(n, kind) :
            field' = [Filled(field, young_ptr', vs) EXCEPT ![<<r, 0>>] = young_ptr']
  BY DEF AllocSmall
<1>3. PICK vs \in Contents(n, kind) :
        field' = [Filled(field, young_ptr', vs) EXCEPT ![<<r, 0>>] = young_ptr']
  BY <1>2
<1>4. UNCHANGED <<area, tableVars, force_major_slice, callVars>>
  BY DEF AllocSmall
<1> DEFINE a == young_ptr'
           h == [size |-> n, kind |-> kind]
<1>5. n \in 1 .. NF /\ a \in Int /\ 1 <= a /\ a < young_ptr /\ young_end' = young_end
  BY <1>1, <1>2, <1>4, AreaIs DEF area
<1>6. a \in Young /\ a \notin Old /\ a \notin Root
  <2>1. a <= YoungMax
    BY <1>1, <1>5, AreaIs
  <2>2. a \in Young
    BY <1>1, <1>5, <2>1, AreaIs DEF Young
  <2>3. QED
    BY <2>2, Places
<1>7. h \in Header /\ h \notin {Free, Forwarded} /\ h.kind = kind /\ h.size = n
  BY <1>5, HeaderIs DEF Kinds
<1>8. /\ vs \in Seq(Value) /\ Len(vs) = n
      /\ \A i \in 1 .. n : Current(vs[i]) /\ (kind = "raw" => vs[i] \in Bytes)
  BY <1>1, <1>5, ContentsAre
<1>9. <<r, 0>> \in Cell /\ r # a /\ <<r, 0>>[1] = r
  BY <1>6, Places
<1> DEFINE F == Filled(field, a, vs)
<1>10. /\ F \in [Cell -> Value]
       /\ \A c \in Cell : c[1] # a => F[c] = field[c]
       /\ \A c \in Cell : c[1] = a => \/ F[c] = Imm
                                      \/ /\ c[2] \in 0 .. Len(vs) - 1
                                         /\ F[c] = vs[c[2] + 1]
       /\ \A i \in 0 .. NF - 1 : i < Len(vs) => F[<<a, i>>] = vs[i + 1]
  BY <1>1, <1>6, <1>8, FilledIs DEF Sound
<1>11. field' = [F EXCEPT ![<<r, 0>>] = a] /\ hd' = [hd EXCEPT ![a] = h]
  BY <1>2, <1>3
<1> HIDE DEF F, h, a
<1>12. a \in Value /\ hd \in [Young \cup Old -> Header]
  BY <1>1, <1>6, Places DEF TypeOK
<1>13. field' \in [Cell -> Value]
  BY <1>9, <1>10, <1>11, <1>12
<1>14. hd'[a] # Free /\ \A b \in Young : hd[b] # Free => hd'[b] # Free
  BY <1>6, <1>7, <1>11, <1>12
<1>15. StaysCurrent(a)
  <2>1. young_ptr' = a /\ a < young_end'
    BY <1>1, <1>5, AreaIs DEF a
  <2>2. hd'[a] # Free /\ a \in Int
    BY <1>5, <1>14
  <2>3. young_ptr' <= a
    BY <2>1, <2>2
  <2>4. QED
    BY <2>1, <2>2, <2>3 DEF Current, StaysCurrent, CurrentIn
<1>16. young_ptr' \in Int /\ young_ptr' <= young_ptr /\ 1 <= young_ptr'
  BY <1>1, <1>5, AreaIs DEF a
<1>17. \A c \in Cell : c[1] # a /\ field'[c] # field[c] => c[1] \in Root /\ StaysCurrent(field'[c])
  BY <1>9, <1>10, <1>11, <1>15
<1>18. ASSUME NEW c \in Cell, c[1] = a PROVE StaysCurrent(field'[c])
  <2>1. field'[c] = F[c]
    BY <1>9, <1>10, <1>11, <1>18
  <2>2. CASE F[c] = Imm
    BY <2>1, <2>2, Places DEF Current, StaysCurrent, CurrentIn, IsYoung
  <2>3. CASE c[2] \in 0 .. Len(vs) - 1 /\ F[c] = vs[c[2] + 1]
    <3>1. c[2] + 1 \in 1 .. n /\ n \in Int
      BY <1>5, <1>8, <2>3
    <3>2. vs[c[2] + 1] \in Value /\ Current(vs[c[2] + 1])
      BY <1>8, <1>10, <1>18, <2>3, <3>1
    <3>3. F[c] \in Value /\ Current(F[c])
      BY <2>3, <3>2
    <3>4. StaysCurrent(F[c])
      BY <1>1, <1>5, <1>14, <1>16, <3>3, CurrentKept DEF F
    <3>5. QED
      BY <2>1, <3>4 DEF Current, StaysCurrent, CurrentIn, IsYoung
  <2>4. QED
    BY <1>10, <1>18, <2>2, <2>3
<1>19. h.kind = "raw" => \A i \in 0 .. NF - 1 : i < h.size => field'[<<a, i>>] \in Bytes
  <2>1. ASSUME h.kind = "raw", NEW i \in 0 .. NF - 1, i < h.size PROVE field'[<<a, i>>] \in Bytes
    <3>1. <<a, i>> \in Cell /\ <<a, i>> # <<r, 0>> /\ i + 1 \in 1 .. n
      BY <1>5, <1>6, <1>7, <1>9, <2>1, Places
    <3>2. field'[<<a, i>>] = vs[i + 1]
      BY <1>7, <1>8, <1>10, <1>11, <2>1, <3>1
    <3>3. QED
      BY <1>7, <1>8, <2>1, <3>1, <3>2
  <2>2. QED
    BY <2>1
<1>20. /\ \A c : Known(c) => Known(c)'
       /\ \A c : Known(c)' => Known(c) \/ (c[1] = a /\ a \in Old)
  BY <1>4 DEF Known, tableVars
<1>21. Sound(hd, field)'
  BY <1>1, <1>5, <1>6, <1>7, <1>11, <1>13, <1>16, <1>17, <1>18, <1>19, <1>20, SoundStore
<1>22. Capacity'
  BY <1>1, <1>2, <1>6, <1>7, <1>11, CapacityNew DEF Sound
<1>23. TableKept'
  BY <1>1, <1>4 DEF TableKept, TableInBounds, tableVars
<1>24. young_ptr' \in 1 .. young_end
  BY <1>1, <1>16, AreaIs
<1>25. QED
  BY <1>4, <1>21, <1>22, <1>23, <1>24, MutatorKeeps

\* A block filled with current values holds current values.
LEMMA FilledCurrent ==
  ASSUME TypeOK, Sound(hd, field), NEW b \in Young \cup Old, NEW vs \in Seq(Value),
         \A i \in 1 .. Len(vs) : Current(vs[i]),
         young_ptr' \in Int, young_ptr' <= young_ptr, young_end' = young_end,
         \A d \in Young : hd[d] # Free => hd'[d] # Free,
         NEW c \in Cell, c[1] = b
  PROVE  StaysCurrent(Filled(field, b, vs)[c])
<1> DEFINE v == Filled(field, b, vs)[c]
<1>1. v = Imm \/ (c[2] \in 0 .. Len(vs) - 1 /\ v = vs[c[2] + 1])
  BY FilledIs DEF Sound
<1>2. v \in Value
  BY FilledIs DEF Sound
<1> HIDE DEF v
<1>3. Current(v)
  <2>1. CASE v = Imm
    BY <2>1, Places DEF Current, CurrentIn, IsYoung
  <2>2. CASE c[2] \in 0 .. Len(vs) - 1 /\ v = vs[c[2] + 1]
    <3>1. Len(vs) \in Nat
      BY LenProperties
    <3>2. c[2] + 1 \in 1 .. Len(vs)
      BY <2>2, <3>1
    <3>3. QED
      BY <2>2, <3>2
  <2>3. QED
    BY <1>1, <2>1, <2>2
<1>4. StaysCurrent(v)
  BY <1>2, <1>3, CurrentKept
<1>5. QED
  BY <1>4 DEF v

\* What the table knows after all fields of a block have been entered.
LEMMA FilledKnown ==
  ASSUME TypeOK, TableInBounds, ref_table_size \in Nat \ {0}, Sound(hd, field),
         NEW b \in Young \cup Old, NEW vs \in Seq(Value), Len(vs) <= NF
  PROVE  /\ GoodTable(EnterAll(Table, b, vs))
         /\ \A c : Known(c) => Entered(EnterAll(Table, b, vs), c)
         /\ \A c : Entered(EnterAll(Table, b, vs), c) => Known(c) \/ (c[1] = b /\ b \in Old)
         /\ \A c \in Cell : c[1] = b /\ b \in Old /\ IsYoung(Filled(field, b, vs)[c])
                            => Entered(EnterAll(Table, b, vs), c)
<1> DEFINE t == EnterAll(Table, b, vs)
<1>1. /\ GoodTable(t)
      /\ \A d : Entered(Table, d) => Entered(t, d)
      /\ \A d : Entered(t, d) => Entered(Table, d) \/ (d[1] = b /\ b \in Old)
      /\ \A i \in 0 .. Len(vs) - 1 :
           b \in Old /\ IsYoung(vs[i + 1]) /\ ~IsYoung(field[<<b, i>>]) => Entered(t, <<b, i>>)
  BY TableGood, EnterAllGood
<1>2. /\ \A d : Known(d) => Entered(t, d)
      /\ \A d : Entered(t, d) => Known(d) \/ (d[1] = b /\ b \in Old)
  BY <1>1, TableGood
<1> HIDE DEF t
<1>3. ASSUME NEW c \in Cell, c[1] = b, b \in Old, IsYoung(Filled(field, b, vs)[c])
      PROVE  Entered(t, c)
  <2>1. c[2] \in 0 .. Len(vs) - 1 /\ IsYoung(vs[c[2] + 1])
    <3>1. ~IsYoung(Imm)
      BY Places DEF IsYoung
    <3>2. QED
      BY <1>3, <3>1, FilledIs DEF Sound
  <2>2. c = <<b, c[2]>>
    BY <1>3, Places
  <2>3. CASE IsYoung(field[c])
    BY <1>2, <1>3, <2>3 DEF Sound
  <2>4. CASE ~IsYoung(field[c])
    BY <1>1, <1>3, <2>1, <2>2, <2>4
  <2>5. QED
    BY <2>3, <2>4
<1>4. QED
  BY <1>1, <1>2, <1>3 DEF t

LEMMA AllocLargeKeeps ==
  ASSUME HeapInv, Bytes \cap Young = {}, ~Unbarriered, pc = "mutator", AllocLarge
  PROVE  HeapInv'
<1>1. TypeOK /\ Sound(hd, field) /\ TableInBounds /\ ref_table_size \in Nat \ {0}
  BY DEF HeapInv, Collecting, IdleInv
<1> DEFINE a == NextFree
<1>2. PICK n \in max_young + 1 .. NF, r \in Root, barrier \in {TRUE, ~Unbarriered} :
       /\ Room(1)
       /\ hd' = [hd EXCEPT ![a] = [size |-> n, kind |-> "scan"]]
       /\ \E vs \in Contents(n, "scan"), urge \in BOOLEAN :
            LET t == IF barrier THEN EnterAll(Table, a, vs) ELSE Table
            IN /\ field' = [Filled(field, a, vs) EXCEPT ![<<r, 0>>] = a]
               /\ SetTable([t EXCEPT !.urge = @ \/ urge])
  BY DEF AllocLarge
<1>3. PICK vs \in Contents(n, "scan"), urge \in BOOLEAN :
        /\ field' = [Filled(field, a, vs) EXCEPT ![<<r, 0>>] = a]
        /\ SetTable([EnterAll(Table, a, vs) EXCEPT !.urge = @ \/ urge])
  BY <1>2
<1>4. UNCHANGED <<area, young_ptr, callVars>>
  BY DEF AllocLarge
<1> DEFINE h == [size |-> n, kind |-> "scan"]
           t == EnterAll(Table, a, vs)
           u == [t EXCEPT !.urge = @ \/ urge]
           F == Filled(field, a, vs)
<1>5. n \in 1 .. NF /\ young_ptr' = young_ptr /\ young_end' = young_end
      /\ young_ptr \in Int /\ young_ptr \in 1 .. young_end /\ young_ptr <= young_ptr
  BY <1>1, <1>2, <1>4, AreaIs DEF area
<1>6. a \in Old /\ hd[a] = Free /\ a \notin Young /\ a \notin Root
  <2>1. Cardinality(FreeOld) > 0
    <3>1. MayMove = {b \in Young : hd[b] # Free}
      BY <1>1 DEF MayMove, Sound
    <3>2. Cardinality(MayMove) + 1 <= Cardinality(FreeOld)
      BY <1>2, <3>1 DEF Room, FreeOld
    <3>3. QED
      BY <3>2, Counting
  <2>2. QED
    BY <2>1, NextFreeIs, Places
<1>7. h \in Header /\ h \notin {Free, Forwarded} /\ h.kind = "scan"
  BY <1>5, HeaderIs DEF Kinds
<1>8. /\ vs \in Seq(Value) /\ Len(vs) = n /\ Len(vs) <= NF
      /\ \A i \in 1 .. n : Current(vs[i])
  BY <1>1, <1>5, ContentsAre
<1>9. <<r, 0>> \in Cell /\ r # a /\ <<r, 0>>[1] = r
  BY <1>6, Places
<1>10. /\ F \in [Cell -> Value]
       /\ \A c \in Cell : c[1] # a => F[c] = field[c]
  BY <1>1, <1>6, <1>8, FilledIs DEF Sound
<1>11. field' = [F EXCEPT ![<<r, 0>>] = a] /\ hd' = [hd EXCEPT ![a] = h]
  BY <1>2, <1>3
<1>12. a \in Value /\ hd \in [Young \cup Old -> Header]
  BY <1>1, <1>6, Places DEF TypeOK
<1>13. /\ GoodTable(t)
       /\ \A c : Known(c) => Entered(t, c)
       /\ \A c : Entered(t, c) => Known(c) \/ (c[1] = a /\ a \in Old)
       /\ \A c \in Cell : c[1] = a /\ a \in Old /\ IsYoung(F[c]) => Entered(t, c)
  BY <1>1, <1>6, <1>8, FilledKnown
<1>14. SetTable(u)
  BY <1>3
<1> HIDE DEF a, F, h, t
<1>15. GoodTable(u) /\ \A c : Entered(t, c) <=> Entered(u, c)
  <2>1. /\ u \in [refs: Seq(Old \X (0 .. NF - 1)), size: Nat \ {0}, limit: Nat, urge: BOOLEAN]
        /\ u.refs = t.refs /\ u.size = t.size /\ u.limit = t.limit /\ u.urge = (t.urge \/ urge)
    BY <1>13 DEF GoodTable
  <2> HIDE DEF u
  <2>2. QED
    BY <1>13, <2>1 DEF GoodTable, Entered
<1> HIDE DEF u
<1>16. TableKept' /\ \A c : Entered(t, c) <=> Known(c)'
  BY <1>14, <1>15, SetTableGood
<1>17. field' \in [Cell -> Value]
  BY <1>9, <1>10, <1>11, <1>12
<1>18. \A b \in Young : hd[b] # Free => hd'[b] # Free
  BY <1>6, <1>11, <1>12
<1>19. \A c \in Cell : c[1] # a /\ field'[c] # field[c] => c[1] \in Root /\ StaysCurrent(field'[c])
  BY <1>6, <1>9, <1>10, <1>11 DEF StaysCurrent, CurrentIn, IsYoung
<1>20. \A c \in Cell : c[1] = a => field'[c] = F[c]
  BY <1>9, <1>10, <1>11
<1>21. \A c \in Cell : c[1] = a => StaysCurrent(field'[c])
  <2>1. ASSUME NEW c \in Cell, c[1] = a PROVE StaysCurrent(F[c])
    BY <1>1, <1>5, <1>6, <1>8, <1>18, <2>1, FilledCurrent DEF F
  <2>2. QED
    BY <1>20, <2>1
<1>22. /\ \A c : Known(c) => Known(c)'
       /\ \A c : Known(c)' => Known(c) \/ (c[1] = a /\ a \in Old)
       /\ \A c \in Cell : c[1] = a /\ a \in Old /\ IsYoung(field'[c]) => Known(c)'
  BY <1>13, <1>16, <1>20
<1>23. Sound(hd, field)'
  BY <1>1, <1>5, <1>6, <1>7, <1>11, <1>17, <1>19, <1>21, <1>22, SoundStore
<1>24. Capacity'
  BY <1>1, <1>2, <1>6, <1>7, <1>11, CapacityNew DEF Sound
<1>25. QED
  BY <1>4, <1>5, <1>16, <1>23, <1>24, MutatorKeeps

LEMMA LoadKeeps ==
  ASSUME HeapInv, pc = "mutator", Load
  PROVE  HeapInv'
<1>1. TypeOK /\ Sound(hd, field) /\ TableKept /\ Capacity
  BY DEF HeapInv, Collecting, IdleInv, TableKept, TypeOK
<1>2. UNCHANGED <<hd, area, young_ptr, tableVars, force_major_slice, callVars>>
  BY DEF Load
<1>3. PICK r \in Root, v \in Value : field' = [field EXCEPT ![<<r, 0>>] = v] /\ Current(v)
  <2> DEFINE scanned == {b \in HeldBlock : hd[b].kind # "raw"}
             loaded(b) == {field[<<b, i>>] : i \in Indices(b)}
  <2>1. PICK r \in Root, v \in Held \cup {Imm} \cup UNION {loaded(b) : b \in scanned} :
          field' = [field EXCEPT ![<<r, 0>>] = v]
    BY DEF Load
  <2>2. CASE v \in Held \cup {Imm}
    BY <1>1, <2>1, <2>2, HeldIs
  <2>3. CASE v \in UNION {loaded(b) : b \in scanned}
    <3>1. PICK b \in scanned : v \in loaded(b)
      BY <2>3
    <3>2. PICK i \in Indices(b) : v = field[<<b, i>>]
      BY <3>1
    <3>3. b \in Young \cup Old
      BY <1>1, <3>1, HeldIs, Places DEF HeldBlock
    <3>4. i \in 0 .. NF - 1
      <4>1. hd[b] \in Header /\ NF \in Nat
        BY <1>1, <3>3, Places DEF TypeOK
      <4>2. hd[b].size \in 0 .. NF
        BY <4>1, HeaderIs
      <4>3. QED
        BY <3>2, <4>1, <4>2 DEF Indices
    <3>5. <<b, i>> \in Cell
      BY <3>3, <3>4, Places
    <3>6. v \in Value /\ Current(v)
      BY <1>1, <3>2, <3>5 DEF Sound, Current, CurrentIn
    <3>7. QED
      BY <2>1, <3>6
  <2>4. QED
    BY <2>2, <2>3
<1>4. <<r, 0>> \in Cell /\ r \notin Young \cup Old
  BY Places
<1>5. Sound(hd, field)'
  <2>1. field' \in [Cell -> Value]
    BY <1>1, <1>3, <1>4 DEF Sound
  <2>2. \A c \in Cell : c[1] \in Young \cup Old => field'[c] = field[c]
    BY <1>1, <1>3, <1>4 DEF Sound
  <2>3. \A c \in Cell : IsYoung(field'[c]) =>
          hd[field'[c]] # Free /\ young_ptr <= field'[c] /\ field'[c] < young_end
    BY <1>1, <1>3, <1>4 DEF Sound, Current, CurrentIn
  <2>4. young_ptr' = young_ptr /\ young_end' = young_end /\ hd' = hd /\ ref_table' = ref_table
    BY <1>2 DEF area, tableVars
  <2>5. QED
    BY <1>1, <2>1, <2>2, <2>3, <2>4 DEF Sound, Known
<1>6. Capacity' /\ TableKept'
  BY <1>1, <1>2 DEF Capacity, TableKept, TableInBounds, tableVars
<1>7. young_ptr' \in 1 .. young_end
  BY <1>1, <1>2 DEF TypeOK
<1>8. QED
  BY <1>2, <1>5, <1>6, <1>7, MutatorKeeps

\* The blocks that Modify, Indirect and Update write are in use.
LEMMA HeldBlockIs ==
  ASSUME TypeOK, Sound(hd, field), NEW b \in HeldBlock, hd[b].kind \in Kinds
  PROVE  b \in Young \cup Old /\ hd[b] \in Header /\ hd[b] \notin {Free, Forwarded} /\ hd[b].size \in 1 .. NF
<1>1. b \in Young \cup Old
  BY HeldIs, Places DEF HeldBlock
<1>2. QED
  BY <1>1, HeaderIs DEF TypeOK

LEMMA ModifyKeeps ==
  ASSUME HeapInv, pc = "mutator", Modify
  PROVE  HeapInv'
<1>1. TypeOK /\ Sound(hd, field) /\ TableInBounds /\ ref_table_size \in Nat \ {0} /\ Capacity
  BY DEF HeapInv, Collecting, IdleInv
<1>2. PICK b \in HeldBlock, v \in Held \cup {Imm} :
        /\ hd[b].kind = "scan"
        /\ \E i \in Indices(b) :
            /\ field' = [field EXCEPT ![<<b, i>>] = v]
            /\ SetTable(Enter(Table, <<b, i>>, field[<<b, i>>], v))
  BY DEF Modify
<1>3. PICK i \in Indices(b) :
        /\ field' = [field EXCEPT ![<<b, i>>] = v]
        /\ SetTable(Enter(Table, <<b, i>>, field[<<b, i>>], v))
  BY <1>2
<1>4. UNCHANGED <<hd, area, young_ptr, callVars>>
  BY DEF Modify
<1>5. b \in Young \cup Old /\ hd[b] \in Header /\ hd[b] # Free /\ hd[b] # Forwarded /\ hd[b].size \in 1 .. NF
  BY <1>1, <1>2, HeldBlockIs DEF Kinds
<1> DEFINE c0 == <<b, i>>
           t == Enter(Table, c0, field[c0], v)
<1>6. c0 \in Cell /\ c0[1] = b /\ i \in 0 .. NF - 1
  <2>1. NF \in Nat
    BY Places
  <2>2. i \in 0 .. NF - 1
    BY <1>3, <1>5, <2>1 DEF Indices
  <2>3. QED
    BY <1>5, <2>2, Places
<1>7. v \in Value /\ Current(v)
  BY <1>1, HeldIs
<1>8. field' = [field EXCEPT ![c0] = v] /\ SetTable(t)
  BY <1>3
<1> HIDE DEF c0
<1>9. /\ GoodTable(t) /\ \A c : Known(c) => Entered(t, c)
      /\ \A c : Entered(t, c) => Known(c) \/ (c = c0 /\ c0[1] \in Old)
      /\ c0[1] \in Old /\ IsYoung(v) /\ ~IsYoung(field[c0]) => Entered(t, c0)
  BY <1>1, <1>6, TableGood, EnterGood
<1> HIDE DEF t
<1>10. TableKept' /\ \A c : Entered(t, c) <=> Known(c)'
  BY <1>8, <1>9, SetTableGood
<1>11. hd' = [hd EXCEPT ![b] = hd[b]]
  BY <1>1, <1>4, <1>5 DEF TypeOK
<1>12. field' \in [Cell -> Value]
  BY <1>1, <1>6, <1>7, <1>8 DEF Sound
<1>13. young_ptr' \in Int /\ young_ptr' <= young_ptr /\ young_end' = young_end /\ young_ptr' \in 1 .. young_end
  BY <1>1, <1>4, AreaIs DEF area
<1>14. \A c \in Cell : field'[c] = field[c] \/ (c = c0 /\ field'[c] = v)
  BY <1>1, <1>6, <1>8 DEF Sound
<1>15. \A c \in Cell : c[1] # b => field'[c] = field[c]
  BY <1>6, <1>14
<1>16. \A c \in Cell : StaysCurrent(field'[c])
  BY <1>1, <1>4, <1>7, <1>14 DEF Sound, StaysCurrent, Current, CurrentIn, area
<1>17. /\ \A c : Known(c) => Known(c)'
       /\ \A c : Known(c)' => Known(c) \/ (c[1] = b /\ b \in Old)
       /\ \A c \in Cell : c[1] = b /\ b \in Old /\ IsYoung(field'[c]) => Known(c)'
  <2>1. \A c : Known(c) => Known(c)'
    BY <1>9, <1>10
  <2>2. ASSUME NEW c \in Cell, c[1] = b, b \in Old, IsYoung(field'[c]) PROVE Known(c)'
    <3>1. CASE IsYoung(field[c])
      BY <1>1, <2>1, <2>2, <3>1 DEF Sound
    <3>2. CASE ~IsYoung(field[c])
      <4>1. c = c0 /\ field'[c] = v
        BY <1>14, <2>2, <3>2
      <4>2. QED
        BY <1>9, <1>10, <2>2, <3>2, <4>1
    <3>3. QED
      BY <3>1, <3>2
  <2>3. \A c : Known(c)' => Known(c) \/ (c[1] = b /\ b \in Old)
    BY <1>6, <1>9, <1>10
  <2>4. QED
    BY <2>1, <2>2, <2>3
<1>18. Sound(hd, field)'
  <2>1. hd[b].kind # "raw"
    BY <1>2
  <2>2. QED
    BY <1>1, <1>5, <1>11, <1>12, <1>13, <1>15, <1>16, <1>17, <2>1, SoundStore
<1>19. Capacity'
  BY <1>1, <1>4 DEF Capacity
<1>20. QED
  BY <1>4, <1>10, <1>13, <1>18, <1>19, MutatorKeeps
\* A block in use that is given another header and filled with current values.
LEMMA RefillKeeps ==
  ASSUME HeapInv, pc = "mutator", NEW b \in Young \cup Old, hd[b] \notin {Free, Forwarded},
         NEW h \in Header, h \notin {Free, Forwarded}, hd' = [hd EXCEPT ![b] = h],
         NEW vs \in Seq(Value), \A i \in 1 .. Len(vs) : Current(vs[i]),
         h.kind = "raw" => \A i \in 0 .. NF - 1 : i < h.size => i < Len(vs) /\ vs[i + 1] \in Bytes,
         field' = Filled(field, b, vs),
         NEW t, GoodTable(t), SetTable(t), \A c : Known(c) => Entered(t, c),
         \A c : Entered(t, c) => Known(c) \/ (c[1] = b /\ b \in Old),
         \A c \in Cell : c[1] = b /\ b \in Old /\ IsYoung(Filled(field, b, vs)[c]) => Entered(t, c),
         UNCHANGED <<area, young_ptr, callVars>>
  PROVE  HeapInv'
<1>1. TypeOK /\ Sound(hd, field) /\ Capacity
  BY DEF HeapInv, Collecting, IdleInv
<1>2. TableKept' /\ \A c : Entered(t, c) <=> Known(c)'
  BY SetTableGood
<1>3. /\ field' \in [Cell -> Value]
      /\ \A c \in Cell : c[1] # b => field'[c] = field[c]
      /\ \A i \in 0 .. NF - 1 : i < Len(vs) => field'[<<b, i>>] = vs[i + 1]
  BY <1>1, FilledIs DEF Sound
<1>4. young_ptr' \in Int /\ young_ptr' <= young_ptr /\ young_end' = young_end /\ young_ptr' \in 1 .. young_end
  BY <1>1, AreaIs DEF area
<1>5. \A d \in Young : hd[d] # Free => hd'[d] # Free
  BY <1>1 DEF TypeOK
<1>6. \A c \in Cell : c[1] = b => StaysCurrent(field'[c])
  <2>1. ASSUME NEW c \in Cell, c[1] = b PROVE StaysCurrent(Filled(field, b, vs)[c])
    BY <1>1, <1>4, <1>5, <2>1, FilledCurrent
  <2>2. QED
    BY <2>1
<1>7. /\ \A c : Known(c) => Known(c)'
      /\ \A c : Known(c)' => Known(c) \/ (c[1] = b /\ b \in Old)
      /\ \A c \in Cell : c[1] = b /\ b \in Old /\ IsYoung(field'[c]) => Known(c)'
  BY <1>2
<1>8. h # Free /\ h # Forwarded
  OBVIOUS
<1>9. h.kind = "raw" => \A i \in 0 .. NF - 1 : i < h.size => field'[<<b, i>>] \in Bytes
  BY <1>3
<1>10. \A c \in Cell : c[1] # b /\ field'[c] # field[c] => c[1] \in Root /\ StaysCurrent(field'[c])
  BY <1>3
<1>11. Sound(hd, field)'
  BY <1>1, <1>3, <1>4, <1>6, <1>7, <1>8, <1>9, <1>10, SoundStore
<1>12. Capacity'
  BY <1>1, CapacityUsed
<1>13. QED
  BY <1>2, <1>4, <1>11, <1>12, MutatorKeeps

LEMMA IndirectKeeps ==
  ASSUME HeapInv, pc = "mutator", Indirect
  PROVE  HeapInv'
<1>1. TypeOK /\ Sound(hd, field) /\ TableInBounds /\ ref_table_size \in Nat \ {0}
  BY DEF HeapInv, Collecting, IdleInv
<1>2. PICK b \in HeldBlock, v \in Held \cup {Imm} :
        /\ hd[b].kind = "scan"
        /\ hd' = [hd EXCEPT ![b] = [size |-> 1, kind |-> "ind"]]
        /\ field' = Filled(field, b, <<v>>)
        /\ SetTable(Enter(Table, <<b, 0>>, field[<<b, 0>>], v))
  BY DEF Indirect
<1>3. UNCHANGED <<area, young_ptr, callVars>>
  BY DEF Indirect
<1>4. b \in Young \cup Old /\ hd[b] \notin {Free, Forwarded}
  BY <1>1, <1>2, HeldBlockIs DEF Kinds
<1> DEFINE h == [size |-> 1, kind |-> "ind"]
           vs == <<v>>
           c0 == <<b, 0>>
           t == Enter(Table, c0, field[c0], v)
<1>5. h \in Header /\ h \notin {Free, Forwarded} /\ h.kind # "raw"
  <2>1. 1 \in 1 .. NF /\ "ind" \in Kinds
    BY Places DEF Kinds
  <2>2. QED
    BY <2>1, HeaderIs
<1>6. v \in Value /\ Current(v)
  BY <1>1, HeldIs
<1>7. vs \in Seq(Value) /\ Len(vs) = 1 /\ vs[1] = v
  BY <1>6
<1>8. \A i \in 1 .. Len(vs) : Current(vs[i])
  BY <1>6, <1>7
<1>9. c0 \in Cell /\ c0[1] = b
  BY <1>4, Places
<1>10. hd' = [hd EXCEPT ![b] = h] /\ field' = Filled(field, b, vs) /\ SetTable(t)
  BY <1>2
<1>11. /\ GoodTable(t) /\ \A c : Known(c) => Entered(t, c)
       /\ \A c : Entered(t, c) => Known(c) \/ (c = c0 /\ c0[1] \in Old)
       /\ c0[1] \in Old /\ IsYoung(v) /\ ~IsYoung(field[c0]) => Entered(t, c0)
  <2> HIDE DEF c0
  <2>1. QED
    BY <1>1, <1>6, <1>9, TableGood, EnterGood
<1> HIDE DEF h, vs, t
<1>12. ASSUME NEW c \in Cell, c[1] = b, b \in Old, IsYoung(Filled(field, b, vs)[c])
       PROVE  Entered(t, c)
  <2>1. c[2] \in 0 .. Len(vs) - 1 /\ IsYoung(vs[c[2] + 1])
    <3>1. ~IsYoung(Imm)
      BY Places DEF IsYoung
    <3>2. QED
      BY <1>1, <1>4, <1>7, <1>12, <3>1, FilledIs DEF Sound
  <2>2. c[2] = 0 /\ c = c0
    BY <1>7, <1>12, <2>1, Places
  <2>3. IsYoung(v)
    BY <1>7, <2>1, <2>2
  <2>4. CASE IsYoung(field[c])
    BY <1>1, <1>11, <1>12, <2>4 DEF Sound
  <2>5. CASE ~IsYoung(field[c])
    BY <1>11, <1>12, <2>2, <2>3, <2>5
  <2>6. QED
    BY <2>4, <2>5
<1>13. \A c \in Cell : c[1] = b /\ b \in Old /\ IsYoung(Filled(field, b, vs)[c]) => Entered(t, c)
  BY <1>12
<1>14. h.kind = "raw" => \A i \in 0 .. NF - 1 : i < h.size => i < Len(vs) /\ vs[i + 1] \in Bytes
  BY <1>5
<1>15. /\ GoodTable(t) /\ \A c : Known(c) => Entered(t, c)
       /\ \A c : Entered(t, c) => Known(c) \/ (c[1] = b /\ b \in Old)
  BY <1>9, <1>11
<1>16. SetTable(t) /\ hd' = [hd EXCEPT ![b] = h] /\ field' = Filled(field, b, vs)
  BY <1>10
<1>17. vs \in Seq(Value) /\ h \in Header /\ h \notin {Free, Forwarded}
  BY <1>5, <1>7
<1>18. QED
  BY <1>3, <1>4, <1>8, <1>13, <1>14, <1>15, <1>16, <1>17, RefillKeeps

LEMMA UpdateInPlaceKeeps ==
  ASSUME HeapInv, Bytes \cap Young = {}, pc = "mutator", UpdateInPlace
  PROVE  HeapInv'
<1>1. TypeOK /\ Sound(hd, field) /\ TableInBounds /\ ref_table_size \in Nat \ {0}
  BY DEF HeapInv, Collecting, IdleInv
<1>2. PICK b \in HeldBlock, w \in HeldBlock :
        /\ hd[b].kind = "scan" /\ hd[w].kind \in {"scan", "raw"}
        /\ hd' = [hd EXCEPT ![b] = hd[w]]
        /\ LET vs == [i \in 1 .. hd[w].size |-> field[<<w, i - 1>>]]
           IN /\ field' = Filled(field, b, vs)
              /\ SetTable(EnterAll(Table, b, vs))
  BY DEF UpdateInPlace
<1>3. UNCHANGED <<area, young_ptr, callVars>>
  BY DEF UpdateInPlace
<1>4. b \in Young \cup Old /\ hd[b] \notin {Free, Forwarded}
  BY <1>1, <1>2, HeldBlockIs DEF Kinds
<1> DEFINE h == hd[w]
           n == h.size
           vs == [i \in 1 .. n |-> field[<<w, i - 1>>]]
           t == EnterAll(Table, b, vs)
<1>5. w \in Young \cup Old /\ h \in Header /\ h \notin {Free, Forwarded} /\ n \in 1 .. NF
  BY <1>1, <1>2, HeldBlockIs DEF Kinds
<1>6. n \in Nat /\ n <= NF /\ NF \in Nat
  BY <1>5, Places
<1>7. ASSUME NEW i \in 1 .. n PROVE <<w, i - 1>> \in Cell /\ i - 1 < n /\ i - 1 \in 0 .. NF - 1
  <2>1. i - 1 \in 0 .. NF - 1 /\ i - 1 < n
    BY <1>6
  <2>2. QED
    BY <1>5, <2>1, Places
<1>8. vs \in Seq(Value) /\ Len(vs) = n
  <2>1. \A i \in 1 .. n : field[<<w, i - 1>>] \in Value
    BY <1>1, <1>7 DEF Sound
  <2> HIDE DEF n
  <2>2. QED
    BY <1>6, <2>1
<1>9. \A i \in 1 .. Len(vs) : Current(vs[i])
  <2>1. \A i \in 1 .. n : Current(field[<<w, i - 1>>])
    BY <1>1, <1>7 DEF Sound, Current, CurrentIn
  <2>2. QED
    BY <1>8, <2>1
<1>10. h.kind = "raw" => \A i \in 0 .. NF - 1 : i < h.size => i < Len(vs) /\ vs[i + 1] \in Bytes
  <2>1. ASSUME h.kind = "raw", NEW i \in 0 .. NF - 1, i < n PROVE vs[i + 1] \in Bytes
    <3>1. i + 1 \in 1 .. n /\ (i + 1) - 1 = i
      BY <1>6, <2>1
    <3>2. vs[i + 1] = field[<<w, i>>]
      BY <3>1
    <3>3. <<w, i>> \in Cell
      BY <1>5, Places
    <3>4. QED
      BY <1>1, <1>5, <2>1, <3>2, <3>3 DEF Sound
  <2>2. QED
    BY <1>8, <2>1
<1>11. hd' = [hd EXCEPT ![b] = h] /\ field' = Filled(field, b, vs) /\ SetTable(t)
  BY <1>2
<1> HIDE DEF h, n, vs
<1>12. /\ GoodTable(t)
       /\ \A c : Known(c) => Entered(t, c)
       /\ \A c : Entered(t, c) => Known(c) \/ (c[1] = b /\ b \in Old)
       /\ \A c \in Cell : c[1] = b /\ b \in Old /\ IsYoung(Filled(field, b, vs)[c]) => Entered(t, c)
  BY <1>1, <1>4, <1>6, <1>8, FilledKnown
<1> HIDE DEF t
<1>13. QED
  BY <1>3, <1>4, <1>5, <1>8, <1>9, <1>10, <1>11, <1>12, RefillKeeps

LEMMA TableSizeIs ==
  ASSUME NEW n \in MinorSizes PROVE TableSize(n) \in Nat \ {0} /\ n + 1 \in Int /\ 1 <= n + 1
<1>1. n \in Nat
  BY YoungAssumption
<1>2. n \div 8 \in Nat
  BY <1>1
<1>3. QED
  BY <1>1, <1>2 DEF TableSize

\* A table that is empty has room for one reference.
LEMMA EmptyTable ==
  ASSUME NEW n \in MinorSizes, ref_table' = <<>>, ref_table_size' = TableSize(n),
         ref_table_limit' = ref_table_size'
  PROVE  TableInBounds' /\ ref_table_size' \in Nat \ {0} /\ ref_table' \in Seq(Old \X (0 .. NF - 1))
<1>1. TableSize(n) \in Nat \ {0}
  BY TableSizeIs
<1>2. Len(ref_table') = 0 /\ ref_table' \in Seq(Old \X (0 .. NF - 1))
  OBVIOUS
<1>3. QED
  BY <1>1, <1>2 DEF TableInBounds

LEMMA HeapInit ==
  ASSUME Init PROVE HeapInv
<1>1. PICK n \in MinorSizes : young_end = n + 1
  BY DEF Init
<1>2. TableSize(n) \in Nat \ {0} /\ young_end \in Int /\ 1 <= young_end
  BY <1>1, TableSizeIs
<1>3. n \in Int /\ young_end - 1 = n
  BY <1>1, YoungAssumption
<1>4. ref_table_size = TableSize(n) /\ ref_table_limit = ref_table_size
  BY <1>3 DEF Init
<1>5. TableInBounds /\ ref_table_size \in Nat \ {0}
  <2>1. ref_table = <<>> /\ Len(ref_table) = 0
    BY DEF Init
  <2>2. QED
    BY <1>2, <1>4, <2>1 DEF TableInBounds
<1>6. hd \in [Young \cup Old -> Header] /\ \A b \in Young \cup Old : hd[b] = Free
  BY HeaderIs DEF Init
<1>7. field \in [Cell -> Value] /\ \A c \in Cell : field[c] = Imm /\ ~IsYoung(field[c])
  BY Places DEF Init, IsYoung
<1>8. TypeOK
  <2>1. /\ ref_table = <<>> /\ force_major_slice = FALSE
        /\ max_young \in YoungLimits /\ pc = "mutator" /\ call = NoCall /\ young_ptr = young_end
    BY DEF Init
  <2>2. young_ptr \in 1 .. young_end /\ young_end \in {m + 1 : m \in MinorSizes}
    BY <1>1, <1>2, <2>1
  <2>3. <<>> \in Seq(Old \X (0 .. NF - 1))
    OBVIOUS
  <2>4. QED
    BY <1>6, <1>7, <2>1, <2>2, <2>3 DEF TypeOK
<1>9. Capacity
  <2>1. MayMove = {}
    BY <1>6 DEF MayMove
  <2>2. Cardinality(MayMove) = 0
    BY <2>1, FS_EmptySet
  <2>3. QED
    BY <2>2, Counting
<1>10. Sound(hd, field)
  <2>1. \A c : ~Known(c)
    BY DEF Init, Known
  <2>2. QED
    BY <1>6, <1>7, <2>1, HeaderIs DEF Sound, Kinds
<1>11. IdleInv /\ ~Collecting
  BY <1>10 DEF Init, IdleInv, Collecting
<1>12. QED
  BY <1>5, <1>8, <1>9, <1>11 DEF HeapInv

LEMMA SetMinorHeapSizeKeeps ==
  ASSUME HeapInv, SetMinorHeapSize PROVE HeapInv'
<1>1. PICK n \in MinorSizes : /\ young_end' = n + 1
                              /\ young_ptr' = young_end'
                              /\ ref_table_size' = TableSize(n)
                              /\ ref_table_limit' = ref_table_size'
  BY DEF SetMinorHeapSize
<1>2. /\ pc = "mutator" /\ young_ptr = young_end /\ ref_table' = <<>>
      /\ UNCHANGED <<max_young, hd, field, force_major_slice, gcVars>>
  BY DEF SetMinorHeapSize
<1>3. TypeOK /\ IdleInv /\ Sound(hd, field) /\ Capacity
  BY <1>2 DEF HeapInv, Collecting, IdleInv
<1>4. TableInBounds' /\ ref_table_size' \in Nat \ {0} /\ ref_table' \in Seq(Old \X (0 .. NF - 1))
  BY <1>1, <1>2, EmptyTable
<1>5. young_end' \in Int /\ 1 <= young_end'
  BY <1>1, TableSizeIs
<1>6. \A c \in Cell : ~IsYoung(field[c])
  <2>1. ASSUME NEW c \in Cell, IsYoung(field[c]) PROVE FALSE
    <3>1. field[c] \in Int /\ young_ptr \in Int /\ young_end \in Int
      BY <1>3, <2>1, AreaIs DEF IsYoung
    <3>2. young_ptr <= field[c] /\ field[c] < young_end
      BY <1>3, <2>1 DEF Sound
    <3>3. QED
      BY <1>2, <3>1, <3>2
  <2>2. QED
    BY <2>1
<1>7. pc' = "mutator" /\ call' = call /\ todo' = todo /\ work' = work /\ hd' = hd /\ field' = field
      /\ max_young' = max_young /\ force_major_slice' = force_major_slice
  BY <1>2 DEF gcVars, callVars
<1>8. TypeOK'
  <2>1. young_ptr' \in 1 .. young_end' /\ young_end' \in {m + 1 : m \in MinorSizes}
    BY <1>1, <1>5
  <2>2. QED
    BY <1>3, <1>4, <1>7, <2>1 DEF TypeOK, IdleInv
<1>9. Sound(hd, field)'
  <2>1. \A c : ~Known(c)'
    BY <1>2 DEF Known
  <2>2. QED
    BY <1>3, <1>6, <1>7, <2>1 DEF Sound
<1>10. IdleInv' /\ ~Collecting'
  BY <1>3, <1>7, <1>9 DEF IdleInv, Collecting
<1>11. Capacity'
  BY <1>3, <1>7 DEF Capacity
<1>12. QED
  BY <1>4, <1>8, <1>10, <1>11 DEF HeapInv

-----------------------------------------------------------------------------
(* The collection begins and ends                                          *)

\* The slice of the major collection frees blocks and clears them.
LEMMA MajorSliceKeeps ==
  ASSUME HeapInv, MajorSlice PROVE HeapInv'
<1>1. PICK dead \in SUBSET {b \in Old : hd[b] # Free /\ Unreachable(b)} :
       /\ hd' = [b \in Young \cup Old |-> IF b \in dead THEN Free ELSE hd[b]]
       /\ field' = [c \in Cell |-> IF c[1] \in dead THEN Imm ELSE field[c]]
  BY DEF MajorSlice
<1>2. /\ pc = "slice" /\ force_major_slice' = FALSE /\ pc' = "mutator"
      /\ UNCHANGED <<area, young_ptr, tableVars, work, call, todo, before, steps>>
  BY DEF MajorSlice
<1>3. TypeOK /\ IdleInv /\ Sound(hd, field) /\ TableInBounds /\ ref_table_size \in Nat \ {0}
  BY <1>2 DEF HeapInv, Collecting, IdleInv
<1>4. /\ \A b \in Young : hd[b] = Free
      /\ \A c \in Cell : ~IsYoung(field[c])
      /\ ref_table = <<>> /\ ref_table_limit = ref_table_size
  BY <1>2, <1>3 DEF IdleInv
<1>5. dead \in SUBSET Old /\ Imm \in Value /\ ~IsYoung(Imm) /\ Free \in Header /\ Young \cap Old = {}
  BY <1>1, Places, HeaderIs DEF IsYoung
<1>6. hd' \in [Young \cup Old -> Header] /\ field' \in [Cell -> Value]
  BY <1>1, <1>3, <1>5 DEF TypeOK, Sound
<1>7. /\ \A b \in Young : hd'[b] = Free
      /\ \A b \in Young \cup Old : hd'[b] = hd[b] \/ (b \in dead /\ hd'[b] = Free)
  BY <1>1, <1>4, <1>5
<1>8. \A c \in Cell : /\ ~IsYoung(field'[c])
                      /\ c[1] \in dead => field'[c] = Imm
                      /\ c[1] \notin dead => field'[c] = field[c]
  BY <1>1, <1>4, <1>5
<1>9. /\ young_ptr' = young_ptr /\ young_end' = young_end /\ max_young' = max_young
      /\ ref_table' = <<>> /\ ref_table_size' = ref_table_size /\ ref_table_limit' = ref_table_size
      /\ work' = work /\ call' = call /\ todo' = todo
  BY <1>2, <1>4 DEF area, tableVars
<1>10. Sound(hd, field)'
  <2>1. \A b \in Young \cup Old : hd'[b] # Forwarded
    BY <1>3, <1>7, HeaderIs DEF Sound
  <2>2. \A c \in Cell : c[1] \in Old /\ hd'[c[1]] = Free => field'[c] = Imm
    <3>1. ASSUME NEW c \in Cell, c[1] \in Old, hd'[c[1]] = Free, c[1] \notin dead PROVE field'[c] = Imm
      <4>1. hd[c[1]] = Free
        BY <1>1, <3>1
      <4>2. QED
        BY <1>3, <1>8, <3>1, <4>1 DEF Sound
    <3>2. QED
      BY <1>8, <3>1
  <2>3. ASSUME NEW c \in Cell, c[1] \in Young \cup Old, hd'[c[1]].kind = "raw", c[2] < hd'[c[1]].size
        PROVE  field'[c] \in Bytes
    <3>1. hd'[c[1]] # Free
      BY <2>3, HeaderIs DEF Kinds
    <3>2. hd'[c[1]] = hd[c[1]] /\ c[1] \notin dead
      BY <1>1, <2>3, <3>1
    <3>3. QED
      BY <1>3, <1>8, <2>3, <3>2 DEF Sound
  <2>4. \A c : ~Known(c)'
    BY <1>9 DEF Known
  <2>5. QED
    BY <1>6, <1>8, <2>1, <2>2, <2>3, <2>4 DEF Sound
<1>11. IdleInv' /\ ~Collecting'
  BY <1>2, <1>3, <1>9, <1>10 DEF IdleInv, Collecting
<1>12. Capacity'
  <2>1. MayMove' = {}
    BY <1>7 DEF MayMove
  <2>2. Cardinality(MayMove') = 0
    BY <2>1, FS_EmptySet
  <2>3. FreeOld' \in SUBSET Old
    BY DEF FreeOld
  <2>4. Cardinality(FreeOld') \in Nat
    BY <2>3, FiniteHeap, FS_Subset, FS_CardinalityType
  <2>5. Cardinality(MayMove') <= Cardinality(FreeOld')
    BY <2>2, <2>4
  <2>6. QED
    BY <2>5 DEF Capacity, MayMove, FreeOld
<1>13. TypeOK'
  BY <1>2, <1>3, <1>6, <1>9 DEF TypeOK, IdleInv
<1>14. TableInBounds' /\ ref_table_size' \in Nat \ {0}
  <2>1. ref_table_limit' = ref_table_size' /\ ref_table_size' \in Nat \ {0}
    BY <1>3, <1>9
  <2>2. Len(ref_table') = 0
    BY <1>9
  <2>3. QED
    BY <2>1, <2>2 DEF TableInBounds
<1>15. QED
  BY <1>11, <1>12, <1>13, <1>14 DEF HeapInv

\* What is not a young indirection has itself behind it.
LEMMA BehindItself ==
  before.field \in [Cell -> Value] =>
    \A v \in Value : ~(IsYoung(v) /\ before.hd[v].kind = "ind") => Behind(v) = v
<1>1. ASSUME before.field \in [Cell -> Value], NEW v \in Value,
             ~(IsYoung(v) /\ before.hd[v].kind = "ind")
      PROVE  Behind(v) = v
  BY <1>1, BehindIs
<1>2. QED
  BY <1>1

LEMMA StartCollectionKeeps ==
  ASSUME HeapInv, StartCollection PROVE HeapInv'
<1>1. /\ pc = "mutator" /\ pc' = "roots" /\ k' = 1
      /\ before' = [hd |-> hd, field |-> field]
      /\ UNCHANGED <<hd, field, area, young_ptr, tableVars, force_major_slice, work, call, todo, steps>>
  BY DEF StartCollection
<1>2. TypeOK /\ IdleInv /\ Sound(hd, field) /\ TableInBounds /\ ref_table_size \in Nat \ {0} /\ Capacity
  BY <1>1 DEF HeapInv, Collecting, IdleInv
<1>3. /\ before'.hd = hd /\ before'.field = field /\ hd' = hd /\ field' = field
      /\ young_ptr' = young_ptr /\ young_end' = young_end /\ max_young' = max_young
      /\ ref_table' = ref_table /\ ref_table_size' = ref_table_size /\ ref_table_limit' = ref_table_limit
      /\ work' = Imm /\ call' = NoCall /\ todo' = <<>> /\ force_major_slice' = force_major_slice
  BY <1>1, <1>2 DEF area, tableVars, IdleInv
<1>4. Sound(before.hd, before.field)'
  <2>1. \A c : Known(c)' <=> Known(c)
    BY <1>3 DEF Known
  <2>2. QED
    BY <1>2, <1>3, <2>1 DEF Sound
<1>5. Promoted' = {}
  BY <1>2, <1>3 DEF Promoted, Sound
<1>6. HeadersKept'
  BY <1>3 DEF HeadersKept
<1>7. CopiesMade'
  <2>1. \A c \in Cell : c[1] \in Old /\ hd[c[1]] = Free => field[c] = Imm
    BY <1>2 DEF Sound
  <2>2. QED
    BY <1>3, <1>5, <2>1 DEF CopiesMade
<1>8. CellsDone'
  <2>1. ASSUME NEW c \in Cell, NEW s \in Cell, From(c, s)' PROVE Settled(c, s)' \/ Waits(c, s)'
    <3>1. s = c /\ (c[1] \in Root \/ c[1] \in Old)
      BY <1>5, <2>1 DEF From
    <3>2. CASE c[1] \in Root
      <4>1. PICK j \in 1 .. Len(Roots) : Roots[j] = c[1]
        BY <3>2 DEF Root
      <4>2. Scanned(c)'
        BY <1>1, <1>3, <3>2, <4>1 DEF Scanned
      <4>3. QED
        BY <3>1, <4>2 DEF Waits
    <3>3. CASE c[1] \in Old /\ IsYoung(field[c])
      <4>1. Known(c)
        BY <1>2, <3>3 DEF Sound
      <4>2. Known(c)'
        BY <1>3, <4>1 DEF Known
      <4>3. Scanned(c)'
        BY <1>1, <1>3, <3>3, <4>2 DEF Scanned
      <4>4. QED
        BY <3>1, <4>3 DEF Waits
    <3>4. CASE c[1] \in Old /\ ~IsYoung(field[c])
      <4>1. field[c] \in Old \cup {Imm} /\ field[c] \in Value
        BY <1>2, <3>4, Places DEF Sound, IsYoung
      <4>2. (before.field \in [Cell -> Value] =>
              \A v \in Value : ~(IsYoung(v) /\ before.hd[v].kind = "ind") => Behind(v) = v)'
        BY BehindItself, PTL
      <4>3. before'.field \in [Cell -> Value]
        BY <1>2, <1>3 DEF Sound
      <4>4. Behind(field[c])' = field[c]
        BY <1>3, <3>4, <4>1, <4>2, <4>3
      <4>5. Behind(before.field[s])' = field[c]
        BY <1>3, <3>1, <4>4
      <4>6. Settled(c, s)'
        BY <1>3, <3>4, <4>1, <4>5 DEF Settled, Image, IsYoung
      <4>7. QED
        BY <4>6
    <3>5. QED
      BY <3>1, <3>2, <3>3, <3>4
  <2>2. QED
    BY <2>1 DEF CellsDone
<1>9. CallGoesOn'
  BY <1>3 DEF CallGoesOn
<1>10. ListKept'
  <2>1. <<>> \in Seq(Young) /\ DOMAIN <<>> = {}
    OBVIOUS
  <2>2. QED
    BY <1>1, <1>3, <2>1 DEF ListKept
<1>11. TypeOK'
  BY <1>1, <1>2, <1>3 DEF TypeOK
<1>12. TableInBounds' /\ ref_table_size' \in Nat \ {0} /\ Capacity'
  BY <1>2, <1>3 DEF TableInBounds, Capacity
<1>13. Collecting' /\ CollectInv'
  BY <1>1, <1>4, <1>6, <1>7, <1>8, <1>9, <1>10 DEF Collecting, CollectInv
<1>14. QED
  BY <1>11, <1>12, <1>13 DEF HeapInv

-----------------------------------------------------------------------------
(* A step of the collection                                                *)

\* What a collection starts from, and what it has to itself.
LEMMA CollectFacts ==
  ASSUME HeapInv, Collecting
  PROVE  /\ TypeOK /\ CollectInv /\ Capacity
         /\ before.hd \in [Young \cup Old -> Header] /\ before.field \in [Cell -> Value]
         /\ \A b \in Young \cup Old : before.hd[b] # Forwarded
         /\ \A b \in Young : hd[b] # Forwarded => hd[b] = before.hd[b]
         /\ \A b \in Promoted : b \in Young /\ before.hd[b].kind \in {"scan", "raw"}
                                /\ before.hd[b] \notin {Free, Forwarded} /\ before.hd[b].size \in 1 .. NF
<1>1. TypeOK /\ CollectInv /\ Capacity
  BY DEF HeapInv
<1>2. /\ before.hd \in [Young \cup Old -> Header] /\ before.field \in [Cell -> Value]
      /\ \A b \in Young \cup Old : before.hd[b] # Forwarded
  BY <1>1 DEF CollectInv, Sound
<1>3. \A b \in Young : hd[b] # Forwarded => hd[b] = before.hd[b]
  BY <1>1 DEF CollectInv, HeadersKept
<1>4. ASSUME NEW b \in Promoted
      PROVE  b \in Young /\ before.hd[b].kind \in {"scan", "raw"}
             /\ before.hd[b] \notin {Free, Forwarded} /\ before.hd[b].size \in 1 .. NF
  <2>1. b \in Young /\ hd[b] = Forwarded
    BY DEF Promoted
  <2>2. before.hd[b].kind \in {"scan", "raw"} /\ before.hd[b] \in Header
    BY <1>1, <1>2, <2>1 DEF CollectInv, HeadersKept
  <2>3. QED
    BY <2>1, <2>2, HeaderIs DEF Kinds
<1>5. QED
  BY <1>1, <1>2, <1>3, <1>4

\* The cells that the collection has to care about: no cells of the young area, and fields
\* of blocks in use.
LEMMA FromWhere ==
  ASSUME HeapInv, Collecting, NEW c, NEW s \in Cell, From(c, s)
  PROVE  /\ c \in Cell /\ c[1] \notin Young
         /\ c[1] \in Old => hd[c[1]] # Free
         /\ c[1] \in Old /\ before.hd[c[1]] = Free => c[2] < hd[c[1]].size
<1>1. HeadersKept /\ CopiesMade
  BY CollectFacts DEF CollectInv
<1>2. CASE s = c /\ (c[1] \in Root \/ (c[1] \in Old /\ before.hd[c[1]] # Free))
  BY <1>1, <1>2, Places DEF HeadersKept
<1>3. CASE s[1] \in Promoted /\ c = <<Copy(s[1]), s[2]>> /\ s[2] < before.hd[s[1]].size
  <2>1. /\ Copy(s[1]) \in Old /\ hd[Copy(s[1])] = before.hd[s[1]]
        /\ before.hd[s[1]] # Free /\ s[1] \in Young
    BY <1>1, <1>3, CollectFacts DEF CopiesMade
  <2>2. s[2] \in 0 .. NF - 1
    BY <2>1, Places
  <2>3. QED
    BY <1>3, <2>1, <2>2, Places
<1>4. QED
  BY <1>2, <1>3 DEF From

\* What a cell holds comes from one cell.
LEMMA FromUnique ==
  ASSUME HeapInv, Collecting, NEW c, NEW s \in Cell, NEW t \in Cell, From(c, s), From(c, t)
  PROVE  s = t
<1>1. CopiesMade
  BY CollectFacts DEF CollectInv
<1>2. ASSUME NEW u \in Cell, u[1] \in Promoted, c = <<Copy(u[1]), u[2]>>
      PROVE  c[1] \in Old /\ before.hd[c[1]] = Free /\ c[1] \notin Root
  BY <1>1, <1>2, Places DEF CopiesMade
<1>3. CASE s = c /\ t = c
  BY <1>3
<1>4. CASE s # c /\ t # c
  <2>1. s[1] \in Promoted /\ t[1] \in Promoted /\ c = <<Copy(s[1]), s[2]>> /\ c = <<Copy(t[1]), t[2]>>
    BY <1>4 DEF From
  <2>2. s[1] = t[1] /\ s[2] = t[2]
    BY <1>1, <2>1 DEF CopiesMade
  <2>3. QED
    BY <2>2, Places
<1>5. CASE s # c /\ t = c
  <2>1. s[1] \in Promoted /\ c = <<Copy(s[1]), s[2]>>
    BY <1>5 DEF From
  <2>2. c[1] \in Old /\ before.hd[c[1]] = Free /\ c[1] \notin Root
    BY <1>2, <2>1
  <2>3. ~(t[1] \in Promoted /\ c = <<Copy(t[1]), t[2]>>)
    BY <1>5, <2>2, Places, CollectFacts
  <2>4. QED
    BY <1>5, <2>2, <2>3 DEF From
<1>6. CASE s = c /\ t # c
  <2>1. t[1] \in Promoted /\ c = <<Copy(t[1]), t[2]>>
    BY <1>6 DEF From
  <2>2. c[1] \in Old /\ before.hd[c[1]] = Free /\ c[1] \notin Root
    BY <1>2, <2>1
  <2>3. ~(s[1] \in Promoted /\ c = <<Copy(s[1]), s[2]>>)
    BY <1>6, <2>2, Places, CollectFacts
  <2>4. QED
    BY <1>6, <2>2, <2>3 DEF From
<1>7. QED
  BY <1>3, <1>4, <1>5, <1>6

\* What was behind a value does not change in a collection; a promoted block stays so, with
\* its forward pointer.
MarksStay ==
  /\ before' = before
  /\ \A b \in Promoted : hd'[b] = Forwarded /\ field'[<<b, 0>>] = field[<<b, 0>>]

LEMMA BehindSame ==
  ASSUME before' = before PROVE \A v : Behind(v)' = Behind(v)
  BY DEF Behind

\* A cell that has been settled and is not written stays settled.
LEMMA SettledStays ==
  ASSUME MarksStay, NEW c, NEW s, Settled(c, s), field'[c] = field[c]
  PROVE  Settled(c, s)'
<1> DEFINE v == before.field[s]
<1>1. before' = before /\ \A u : Behind(u)' = Behind(u)
  BY BehindSame DEF MarksStay
<1>2. Behind(before.field[s])' = Behind(v)
  BY <1>1
<1>3. IsYoung(Behind(v)) => Behind(v) \in Promoted
  BY DEF Settled, Promoted, IsYoung
<1>4. IsYoung(Behind(v)) => /\ hd'[Behind(v)] = Forwarded
                            /\ field'[<<Behind(v), 0>>] = field[<<Behind(v), 0>>]
  BY <1>3 DEF MarksStay
<1>5. field'[c] \in Old \cup {Imm}
  BY DEF Settled
<1>6. field[c] = IF IsYoung(Behind(v)) THEN field[<<Behind(v), 0>>] ELSE Behind(v)
  BY DEF Settled, Image
<1>7. field'[c] = Image(before.field[s])'
  BY <1>1, <1>2, <1>4, <1>6 DEF Image, IsYoung
<1>8. QED
  BY <1>2, <1>4, <1>5, <1>7 DEF Settled, IsYoung

\* What is left to show for a step of the collection.
LEMMA CollectKeeps ==
  ASSUME HeapInv, Collecting, UNCHANGED mutatorVars, Collecting',
         hd' \in [Young \cup Old -> Header], field' \in [Cell -> Value \cup {Link}],
         (call # NoCall => V \in Value /\ P \in Cell)', Capacity', HeadersKept', CopiesMade', CellsDone',
         CallGoesOn', ListKept'
  PROVE  HeapInv'
<1>1. TypeOK /\ CollectInv /\ TableInBounds /\ ref_table_size \in Nat \ {0}
  BY DEF HeapInv
<1>2. /\ before' = before /\ young_ptr' = young_ptr /\ young_end' = young_end /\ max_young' = max_young
      /\ ref_table' = ref_table /\ ref_table_size' = ref_table_size
      /\ ref_table_limit' = ref_table_limit /\ force_major_slice' = force_major_slice
  BY DEF mutatorVars, area, tableVars
<1>3. Sound(before.hd, before.field)'
  BY <1>1, <1>2 DEF CollectInv, Sound, Known
<1>4. TypeOK'
  BY <1>1, <1>2 DEF TypeOK, Collecting
<1>5. TableInBounds' /\ ref_table_size' \in Nat \ {0}
  BY <1>1, <1>2 DEF TableInBounds
<1>6. CollectInv'
  BY <1>3 DEF CollectInv
<1>7. QED
  BY <1>4, <1>5, <1>6 DEF HeapInv

\* Only cells are written that the collection has to care about.
WritesCared == \A c \in Cell : field'[c] # field[c] => \E s \in Cell : From(c, s)

\* A step that promotes nothing and writes only into cells that the collection has to care
\* about.
LEMMA HeadersSame ==
  ASSUME HeapInv, Collecting, before' = before, hd' = hd,
         WritesCared
  PROVE  /\ HeadersKept' /\ CopiesMade' /\ Capacity' /\ MarksStay /\ Promoted' = Promoted
         /\ \A c \in Cell : c[1] \in Young => field'[c] = field[c]
         /\ \A c, s : From(c, s)' <=> From(c, s)
<1>1. HeadersKept /\ CopiesMade /\ Capacity
  BY CollectFacts DEF CollectInv
<1>2. \A c \in Cell : c[1] \in Young => field'[c] = field[c]
  BY FromWhere DEF WritesCared
<1>3. Promoted' = Promoted /\ \A b \in Promoted : b \in Young /\ hd[b] = Forwarded
  BY DEF Promoted
<1>4. \A b \in Young : Copy(b)' = Copy(b)
  <2> TAKE b \in Young
  <2>1. <<b, 0>> \in Cell /\ <<b, 0>>[1] = b
    BY Places
  <2>2. QED
    BY <1>2, <2>1 DEF Copy
<1>5. \A b \in Promoted : Copy(b)' = Copy(b)
  BY <1>3, <1>4
<1>6. MarksStay
  BY <1>3, <1>5 DEF MarksStay, Copy
<1>7. HeadersKept'
  BY <1>1, <1>3, <1>5 DEF HeadersKept
<1>8. CopiesMade'
  <2>1. \A c \in Cell : c[1] \in Old /\ before.hd[c[1]] = Free /\ c[2] >= hd[c[1]].size => field'[c] = Imm
    <3>1. ASSUME NEW c \in Cell, c[1] \in Old, before.hd[c[1]] = Free, c[2] >= hd[c[1]].size,
                 field'[c] # field[c]
          PROVE  FALSE
      <4>1. PICK s \in Cell : From(c, s)
        BY <3>1 DEF WritesCared
      <4>2. c[2] < hd[c[1]].size
        BY <3>1, <4>1, FromWhere
      <4>3. c[2] \in Int /\ hd[c[1]].size \in Int
        <5>1. hd[c[1]] \in Header /\ c[2] \in 0 .. NF - 1
          BY <3>1, Places, CollectFacts DEF TypeOK
        <5>2. QED
          BY <5>1, HeaderIs
      <4>4. QED
        BY <3>1, <4>2, <4>3
    <3>2. QED
      BY <1>1, <3>1 DEF CopiesMade
  <2>2. \A c \in Cell : IsYoung(c[1]) /\ ~(c[2] = 0 /\ c[1] \in Promoted) => field'[c] = before.field[c]
    BY <1>1, <1>2 DEF CopiesMade, IsYoung
  <2>3. QED
    BY <1>1, <1>3, <1>5, <2>1, <2>2 DEF CopiesMade
<1>9. Capacity'
  BY <1>1 DEF Capacity
<1>10. \A c, s : From(c, s)' <=> From(c, s)
  BY <1>3, <1>5 DEF From
<1>11. QED
  BY <1>2, <1>3, <1>6, <1>7, <1>8, <1>9, <1>10

\* oldify_one ends: its cell is given what it must hold, and the others stay as they are.
LEMMA ReturnKeeps ==
  ASSUME HeapInv, Collecting, call # NoCall, NEW s \in Cell, From(P, s),
         NEW w \in Old \cup {Imm}, field' = [field EXCEPT ![P] = w], call' = NoCall,
         w = Image(before.field[s]),
         IsYoung(Behind(before.field[s])) => hd[Behind(before.field[s])] = Forwarded,
         UNCHANGED <<hd, todo, mutatorVars, pc, k, work>>
  PROVE  HeapInv'
<1>1. TypeOK /\ CollectInv
  BY CollectFacts
<1>2. P \in Cell /\ P[1] \notin Young
  BY FromWhere
<1>3. before' = before /\ hd' = hd /\ todo' = todo /\ pc' = pc /\ k' = k /\ work' = work
      /\ ref_table' = ref_table
  BY DEF mutatorVars, tableVars
<1>4. w \in Value
  BY Places
<1>5. /\ field' \in [Cell -> Value \cup {Link}] /\ field'[P] = w
      /\ \A c \in Cell : c # P => field'[c] = field[c]
  BY <1>1, <1>2, <1>4 DEF TypeOK
<1>6. /\ HeadersKept' /\ CopiesMade' /\ Capacity' /\ MarksStay /\ Promoted' = Promoted
      /\ \A c, t : From(c, t)' <=> From(c, t)
  <2>1. WritesCared
    BY <1>5 DEF WritesCared
  <2>2. QED
    BY <1>3, <2>1, HeadersSame
<1>7. ASSUME NEW c \in Cell, NEW t \in Cell, From(c, t) PROVE Settled(c, t)' \/ Waits(c, t)'
  <2>1. CASE c = P
    <3>1. s = t
      BY <1>7, <2>1, FromUnique
    <3>2. w = IF IsYoung(Behind(before.field[s])) THEN field[<<Behind(before.field[s]), 0>>]
              ELSE Behind(before.field[s])
      BY DEF Image
    <3>3. IsYoung(Behind(before.field[s])) =>
             field'[<<Behind(before.field[s]), 0>>] = field[<<Behind(before.field[s]), 0>>]
      BY <1>6 DEF MarksStay, Promoted, IsYoung
    <3>4. Behind(before.field[s])' = Behind(before.field[s])
      BY <1>3, BehindSame
    <3>5. w = Image(before.field[s])'
      BY <3>2, <3>3, <3>4 DEF Image, IsYoung
    <3>6. Settled(c, s)'
      BY <1>3, <1>5, <2>1, <3>4, <3>5 DEF Settled, IsYoung
    <3>7. QED
      BY <3>1, <3>6
  <2>2. CASE c # P
    <3>1. Settled(c, t) \/ Waits(c, t)
      BY <1>1, <1>7, <2>2 DEF CollectInv, CellsDone
    <3>2. field'[c] = field[c]
      BY <1>5, <2>2
    <3>3. Settled(c, t) => Settled(c, t)'
      BY <1>6, <3>2, SettledStays
    <3>4. Waits(c, t) => Waits(c, t)'
      BY <1>3, <3>2 DEF Waits, Scanned, Listed, Known
    <3>5. QED
      BY <3>1, <3>3, <3>4
  <2>3. QED
    BY <2>1, <2>2
<1>8. CellsDone' /\ CallGoesOn'
  BY <1>6, <1>7 DEF CellsDone, CallGoesOn
<1>9. ListKept'
  BY <1>1, <1>3, <1>6 DEF CollectInv, ListKept
<1>10. hd' \in [Young \cup Old -> Header] /\ Collecting' /\ (call # NoCall => V \in Value /\ P \in Cell)'
  BY <1>1, <1>3 DEF TypeOK, Collecting
<1>11. QED
  BY <1>5, <1>6, <1>8, <1>9, <1>10, CollectKeeps

LEMMA NotYoungKeeps ==
  ASSUME HeapInv, Collecting, NotYoung, UNCHANGED <<mutatorVars, pc, k, work>>
  PROVE  HeapInv'
<1>1. call # NoCall /\ ~IsYoung(V) /\ field' = [field EXCEPT ![P] = V] /\ call' = NoCall
      /\ UNCHANGED <<hd, todo>>
  BY DEF NotYoung, Return
<1>2. PICK s \in Cell : /\ From(P, s)
                        /\ \/ Behind(V) = Behind(before.field[s])
                           \/ V = field[P] /\ Settled(P, s)
  BY <1>1, CollectFacts DEF CollectInv, CallGoesOn
<1>3. V \in Value /\ V \in Old \cup {Imm}
  <2>1. V \in Value
    BY <1>1, CollectFacts DEF TypeOK
  <2>2. QED
    BY <1>1, <2>1, Places DEF IsYoung
<1>4. CASE Behind(V) = Behind(before.field[s])
  <2>1. Behind(V) = V
    BY <1>1, <1>3, CollectFacts, BehindItself
  <2>2. Behind(before.field[s]) = V
    BY <1>4, <2>1
  <2>3. V = Image(before.field[s]) /\ ~IsYoung(Behind(before.field[s]))
    BY <1>1, <2>2 DEF Image
  <2>4. QED
    BY <1>1, <1>2, <1>3, <2>3, ReturnKeeps
<1>5. CASE V = field[P] /\ Settled(P, s)
  <2>1. V = Image(before.field[s])
    BY <1>5 DEF Settled
  <2>2. IsYoung(Behind(before.field[s])) => hd[Behind(before.field[s])] = Forwarded
    BY <1>5 DEF Settled
  <2>3. QED
    BY <1>1, <1>2, <1>3, <2>1, <2>2, ReturnKeeps
<1>6. QED
  BY <1>2, <1>4, <1>5

\* A young block that oldify_one is given is behind what its cell held, if it is no
\* indirection.
LEMMA CalledFor ==
  ASSUME HeapInv, Collecting, call # NoCall, IsYoung(V)
  PROVE  /\ V \in Value /\ V \in Young /\ before.hd[V] # Free /\ young_ptr <= V
         /\ \E s \in Cell : /\ From(P, s) /\ Behind(V) = Behind(before.field[s])
                            /\ before.hd[V].kind # "ind" => Behind(before.field[s]) = V
<1>1. CallGoesOn
  BY CollectFacts DEF CollectInv
<1>2. V \in Value /\ V \in Young /\ before.hd[V] # Free /\ young_ptr <= V
  BY <1>1 DEF CallGoesOn, IsYoung
<1>3. PICK s \in Cell : /\ From(P, s)
                        /\ \/ Behind(V) = Behind(before.field[s])
                           \/ V = field[P] /\ Settled(P, s)
  BY <1>1 DEF CallGoesOn
<1>4. V \notin Old \cup {Imm}
  BY <1>2, Places
<1>5. Behind(V) = Behind(before.field[s])
  BY <1>3, <1>4 DEF Settled
<1>6. before.hd[V].kind # "ind" => Behind(V) = V
  BY <1>2, CollectFacts, BehindItself
<1>7. QED
  BY <1>2, <1>3, <1>5, <1>6

LEMMA AlreadyForwardedKeeps ==
  ASSUME HeapInv, Collecting, AlreadyForwarded, UNCHANGED <<mutatorVars, pc, k, work>>
  PROVE  HeapInv'
<1> DEFINE w == field[<<V, 0>>]
<1>1. call # NoCall /\ IsYoung(V) /\ hd[V] = Forwarded /\ field' = [field EXCEPT ![P] = w]
      /\ call' = NoCall /\ UNCHANGED <<hd, todo>>
  BY DEF AlreadyForwarded, Return
<1>2. PICK s \in Cell : /\ From(P, s)
                        /\ before.hd[V].kind # "ind" => Behind(before.field[s]) = V
  BY <1>1, CalledFor
<1>3. V \in Promoted
  BY <1>1 DEF Promoted, IsYoung
<1>4. before.hd[V].kind # "ind"
  BY <1>3, CollectFacts
<1>5. w \in Old
  BY <1>3, CollectFacts DEF CollectInv, CopiesMade, Copy
<1>6. Behind(before.field[s]) = V
  BY <1>2, <1>4
<1>7. w = Image(before.field[s])
  BY <1>1, <1>6 DEF Image
<1>8. IsYoung(Behind(before.field[s])) => hd[Behind(before.field[s])] = Forwarded
  BY <1>1, <1>6
<1> HIDE DEF w
<1>9. w \in Old \cup {Imm}
  BY <1>5
<1>10. QED
  BY <1>1, <1>2, <1>7, <1>8, <1>9, ReturnKeeps

LEMMA FollowKeeps ==
  ASSUME HeapInv, Collecting, Follow, UNCHANGED <<mutatorVars, pc, k, work>>
  PROVE  HeapInv'
<1>0. PICK u : u = field[<<V, 0>>]
  OBVIOUS
<1>1. call # NoCall /\ IsYoung(V) /\ hd[V].kind = "ind" /\ call' = <<u, P>>
      /\ UNCHANGED <<hd, field, todo>>
  BY <1>0 DEF Follow
<1>2. TypeOK /\ CollectInv
  BY CollectFacts
<1>3. V \in Value /\ V \in Young
  BY <1>1, CalledFor
<1>4. PICK s \in Cell : From(P, s) /\ Behind(V) = Behind(before.field[s])
  BY <1>1, CalledFor
<1>5. before' = before /\ hd' = hd /\ todo' = todo /\ pc' = pc /\ k' = k /\ work' = work
      /\ ref_table' = ref_table /\ young_ptr' = young_ptr /\ field' = field
  BY <1>1 DEF mutatorVars, tableVars
<1>6. hd[V] # Forwarded /\ V \notin Promoted /\ before.hd[V] = hd[V]
  <2>1. hd[V] # Forwarded
    BY <1>1 DEF Forwarded
  <2>2. QED
    BY <1>3, <2>1, CollectFacts DEF Promoted
<1>7. <<V, 0>> \in Cell /\ u = before.field[<<V, 0>>]
  <2>1. <<V, 0>> \in Cell
    BY <1>3, Places
  <2>2. QED
    BY <1>0, <1>1, <1>2, <1>6, <2>1 DEF CollectInv, CopiesMade
<1>8. Behind(V) = Behind(u)
  BY <1>1, <1>3, <1>6, <1>7, CollectFacts, BehindIs
<1>9. u \in Value /\ (IsYoung(u) => before.hd[u] # Free /\ young_ptr <= u)
  BY <1>2, <1>7 DEF CollectInv, Sound
<1>10. call' # NoCall /\ call'[1] = u /\ call'[2] = P
  BY <1>1 DEF NoCall
<1>11. /\ HeadersKept' /\ CopiesMade' /\ Capacity' /\ MarksStay /\ Promoted' = Promoted
       /\ \A c, t : From(c, t)' <=> From(c, t)
  <2>1. WritesCared
    BY <1>5 DEF WritesCared
  <2>2. QED
    BY <1>5, <2>1, HeadersSame
<1>12. CallGoesOn'
  <2>1. Behind(u)' = Behind(u) /\ Behind(before.field[s])' = Behind(before.field[s])
    BY <1>5, BehindSame
  <2>2. Behind(V)' = Behind(u)'
    <3>1. V' = u
      BY <1>10 DEF V
    <3>2. QED
      BY <1>5, <3>1 DEF Behind
  <2>3. Behind(V)' = Behind(before.field[s])'
    BY <1>4, <1>8, <2>1, <2>2
  <2>4. From(P, s)'
    <3>1. P' = P
      BY <1>10 DEF P
    <3>2. QED
      BY <1>4, <1>5, <1>11, <3>1 DEF From
  <2>5. (V \in Value)' /\ (IsYoung(V) => before.hd[V] # Free /\ young_ptr <= V)'
    BY <1>5, <1>9, <1>10 DEF V, IsYoung
  <2>6. QED
    BY <2>3, <2>4, <2>5 DEF CallGoesOn
<1>13. CellsDone'
  <2>1. ASSUME NEW c \in Cell, NEW t \in Cell, From(c, t), c # P PROVE Settled(c, t)' \/ Waits(c, t)'
    <3>1. Settled(c, t) \/ Waits(c, t)
      BY <1>2, <2>1 DEF CollectInv, CellsDone
    <3>2. Settled(c, t) => Settled(c, t)'
      BY <1>5, <1>11, SettledStays
    <3>3. Waits(c, t) => Waits(c, t)'
      BY <1>5 DEF Waits, Scanned, Listed, Known
    <3>4. QED
      BY <3>1, <3>2, <3>3
  <2>2. P' = P
    BY <1>10 DEF P
  <2>3. QED
    BY <1>10, <1>11, <2>1, <2>2 DEF CellsDone
<1>14. ListKept'
  <2>1. pc # "emptied"
    BY <1>1, <1>2 DEF CollectInv, ListKept
  <2>2. QED
    BY <1>2, <1>5, <1>11, <2>1 DEF CollectInv, ListKept
<1>15. hd' \in [Young \cup Old -> Header] /\ field' \in [Cell -> Value \cup {Link}] /\ Collecting'
  BY <1>2, <1>5 DEF TypeOK, Collecting
<1>16. (call # NoCall => V \in Value /\ P \in Cell)'
  <2>1. P \in Cell
    BY <1>1, <1>2 DEF TypeOK
  <2>2. QED
    BY <1>9, <1>10, <2>1 DEF V, P
<1>17. QED
  BY <1>11, <1>12, <1>13, <1>14, <1>15, <1>16, CollectKeeps

\* A cell that oldify_one is called for, because a loop has come to it.
LEMMA CallBegins ==
  ASSUME HeapInv, Collecting, NEW c \in Cell, From(c, c),
         Settled(c, c) \/ Scanned(c)
  PROVE  /\ field[c] \in Value
         /\ IsYoung(field[c]) => before.hd[field[c]] # Free /\ young_ptr <= field[c]
         /\ \/ Behind(field[c]) = Behind(before.field[c])
            \/ Settled(c, c)
<1>1. CASE Settled(c, c)
  <2>1. field[c] \in Old \cup {Imm}
    BY <1>1 DEF Settled
  <2>2. QED
    BY <1>1, <2>1, Places DEF IsYoung
<1>2. CASE Scanned(c)
  <2>1. field[c] = before.field[c]
    BY <1>2 DEF Scanned
  <2>2. QED
    BY <2>1, CollectFacts DEF CollectInv, Sound
<1>3. QED
  BY <1>1, <1>2

\* A step of a loop: it calls oldify_one for c, or comes to its end.
LEMMA LoopKeeps ==
  ASSUME HeapInv, Collecting, call = NoCall, UNCHANGED <<hd, field, mutatorVars, work, todo>>,
         work = Imm, pc' \in {"roots", "refs", "mopup"}, k' \in Nat, k' > 0 \/ pc' = "mopup",
         \/ call' = NoCall
         \/ \E c \in Cell : From(c, c) /\ call' = <<field[c], c>>,
         \A c \in Cell : Scanned(c) /\ From(c, c) => Scanned(c)' \/ (call' # NoCall /\ call'[2] = c)
  PROVE  HeapInv'
<1>1. TypeOK /\ CollectInv
  BY CollectFacts
<1>2. /\ before' = before /\ hd' = hd /\ field' = field /\ work' = Imm /\ todo' = todo
      /\ young_ptr' = young_ptr
  BY DEF mutatorVars
<1>3. /\ HeadersKept' /\ CopiesMade' /\ Capacity' /\ MarksStay /\ Promoted' = Promoted
      /\ \A c, t : From(c, t)' <=> From(c, t)
  <2>1. WritesCared
    BY <1>2 DEF WritesCared
  <2>2. QED
    BY <1>2, <2>1, HeadersSame
<1>4. ASSUME NEW c \in Cell, NEW t \in Cell, From(c, t)
      PROVE  (call' # NoCall /\ call'[2] = c) \/ Settled(c, t)' \/ Waits(c, t)'
  <2>1. Settled(c, t) \/ Waits(c, t)
    BY <1>1, <1>4 DEF CollectInv, CellsDone
  <2>2. Settled(c, t) => Settled(c, t)'
    BY <1>2, <1>3, SettledStays
  <2>3. CASE Waits(c, t) /\ t = c
    <3>1. Scanned(c)
      BY <2>3 DEF Waits
    <3>2. Scanned(c)' \/ (call' # NoCall /\ call'[2] = c)
      BY <1>4, <2>3, <3>1
    <3>3. QED
      BY <2>3, <3>2 DEF Waits
  <2>4. CASE Waits(c, t) /\ t # c
    <3>1. Listed(c, t) /\ t[1] \in Promoted
      BY <1>4, <2>4 DEF Waits, From
    <3>2. t[1] # Imm
      BY <3>1, Places DEF Promoted
    <3>3. Listed(c, t)'
      BY <1>2, <3>1, <3>2 DEF Listed
    <3>4. QED
      BY <2>4, <3>3 DEF Waits
  <2>5. QED
    BY <2>1, <2>2, <2>3, <2>4
<1>5. CellsDone'
  BY <1>3, <1>4 DEF CellsDone, P
<1>6. CallGoesOn' /\ (call # NoCall => V \in Value /\ P \in Cell)'
  <2>1. CASE call' = NoCall
    BY <2>1 DEF CallGoesOn
  <2>2. ASSUME NEW c \in Cell, From(c, c), call' = <<field[c], c>>
        PROVE  CallGoesOn' /\ (call # NoCall => V \in Value /\ P \in Cell)'
    <3>1. Settled(c, c) \/ Scanned(c)
      BY <1>1, <2>2 DEF CollectInv, CellsDone, Waits
    <3>2. /\ field[c] \in Value
          /\ IsYoung(field[c]) => before.hd[field[c]] # Free /\ young_ptr <= field[c]
          /\ \/ Behind(field[c]) = Behind(before.field[c])
             \/ Settled(c, c)
      BY <2>2, <3>1, CallBegins
    <3>3. call'[1] = field[c] /\ call'[2] = c /\ V' = field[c] /\ P' = c
      BY <2>2 DEF V, P
    <3>4. (Behind(V) = Behind(before.field[c]))' \/ Settled(c, c)'
      <4>1. V' = field'[c]
        BY <1>2, <3>3
      <4>2. \A v : Behind(v)' = Behind(v)
        BY <1>2, BehindSame
      <4>3. CASE Settled(c, c)
        BY <1>2, <1>3, <4>3, SettledStays
      <4>4. CASE Behind(field[c]) = Behind(before.field[c])
        <5>1. PICK v, w : v = field[c] /\ w = before.field[c]
          OBVIOUS
        <5>2. Behind(v)' = Behind(w)'
          BY <4>2, <4>4, <5>1
        <5>3. V' = v /\ (before.field[c])' = w
          BY <1>2, <3>3, <5>1
        <5>4. Behind(V)' = Behind(v)'
          BY <5>3 DEF Behind
        <5>5. Behind(before.field[c])' = Behind(w)'
          BY <5>3 DEF Behind
        <5>6. QED
          BY <5>2, <5>4, <5>5
      <4>5. QED
        BY <3>2, <4>3, <4>4
    <3>5. From(P, c)'
      BY <1>2, <1>3, <2>2, <3>3 DEF From
    <3>6. (V = field[P])' /\ (Settled(c, c)' => Settled(P, c)')
      BY <1>2, <3>3 DEF Settled
    <3>7. (V \in Value /\ (IsYoung(V) => before.hd[V] # Free /\ young_ptr <= V))'
      BY <1>2, <3>2, <3>3 DEF IsYoung
    <3>8. CallGoesOn'
      BY <3>4, <3>5, <3>6, <3>7 DEF CallGoesOn
    <3>9. QED
      BY <2>2, <3>3, <3>7, <3>8
  <2>3. QED
    BY <2>1, <2>2
<1>7. ListKept'
  BY <1>1, <1>2, <1>3 DEF CollectInv, ListKept
<1>8. hd' \in [Young \cup Old -> Header] /\ field' \in [Cell -> Value \cup {Link}] /\ Collecting'
  BY <1>1, <1>2 DEF TypeOK, Collecting
<1>9. QED
  BY <1>3, <1>5, <1>6, <1>7, <1>8, CollectKeeps

\* The cells that the loops of a collection visit.
LEMMA LoopCells ==
  ASSUME HeapInv, Collecting
  PROVE  /\ \A j \in 1 .. Len(Roots) : <<Roots[j], 0>> \in Cell /\ From(<<Roots[j], 0>>, <<Roots[j], 0>>)
         /\ \A j \in 1 .. Len(ref_table) : ref_table[j] \in Cell /\ From(ref_table[j], ref_table[j])
<1>1. ASSUME NEW j \in 1 .. Len(Roots)
      PROVE  <<Roots[j], 0>> \in Cell /\ From(<<Roots[j], 0>>, <<Roots[j], 0>>)
  <2>1. Roots[j] \in Root
    BY DEF Root
  <2>2. QED
    BY <2>1, Places DEF From
<1>2. ASSUME NEW j \in 1 .. Len(ref_table)
      PROVE  ref_table[j] \in Cell /\ From(ref_table[j], ref_table[j])
  <2>1. ref_table \in Seq(Old \X (0 .. NF - 1))
    BY CollectFacts DEF TypeOK
  <2>2. j \in DOMAIN ref_table /\ ref_table[j] \in Old \X (0 .. NF - 1)
    BY <2>1
  <2>3. ref_table[j] \in Cell /\ Known(ref_table[j]) /\ ref_table[j][1] \in Old
    BY <2>2 DEF Cell, Known
  <2>4. before.hd[ref_table[j][1]] # Free
    BY <2>3, CollectFacts DEF CollectInv, Sound
  <2>5. QED
    BY <2>3, <2>4 DEF From
<1>3. QED
  BY <1>1, <1>2

LEMMA ScanRootKeeps ==
  ASSUME HeapInv, Collecting, ScanRoot PROVE HeapInv'
<1>1. TypeOK /\ CollectInv
  BY CollectFacts
<1>2. /\ pc = "roots" /\ call = NoCall /\ UNCHANGED <<hd, field, mutatorVars, work, todo>>
      /\ ref_table' = ref_table /\ field' = field /\ before' = before
  BY DEF ScanRoot, mutatorVars, tableVars
<1>3. work = Imm /\ k \in Nat /\ k > 0
  BY <1>1, <1>2 DEF CollectInv, ListKept
<1>4. Len(Roots) \in Nat
  BY RootsAssumption
<1>5. CASE k <= Len(Roots)
  <2> DEFINE d == <<Roots[k], 0>>
  <2>1. k <= Len(Roots) /\ call' = <<field[d], d>> /\ k' = k + 1 /\ pc' = pc
    BY <1>3, <1>4, <1>5 DEF ScanRoot
  <2>2. k \in 1 .. Len(Roots)
    BY <1>3, <1>4, <1>5
  <2>3. d \in Cell /\ From(d, d)
    BY <2>2, LoopCells
  <2>4. ASSUME NEW c \in Cell, Scanned(c) PROVE Scanned(c)' \/ (call' # NoCall /\ call'[2] = c)
    <3>1. CASE c[1] \in Root /\ \E j \in k .. Len(Roots) : Roots[j] = c[1]
      <4>1. PICK j \in k .. Len(Roots) : Roots[j] = c[1]
        BY <3>1
      <4>2. CASE j = k
        <5>1. c = d
          BY <3>1, <4>1, <4>2, Places
        <5>2. QED
          BY <2>1, <5>1 DEF NoCall
      <4>3. CASE j # k
        <5>1. j \in k' .. Len(Roots)
          BY <1>3, <1>4, <2>1, <4>1, <4>3
        <5>2. Scanned(c)'
          BY <1>2, <2>1, <2>4, <3>1, <4>1, <5>1 DEF Scanned
        <5>3. QED
          BY <5>2
      <4>4. QED
        BY <4>2, <4>3
    <3>2. CASE c[1] \in Old /\ Known(c)
      BY <1>2, <2>1, <2>4, <3>2 DEF Scanned, Known
    <3>3. QED
      BY <1>2, <2>4, <3>1, <3>2 DEF Scanned
  <2>5. pc' \in {"roots", "refs", "mopup"} /\ k' \in Nat /\ k' > 0
    BY <1>2, <1>3, <2>1
  <2>6. \E c \in Cell : From(c, c) /\ call' = <<field[c], c>>
    BY <2>1, <2>3
  <2>7. QED
    BY <1>2, <1>3, <2>4, <2>5, <2>6, LoopKeeps
<1>6. CASE k > Len(Roots)
  <2>1. pc' = "refs" /\ k' = 1 /\ call' = call
    BY <1>3, <1>4, <1>6 DEF ScanRoot
  <2>2. ASSUME NEW c \in Cell, Scanned(c) PROVE Scanned(c)'
    <3>1. ~ \E j \in k .. Len(Roots) : Roots[j] = c[1]
      BY <1>3, <1>4, <1>6
    <3>2. c[1] \in Old /\ Known(c) /\ field[c] = before.field[c]
      BY <1>2, <2>2, <3>1 DEF Scanned
    <3>3. PICK j \in DOMAIN ref_table : ref_table[j] = c
      BY <3>2 DEF Known
    <3>4. j \in 1 .. Len(ref_table)
      BY <1>1, <3>3 DEF TypeOK
    <3>5. QED
      BY <1>2, <2>1, <3>2, <3>3, <3>4 DEF Scanned
  <2>3. pc' \in {"roots", "refs", "mopup"} /\ k' \in Nat /\ k' > 0
    BY <2>1
  <2>4. call' = NoCall
    BY <1>2, <2>1
  <2>5. QED
    BY <1>2, <1>3, <2>2, <2>3, <2>4, LoopKeeps
<1>7. QED
  BY <1>3, <1>4, <1>5, <1>6

LEMMA ScanRefKeeps ==
  ASSUME HeapInv, Collecting, ScanRef PROVE HeapInv'
<1>1. TypeOK /\ CollectInv
  BY CollectFacts
<1>2. /\ pc = "refs" /\ call = NoCall /\ UNCHANGED <<hd, field, mutatorVars, work, todo>>
      /\ ref_table' = ref_table /\ field' = field /\ before' = before
  BY DEF ScanRef, mutatorVars, tableVars
<1>3. work = Imm /\ k \in Nat /\ k > 0
  BY <1>1, <1>2 DEF CollectInv, ListKept
<1>4. Len(ref_table) \in Nat
  BY <1>1 DEF TypeOK
<1>5. \A c : Scanned(c) => /\ field[c] = before.field[c] /\ c[1] \in Old
                           /\ \E j \in k .. Len(ref_table) : ref_table[j] = c
  BY <1>2 DEF Scanned
<1>6. CASE k <= Len(ref_table)
  <2> DEFINE d == ref_table[k]
  <2>1. k <= Len(ref_table) /\ call' = <<field[d], d>> /\ k' = k + 1 /\ pc' = pc
    BY <1>3, <1>4, <1>6 DEF ScanRef
  <2>2. k \in 1 .. Len(ref_table)
    BY <1>3, <1>4, <1>6
  <2>3. d \in Cell /\ From(d, d)
    BY <2>2, LoopCells
  <2>4. ASSUME NEW c \in Cell, Scanned(c) PROVE Scanned(c)' \/ (call' # NoCall /\ call'[2] = c)
    <3>1. PICK j \in k .. Len(ref_table) : ref_table[j] = c
      BY <1>5, <2>4
    <3>2. CASE j = k
      BY <2>1, <3>1, <3>2 DEF NoCall
    <3>3. CASE j # k
      <4>1. j \in k' .. Len(ref_table)
        BY <1>3, <1>4, <2>1, <3>1, <3>3
      <4>2. QED
        BY <1>2, <1>5, <2>1, <2>4, <3>1, <4>1 DEF Scanned
    <3>4. QED
      BY <3>2, <3>3
  <2>5. pc' \in {"roots", "refs", "mopup"} /\ k' \in Nat /\ k' > 0
    BY <1>2, <1>3, <2>1
  <2>6. \E c \in Cell : From(c, c) /\ call' = <<field[c], c>>
    BY <2>1, <2>3
  <2>7. QED
    BY <1>2, <1>3, <2>4, <2>5, <2>6, LoopKeeps
<1>7. CASE k > Len(ref_table)
  <2>1. pc' = "mopup" /\ k' = 0 /\ call' = call
    BY <1>3, <1>4, <1>7 DEF ScanRef
  <2>2. \A c \in Cell : ~Scanned(c)
    BY <1>3, <1>4, <1>5, <1>7
  <2>3. pc' \in {"roots", "refs", "mopup"} /\ k' \in Nat /\ pc' = "mopup"
    BY <2>1
  <2>4. call' = NoCall
    BY <1>2, <2>1
  <2>5. QED
    BY <1>2, <1>3, <2>2, <2>3, <2>4, LoopKeeps
<1>8. QED
  BY <1>3, <1>4, <1>6, <1>7

LEMMA TakeTodoKeeps ==
  ASSUME HeapInv, Collecting, TakeTodo PROVE HeapInv'
<1>1. TypeOK /\ CollectInv
  BY CollectFacts
<1>2. /\ pc = "mopup" /\ call = NoCall /\ work = Imm /\ call' = NoCall
      /\ UNCHANGED <<hd, field, mutatorVars>> /\ before' = before /\ hd' = hd /\ field' = field
  BY DEF TakeTodo, mutatorVars
<1>3. /\ HeadersKept' /\ CopiesMade' /\ Capacity' /\ MarksStay /\ Promoted' = Promoted
      /\ \A c, t : From(c, t)' <=> From(c, t)
  <2>1. WritesCared
    BY <1>2 DEF WritesCared
  <2>2. QED
    BY <1>2, <2>1, HeadersSame
<1>4. todo \in Seq(Young) /\ \A j \in DOMAIN todo : todo[j] \in Promoted
  BY <1>1 DEF CollectInv, ListKept
<1>5. \A c, t \in Cell : From(c, t) =>
         \/ Settled(c, t)
         \/ /\ t # c
            /\ t[2] = 0 => field[c] = before.field[t]
            /\ \E j \in DOMAIN todo : todo[j] = t[1]
  <2>1. ASSUME NEW c \in Cell, NEW t \in Cell, From(c, t), ~Settled(c, t)
        PROVE  /\ t # c
               /\ t[2] = 0 => field[c] = before.field[t]
               /\ \E j \in DOMAIN todo : todo[j] = t[1]
    <3>1. Waits(c, t)
      BY <1>1, <1>2, <2>1 DEF CollectInv, CellsDone
    <3>2. t # c /\ Listed(c, t)
      BY <1>2, <3>1 DEF Waits, Scanned
    <3>3. t[1] # Imm
      BY <2>1, <3>2, Places DEF From, Promoted
    <3>4. QED
      BY <1>2, <3>2, <3>3 DEF Listed
  <2>2. QED
    BY <2>1
<1>6. CASE todo # <<>>
  <2>1. work' = Head(todo) /\ todo' = Tail(todo) /\ k' = 0 /\ pc' = pc
    BY <1>6 DEF TakeTodo
  <2>2. /\ Len(todo) \in Nat /\ DOMAIN todo = 1 .. Len(todo) /\ 1 \in DOMAIN todo
        /\ Head(todo) = todo[1] /\ Tail(todo) \in Seq(Young) /\ DOMAIN Tail(todo) = 1 .. Len(todo) - 1
        /\ \A j \in 1 .. Len(todo) - 1 : Tail(todo)[j] = todo[j + 1] /\ j + 1 \in DOMAIN todo
    BY <1>4, <1>6, HeadTailProperties, EmptySeq, LenProperties
  <2>3. work' \in Promoted /\ work' # Imm /\ before.hd[work'].size \in 1 .. NF
    <3>1. work' \in Promoted
      BY <1>4, <2>1, <2>2
    <3>2. QED
      BY <3>1, Places, CollectFacts DEF Promoted
  <2>4. ASSUME NEW c \in Cell, NEW t \in Cell, From(c, t) PROVE Settled(c, t)' \/ Waits(c, t)'
    <3>1. Settled(c, t) => Settled(c, t)'
      BY <1>2, <1>3, SettledStays
    <3>2. CASE ~Settled(c, t)
      <4>1. /\ t # c
            /\ t[2] = 0 => field[c] = before.field[t]
            /\ \E j \in DOMAIN todo : todo[j] = t[1]
        BY <1>5, <2>4, <3>2
      <4>2. PICK j \in DOMAIN todo : todo[j] = t[1]
        BY <4>1
      <4>3. CASE j = 1
        <5>1. t[1] = work'
          BY <2>1, <2>2, <4>2, <4>3
        <5>2. t[2] >= 0
          <6>1. t[1] \in Young
            BY <2>3, <5>1 DEF Promoted
          <6>2. t[2] \in 0 .. NF - 1
            BY <6>1, Places
          <6>3. QED
            BY <6>2
        <5>3. Listed(c, t)'
          BY <1>2, <2>1, <4>1, <5>1, <5>2 DEF Listed
        <5>4. QED
          BY <4>1, <5>3 DEF Waits
      <4>4. CASE j # 1
        <5>1. j - 1 \in 1 .. Len(todo) - 1 /\ (j - 1) + 1 = j
          BY <2>2, <4>2, <4>4
        <5>2. j - 1 \in DOMAIN todo' /\ todo'[j - 1] = t[1]
          BY <2>1, <2>2, <4>2, <5>1
        <5>3. Listed(c, t)'
          BY <1>2, <4>1, <5>2 DEF Listed
        <5>4. QED
          BY <4>1, <5>3 DEF Waits
      <4>5. QED
        BY <4>3, <4>4
    <3>3. QED
      BY <3>1, <3>2
  <2>5. CellsDone' /\ CallGoesOn'
    BY <1>2, <1>3, <2>4 DEF CellsDone, CallGoesOn
  <2>6. ListKept'
    <3>1. \A j \in DOMAIN todo' : todo'[j] \in Promoted
      BY <1>4, <2>1, <2>2
    <3>2. 0 < before.hd[work'].size /\ 0 \in Nat
      BY <2>3, Places
    <3>3. todo' \in Seq(Young) /\ pc' = "mopup"
      BY <1>2, <2>1, <2>2
    <3>4. QED
      BY <1>2, <1>3, <2>1, <2>3, <3>1, <3>2, <3>3 DEF ListKept
  <2>7. /\ hd' \in [Young \cup Old -> Header] /\ field' \in [Cell -> Value \cup {Link}] /\ Collecting'
        /\ (call # NoCall => V \in Value /\ P \in Cell)'
    BY <1>1, <1>2, <2>1 DEF TypeOK, Collecting
  <2>8. QED
    BY <1>2, <1>3, <2>5, <2>6, <2>7, CollectKeeps
<1>7. CASE todo = <<>>
  <2>1. pc' = "emptied" /\ work' = work /\ todo' = todo /\ k' = k
    BY <1>7 DEF TakeTodo
  <2>2. ASSUME NEW c \in Cell, NEW t \in Cell, From(c, t) PROVE Settled(c, t)'
    <3>1. DOMAIN todo = {}
      BY <1>7
    <3>2. Settled(c, t)
      BY <1>5, <2>2, <3>1
    <3>3. QED
      BY <1>2, <1>3, <3>2, SettledStays
  <2>3. CellsDone' /\ CallGoesOn'
    BY <1>2, <1>3, <2>2 DEF CellsDone, CallGoesOn
  <2>4. ListKept'
    BY <1>1, <1>2, <1>3, <1>7, <2>1 DEF CollectInv, ListKept
  <2>5. /\ hd' \in [Young \cup Old -> Header] /\ field' \in [Cell -> Value \cup {Link}] /\ Collecting'
        /\ (call # NoCall => V \in Value /\ P \in Cell)'
    BY <1>1, <1>2, <2>1 DEF TypeOK, Collecting
  <2>6. QED
    BY <1>2, <1>3, <2>3, <2>4, <2>5, CollectKeeps
<1>8. QED
  BY <1>6, <1>7

\* oldify_mopup comes to field k of the copy of work: either it stores what is no young
\* block, or it calls oldify_one.
LEMMA CompleteFieldKeeps ==
  ASSUME HeapInv, Collecting, CompleteField PROVE HeapInv'
<1>1. TypeOK /\ CollectInv
  BY CollectFacts
<1>2. /\ pc = "mopup" /\ call = NoCall /\ work # Imm
      /\ UNCHANGED <<hd, mutatorVars, pc, todo>> /\ before' = before /\ hd' = hd
      /\ pc' = pc /\ todo' = todo /\ young_ptr' = young_ptr /\ k' = k + 1
  BY DEF CompleteField, mutatorVars
<1>3. work \in Promoted /\ k \in Nat /\ k < before.hd[work].size
  BY <1>1, <1>2 DEF CollectInv, ListKept
<1>4. PICK n : n = Copy(work)
  OBVIOUS
<1>5. PICK d : d = <<n, k>>
  OBVIOUS
<1>6. PICK s : s = <<work, k>>
  OBVIOUS
<1>7. PICK f : f = field[<<IF k = 0 THEN n ELSE work, k>>]
  OBVIOUS
<1>8. /\ \/ IsYoung(f) /\ call' = <<f, d>> /\ field' = field
         \/ ~IsYoung(f) /\ field' = [field EXCEPT ![d] = f] /\ call' = NoCall
      /\ work' = IF k + 1 < hd[n].size THEN work ELSE Imm
  BY <1>2, <1>4, <1>5, <1>7 DEF CompleteField, Copy
<1>9. /\ work \in Young /\ before.hd[work].size \in 1 .. NF /\ n \in Old /\ hd[n] = before.hd[work]
      /\ k \in 0 .. NF - 1
  <2>1. work \in Young /\ before.hd[work].size \in 1 .. NF
    BY <1>3, CollectFacts
  <2>2. n \in Old /\ hd[n] = before.hd[work]
    BY <1>1, <1>3, <1>4 DEF CollectInv, CopiesMade
  <2>3. NF \in Nat
    BY Places
  <2>4. k \in 0 .. NF - 1
    BY <1>3, <2>1, <2>3
  <2>5. QED
    BY <2>1, <2>2, <2>4
<1>10. /\ d \in Cell /\ d[1] = n /\ d[2] = k /\ s \in Cell /\ s[1] = work /\ s[2] = k /\ s # d
       /\ From(d, s)
  <2>1. d \in Cell /\ s \in Cell
    BY <1>5, <1>6, <1>9, Places
  <2>2. work # n
    BY <1>9, Places
  <2>3. QED
    BY <1>3, <1>4, <1>5, <1>6, <2>1, <2>2 DEF From
<1>11. \/ Settled(d, s) /\ k = 0 /\ f = field[d]
       \/ f = before.field[s]
  <2>1. CASE k # 0
    <3>1. f = field[s]
      BY <1>6, <1>7, <2>1
    <3>2. field[s] = before.field[s]
      BY <1>1, <1>9, <1>10, <2>1 DEF CollectInv, CopiesMade, IsYoung
    <3>3. QED
      BY <3>1, <3>2
  <2>2. CASE k = 0
    <3>1. f = field[d]
      BY <1>5, <1>7, <2>2
    <3>2. Settled(d, s) \/ Listed(d, s)
      BY <1>1, <1>2, <1>10 DEF CollectInv, CellsDone, Waits
    <3>3. QED
      BY <1>10, <2>2, <3>1, <3>2 DEF Listed
  <2>3. QED
    BY <2>1, <2>2
<1>12. f \in Value /\ before.field[s] \in Value
  <2>1. before.field[s] \in Value
    BY <1>10, CollectFacts
  <2>2. QED
    BY <1>11, <2>1, Places DEF Settled
<1>13. WritesCared /\ field' \in [Cell -> Value \cup {Link}]
  BY <1>1, <1>8, <1>10, <1>12 DEF WritesCared, TypeOK
<1>14. /\ HeadersKept' /\ CopiesMade' /\ Capacity' /\ MarksStay /\ Promoted' = Promoted
       /\ \A c, t : From(c, t)' <=> From(c, t)
  BY <1>2, <1>13, HeadersSame
<1>15. (call' # NoCall /\ call'[2] = d) \/ Settled(d, s)'
  <2>1. CASE IsYoung(f)
    BY <1>8, <2>1 DEF NoCall
  <2>2. CASE ~IsYoung(f) /\ Settled(d, s) /\ k = 0 /\ f = field[d]
    <3>1. field'[d] = field[d]
      BY <1>1, <1>8, <1>10, <2>2 DEF TypeOK
    <3>2. QED
      BY <1>14, <2>2, <3>1, SettledStays
  <2>3. CASE ~IsYoung(f) /\ f = before.field[s]
    <3>1. Behind(f) = f
      BY <1>12, <2>3, CollectFacts, BehindItself
    <3>2. \A v : Behind(v)' = Behind(v)
      BY <1>2, BehindSame
    <3>3. Behind(before.field[s])' = f
      BY <1>2, <2>3, <3>1, <3>2
    <3>4. field'[d] = f
      BY <1>1, <1>8, <1>10, <2>3 DEF TypeOK
    <3>5. f \in Old \cup {Imm}
      BY <1>12, <2>3, Places DEF IsYoung
    <3>6. QED
      BY <2>3, <3>3, <3>4, <3>5 DEF Settled, Image, IsYoung
  <2>4. QED
    BY <1>11, <2>1, <2>2, <2>3
<1>16. ASSUME NEW c \in Cell, NEW t \in Cell, From(c, t), c # d PROVE Settled(c, t)' \/ Waits(c, t)'
  <2>1. Settled(c, t) \/ Waits(c, t)
    BY <1>1, <1>2, <1>16 DEF CollectInv, CellsDone
  <2>2. field'[c] = field[c]
    BY <1>1, <1>8, <1>10, <1>16 DEF TypeOK
  <2>3. Settled(c, t) => Settled(c, t)'
    BY <1>14, <2>2, SettledStays
  <2>4. CASE Waits(c, t)
    <3>1. t # c /\ Listed(c, t) /\ t[1] \in Promoted /\ c = <<Copy(t[1]), t[2]>> /\ t[2] < before.hd[t[1]].size
      BY <1>2, <1>16, <2>4 DEF Waits, Scanned, From
    <3>2. CASE \E j \in DOMAIN todo : todo[j] = t[1]
      <4>1. Listed(c, t)'
        BY <1>2, <2>2, <3>1, <3>2 DEF Listed
      <4>2. QED
        BY <3>1, <4>1 DEF Waits
    <3>3. CASE t[1] = work /\ t[2] >= k
      <4>1. t[2] # k
        BY <1>4, <1>5, <1>16, <3>1, <3>3
      <4>2. t[2] \in Int /\ hd[n].size \in Int
        BY <1>9, <1>16, <3>3, Places
      <4>3. t[2] >= k + 1 /\ k + 1 < hd[n].size
        BY <1>3, <1>9, <3>1, <3>3, <4>1, <4>2
      <4>4. work' = work /\ t[2] >= k'
        BY <1>2, <1>8, <4>3
      <4>5. Listed(c, t)'
        BY <1>2, <2>2, <3>1, <3>3, <4>4 DEF Listed
      <4>6. QED
        BY <3>1, <4>5 DEF Waits
    <3>4. QED
      BY <3>1, <3>2, <3>3 DEF Listed
  <2>5. QED
    BY <2>1, <2>3, <2>4
<1>17. CellsDone'
  <2>1. ASSUME NEW c \in Cell, NEW t \in Cell, From(c, t)
        PROVE  (call' # NoCall /\ call'[2] = c) \/ Settled(c, t)' \/ Waits(c, t)'
    <3>1. c = d => t = s
      BY <1>10, <2>1, FromUnique
    <3>2. QED
      BY <1>15, <1>16, <2>1, <3>1
  <2>2. QED
    BY <1>14, <2>1 DEF CellsDone, P
<1>18. CallGoesOn' /\ (call # NoCall => V \in Value /\ P \in Cell)'
  <2>1. CASE ~IsYoung(f)
    BY <1>8, <2>1 DEF CallGoesOn
  <2>2. CASE IsYoung(f)
    <3>1. call' = <<f, d>> /\ V' = f /\ P' = d
      BY <1>8, <2>2 DEF V, P
    <3>2. f = before.field[s]
      <4>1. f \notin Old \cup {Imm}
        BY <2>2, Places DEF IsYoung
      <4>2. QED
        BY <1>11, <4>1 DEF Settled
    <3>3. before.hd[f] # Free /\ young_ptr <= f
      BY <1>1, <1>10, <2>2, <3>2 DEF CollectInv, Sound
    <3>4. V' = before'.field[s]
      BY <1>2, <3>1, <3>2
    <3>5. (Behind(V) = Behind(before.field[s]))'
      BY <3>4 DEF Behind
    <3>6. From(P, s)'
      BY <1>2, <1>10, <1>14, <3>1 DEF From
    <3>7. (V \in Value /\ (IsYoung(V) => before.hd[V] # Free /\ young_ptr <= V))'
      BY <1>2, <1>12, <3>1, <3>3 DEF IsYoung
    <3>8. CallGoesOn'
      BY <1>10, <3>5, <3>6, <3>7 DEF CallGoesOn
    <3>9. QED
      BY <1>10, <1>12, <3>1, <3>8
  <2>3. QED
    BY <2>1, <2>2
<1>19. ListKept'
  <2>1. k' \in Nat /\ k' = k + 1 /\ pc' = "mopup"
    BY <1>2, <1>3
  <2>2. work' # Imm => work' \in Promoted /\ k' < before.hd[work'].size
    BY <1>3, <1>8, <1>9, <2>1
  <2>3. QED
    BY <1>1, <1>2, <1>14, <2>1, <2>2 DEF CollectInv, ListKept
<1>20. hd' \in [Young \cup Old -> Header] /\ Collecting'
  BY <1>1, <1>2 DEF TypeOK, Collecting
<1>21. UNCHANGED mutatorVars
  BY <1>2
<1>22. QED
  BY <1>13, <1>14, <1>17, <1>18, <1>19, <1>20, <1>21, CollectKeeps

\* A young block that is to be promoted, the block that its copy gets, and the cell for it.
LEMMA PromotedTo ==
  ASSUME HeapInv, Collecting, call # NoCall, IsYoung(V), hd[V].kind \in {"scan", "raw"},
         NEW v, v = V, NEW n, n = NextFree, NEW p, p = P
  PROVE  /\ v \in Young /\ v \notin Promoted /\ hd[v] = before.hd[v] /\ hd[v] \in Header
         /\ hd[v] \notin {Free, Forwarded} /\ hd[v].size \in 1 .. NF /\ before.hd[v].kind \in {"scan", "raw"}
         /\ n \in Old /\ n \notin Young /\ hd[n] = Free /\ before.hd[n] = Free
         /\ \A b \in Promoted : Copy(b) # n
         /\ \A c \in Cell : c[1] = n => field[c] = Imm
         /\ p \in Cell /\ p[1] \notin Young /\ p[1] # n
         /\ p[1] \in Old /\ before.hd[p[1]] = Free => p[2] < hd[p[1]].size
         /\ \E s \in Cell : From(p, s) /\ Behind(before.field[s]) = v
<1>1. TypeOK /\ CollectInv /\ Capacity
  BY CollectFacts
<1>2. v \in Young
  BY DEF IsYoung
<1>3. hd[v] # Forwarded /\ v \notin Promoted /\ hd[v] = before.hd[v]
  <2>1. hd[v] # Forwarded
    BY DEF Forwarded
  <2>2. QED
    BY <1>2, <2>1, CollectFacts DEF Promoted
<1>4. hd[v] \in Header /\ hd[v] \notin {Free, Forwarded} /\ hd[v].size \in 1 .. NF
  <2>1. hd[v] \in Header
    BY <1>1, <1>2 DEF TypeOK
  <2>2. QED
    BY <2>1, HeaderIs DEF Kinds
<1>5. n \in Old /\ hd[n] = Free
  <2>1. v \in MayMove
    BY <1>2, <1>4 DEF MayMove
  <2>2. Cardinality(MayMove) # 0
    BY <2>1, Counting, FS_EmptySet
  <2>3. Cardinality(FreeOld) > 0
    BY <1>1, <2>2, Counting
  <2>4. QED
    BY <2>3, NextFreeIs
<1>6. n \notin Young /\ before.hd[n] = Free
  BY <1>1, <1>5, Places DEF CollectInv, HeadersKept
<1>7. \A b \in Promoted : Copy(b) # n
  BY <1>1, <1>5, CollectFacts DEF CollectInv, CopiesMade
<1>8. \A c \in Cell : c[1] = n => field[c] = Imm
  <2>1. ASSUME NEW c \in Cell, c[1] = n PROVE field[c] = Imm
    <3>1. c[2] \in 0 .. NF - 1
      BY <1>5, <2>1, Places
    <3>2. c[2] >= hd[c[1]].size
      BY <1>5, <2>1, <3>1, HeaderIs
    <3>3. QED
      BY <1>1, <1>5, <1>6, <2>1, <3>2 DEF CollectInv, CopiesMade
  <2>2. QED
    BY <2>1
<1>9. PICK s \in Cell : /\ From(P, s)
                        /\ before.hd[V].kind # "ind" => Behind(before.field[s]) = V
  BY CalledFor
<1>10. From(p, s) /\ Behind(before.field[s]) = v
  BY <1>3, <1>9
<1>11. /\ p \in Cell /\ p[1] \notin Young
       /\ p[1] \in Old => hd[p[1]] # Free
       /\ p[1] \in Old /\ before.hd[p[1]] = Free => p[2] < hd[p[1]].size
  BY <1>10, FromWhere
<1>12. p[1] # n
  BY <1>5, <1>11
<1>13. before.hd[v].kind \in {"scan", "raw"}
  BY <1>3
<1>14. QED
  BY <1>2, <1>3, <1>4, <1>5, <1>6, <1>7, <1>8, <1>10, <1>11, <1>12, <1>13

\* One free block less, and one less to move.
LEMMA CapacityPromoted ==
  ASSUME TypeOK, Capacity, NEW v \in Young, hd[v] \notin {Free, Forwarded}, NEW n \in Old, hd[n] = Free,
         hd' = [hd EXCEPT ![n] = hd[v], ![v] = Forwarded]
  PROVE  Capacity'
<1>1. hd \in [Young \cup Old -> Header] /\ n \notin Young /\ v \notin Old /\ Forwarded # Free
  BY Places, HeaderIs DEF TypeOK
<1>2. MayMove' = MayMove \ {v} /\ v \in MayMove
  BY <1>1 DEF MayMove
<1>3. FreeOld' = FreeOld \ {n} /\ n \in FreeOld
  BY <1>1 DEF FreeOld
<1>4. /\ Cardinality(MayMove \ {v}) = Cardinality(MayMove) - 1
      /\ Cardinality(FreeOld \ {n}) = Cardinality(FreeOld) - 1
  BY <1>2, <1>3, Counting, FS_RemoveElement
<1>5. Cardinality(MayMove) <= Cardinality(FreeOld)
  BY Counting
<1>6. Cardinality(MayMove') <= Cardinality(FreeOld')
  BY <1>2, <1>3, <1>4, <1>5, Counting
<1>7. QED
  BY <1>6 DEF Capacity, MayMove, FreeOld

\* A step that promotes the block v to n, for the cell p; what the copy holds, and whether
\* the call goes on, is different for the three kinds of blocks.
Promotes(v, n, p) ==
  /\ call # NoCall /\ IsYoung(V) /\ hd[V].kind \in {"scan", "raw"} /\ v = V /\ n = NextFree /\ p = P
  /\ hd' = [hd EXCEPT ![n] = hd[v], ![v] = Forwarded]
  /\ field' \in [Cell -> Value \cup {Link}] /\ Copy(v)' = n /\ field'[p] = n
  /\ \A c \in Cell : c[1] # n /\ c # <<v, 0>> /\ c # p => field'[c] = field[c]
  /\ \A c \in Cell : c[1] = n /\ c[2] >= hd[v].size => field'[c] = Imm
  /\ \A c \in Cell, s \in Cell :
       s[1] = v /\ c = <<n, s[2]>> /\ s[2] < hd[v].size
       => (call' # NoCall /\ call'[2] = c) \/ Settled(c, s)' \/ Listed(c, s)'
  /\ todo' \in Seq(Young) /\ \A j \in DOMAIN todo' : todo'[j] \in Promoted \cup {v}
  /\ \A j \in DOMAIN todo : \E i \in DOMAIN todo' : todo'[i] = todo[j]

LEMMA PromotionKeeps ==
  ASSUME HeapInv, Collecting, NEW v, NEW n, NEW p, Promotes(v, n, p),
         CallGoesOn', (call # NoCall => V \in Value /\ P \in Cell)',
         UNCHANGED <<mutatorVars, pc, k, work>>
  PROVE  HeapInv'
<1>0. /\ call # NoCall /\ IsYoung(V) /\ hd[V].kind \in {"scan", "raw"} /\ v = V /\ n = NextFree /\ p = P
      /\ hd' = [hd EXCEPT ![n] = hd[v], ![v] = Forwarded]
      /\ field' \in [Cell -> Value \cup {Link}] /\ Copy(v)' = n /\ field'[p] = n
      /\ \A c \in Cell : c[1] # n /\ c # <<v, 0>> /\ c # p => field'[c] = field[c]
      /\ \A c \in Cell : c[1] = n /\ c[2] >= hd[v].size => field'[c] = Imm
      /\ todo' \in Seq(Young) /\ \A j \in DOMAIN todo' : todo'[j] \in Promoted \cup {v}
      /\ \A j \in DOMAIN todo : \E i \in DOMAIN todo' : todo'[i] = todo[j]
  BY DEF Promotes
<1>1. TypeOK /\ CollectInv /\ Capacity
  BY CollectFacts
<1>2. /\ before' = before /\ pc' = pc /\ k' = k /\ work' = work /\ ref_table' = ref_table
  BY DEF mutatorVars, tableVars
<1>3. /\ v \in Young /\ v \notin Promoted /\ hd[v] = before.hd[v] /\ hd[v] \in Header
      /\ hd[v] \notin {Free, Forwarded} /\ hd[v].size \in 1 .. NF /\ before.hd[v].kind \in {"scan", "raw"}
      /\ n \in Old /\ n \notin Young /\ hd[n] = Free /\ before.hd[n] = Free
      /\ \A b \in Promoted : Copy(b) # n
      /\ p \in Cell /\ p[1] \notin Young /\ p[1] # n
      /\ p[1] \in Old /\ before.hd[p[1]] = Free => p[2] < hd[p[1]].size
  BY <1>0, PromotedTo
<1>4. PICK s0 \in Cell : From(p, s0) /\ Behind(before.field[s0]) = v
  BY <1>0, PromotedTo
<1>5. /\ hd' \in [Young \cup Old -> Header] /\ hd'[n] = hd[v] /\ hd'[v] = Forwarded
      /\ \A b \in Young \cup Old : b # n /\ b # v => hd'[b] = hd[b]
  BY <1>0, <1>1, <1>3, HeaderIs DEF TypeOK
<1>6. Promoted' = Promoted \cup {v}
  BY <1>3, <1>5 DEF Promoted
<1>7. \A b \in Promoted : Copy(b)' = Copy(b) /\ b \in Young /\ b # v
  <2> TAKE b \in Promoted
  <2>1. b \in Young /\ b # v
    BY <1>3 DEF Promoted
  <2>2. <<b, 0>> \in Cell /\ <<b, 0>>[1] = b /\ <<b, 0>> # <<v, 0>>
    BY <2>1, Places
  <2>3. <<b, 0>>[1] # n /\ <<b, 0>> # p
    BY <1>3, <2>1, <2>2
  <2>4. Copy(b)' = Copy(b)
    BY <1>0, <2>2, <2>3 DEF Copy
  <2>5. QED
    BY <2>1, <2>4
<1>8. MarksStay
  <2>1. \A b \in Promoted : hd'[b] = Forwarded
    BY <1>6 DEF Promoted
  <2>2. QED
    BY <1>2, <1>7, <2>1 DEF MarksStay, Copy
<1>9. HeadersKept'
  <2>1. \A b \in Young : \/ hd'[b] = before.hd[b]
                         \/ hd'[b] = Forwarded /\ before.hd[b].kind \in {"scan", "raw"}
    BY <1>1, <1>3, <1>5 DEF CollectInv, HeadersKept
  <2>2. \A b \in Old : before.hd[b] # Free => hd'[b] = before.hd[b]
    BY <1>1, <1>3, <1>5, Places DEF CollectInv, HeadersKept
  <2>3. ASSUME NEW b \in Old, before.hd[b] = Free, hd'[b] # Free
        PROVE  \E a \in Promoted' : Copy(a)' = b
    <3>1. CASE b = n
      BY <1>0, <1>6, <3>1
    <3>2. CASE b # n
      <4>1. hd[b] # Free
        BY <1>3, <1>5, <2>3, <3>2, Places
      <4>2. PICK a \in Promoted : Copy(a) = b
        BY <1>1, <2>3, <4>1 DEF CollectInv, HeadersKept
      <4>3. QED
        BY <1>6, <1>7, <4>2
    <3>3. QED
      BY <3>1, <3>2
  <2>4. QED
    BY <1>2, <2>1, <2>2, <2>3 DEF HeadersKept
<1>10. CopiesMade'
  <2>1. \A b \in Promoted : /\ Copy(b)' \in Old /\ before.hd[Copy(b)] = Free /\ before.hd[Copy(b)'] = Free
                            /\ hd'[Copy(b)'] = before.hd[b] /\ Copy(b)' # n
    <3> TAKE b \in Promoted
    <3>1. Copy(b) \in Old /\ before.hd[Copy(b)] = Free /\ hd[Copy(b)] = before.hd[b] /\ Copy(b) # n
      BY <1>1, <1>3 DEF CollectInv, CopiesMade
    <3>2. Copy(b) # v /\ Copy(b)' = Copy(b)
      BY <1>3, <1>7, <3>1, Places
    <3>3. QED
      BY <1>5, <3>1, <3>2
  <2>2. \A b \in Promoted' : Copy(b)' \in Old /\ before.hd[Copy(b)'] = Free /\ hd'[Copy(b)'] = before.hd[b]
    BY <1>0, <1>3, <1>5, <1>6, <2>1
  <2>3. \A a, b \in Promoted' : Copy(a)' = Copy(b)' => a = b
    <3>1. \A a, b \in Promoted : Copy(a)' = Copy(b)' => a = b
      BY <1>1, <1>7 DEF CollectInv, CopiesMade
    <3>2. \A a \in Promoted : Copy(a)' # Copy(v)'
      BY <1>0, <2>1
    <3>3. QED
      BY <1>6, <3>1, <3>2
  <2>4. ASSUME NEW c \in Cell, IsYoung(c[1]), ~(c[2] = 0 /\ c[1] \in Promoted')
        PROVE  field'[c] = before.field[c]
    <3>1. c # <<v, 0>> /\ c[1] \in Young
      BY <1>6, <2>4 DEF IsYoung
    <3>2. field'[c] = field[c]
      BY <1>0, <1>3, <3>1
    <3>3. ~(c[2] = 0 /\ c[1] \in Promoted)
      BY <1>6, <2>4
    <3>4. QED
      BY <1>1, <2>4, <3>2, <3>3 DEF CollectInv, CopiesMade
  <2>5. ASSUME NEW c \in Cell, c[1] \in Old, before.hd[c[1]] = Free, c[2] >= hd'[c[1]].size
        PROVE  field'[c] = Imm
    <3>1. CASE c[1] = n
      BY <1>0, <1>5, <2>5, <3>1
    <3>2. CASE c[1] # n
      <4>1. hd'[c[1]] = hd[c[1]] /\ c # <<v, 0>>
        BY <1>3, <1>5, <2>5, <3>2, Places
      <4>2. c # p
        <5>1. c[2] \in Int /\ hd[c[1]].size \in Int
          <6>1. hd[c[1]] \in Header /\ c[2] \in 0 .. NF - 1
            BY <1>1, <2>5, Places DEF TypeOK
          <6>2. QED
            BY <6>1, HeaderIs
        <5>2. ~(c[2] < hd[c[1]].size)
          BY <2>5, <4>1, <5>1
        <5>3. QED
          BY <1>3, <2>5, <5>2
      <4>3. field'[c] = field[c]
        BY <1>0, <3>2, <4>1, <4>2
      <4>4. QED
        BY <1>1, <2>5, <4>1, <4>3 DEF CollectInv, CopiesMade
    <3>3. QED
      BY <3>1, <3>2
  <2>6. QED
    BY <1>2, <2>2, <2>3, <2>4, <2>5 DEF CopiesMade
<1>11. ASSUME NEW c \in Cell, NEW t \in Cell, From(c, t) PROVE Settled(c, t)' \/ Waits(c, t)'
  <2>1. CASE c = p
    <3>1. t = s0
      BY <1>4, <1>11, <2>1, FromUnique
    <3>2. Behind(before.field[t])' = v
      BY <1>2, <1>4, <3>1, BehindSame
    <3>3. Image(before.field[t])' = n
      BY <1>0, <1>3, <3>2 DEF Image, Copy, IsYoung
    <3>4. Settled(c, t)'
      BY <1>0, <1>3, <1>5, <2>1, <3>2, <3>3 DEF Settled
    <3>5. QED
      BY <3>4
  <2>2. CASE c # p
    <3>1. c[1] \notin Young /\ (c[1] \in Old => hd[c[1]] # Free)
      BY <1>11, FromWhere
    <3>2. c[1] # n /\ c # <<v, 0>>
      BY <1>3, <3>1
    <3>3. field'[c] = field[c]
      BY <1>0, <2>2, <3>2
    <3>4. Settled(c, t) \/ Waits(c, t)
      BY <1>0, <1>1, <1>11, <2>2 DEF CollectInv, CellsDone
    <3>5. Settled(c, t) => Settled(c, t)'
      BY <1>8, <3>3, SettledStays
    <3>6. Scanned(c) => Scanned(c)'
      BY <1>2, <3>3 DEF Scanned, Known
    <3>7. Listed(c, t) => Listed(c, t)'
      BY <1>0, <1>2, <3>3 DEF Listed
    <3>8. QED
      BY <3>4, <3>5, <3>6, <3>7 DEF Waits
  <2>3. QED
    BY <2>1, <2>2
<1>12. CellsDone'
  <2>1. ASSUME NEW c \in Cell, NEW t \in Cell, From(c, t)'
        PROVE  (call' # NoCall /\ call'[2] = c) \/ Settled(c, t)' \/ Waits(c, t)'
    <3>1. CASE From(c, t)
      BY <1>11, <3>1
    <3>2. CASE ~From(c, t)
      <4>1. t[1] \in Promoted' /\ c = <<Copy(t[1])', t[2]>> /\ t[2] < before.hd[t[1]].size
        BY <1>2, <2>1, <3>2 DEF From
      <4>2. t[1] = v
        BY <1>6, <1>7, <3>2, <4>1 DEF From
      <4>3. c = <<n, t[2]>> /\ t[2] < hd[v].size
        BY <1>0, <1>3, <4>1, <4>2
      <4>4. (call' # NoCall /\ call'[2] = c) \/ Settled(c, t)' \/ Listed(c, t)'
        BY <4>2, <4>3 DEF Promotes
      <4>5. t # c
        BY <1>3, <4>2, <4>3
      <4>6. QED
        BY <4>4, <4>5 DEF Waits
    <3>3. QED
      BY <3>1, <3>2
  <2>2. QED
    BY <2>1 DEF CellsDone, P
<1>13. ListKept'
  <2>1. pc # "emptied"
    BY <1>0, <1>1 DEF CollectInv, ListKept
  <2>2. \A j \in DOMAIN todo' : todo'[j] \in Promoted'
    BY <1>0, <1>6
  <2>3. QED
    BY <1>0, <1>1, <1>2, <1>6, <2>1, <2>2 DEF CollectInv, ListKept
<1>14. Capacity'
  BY <1>0, <1>1, <1>3, CapacityPromoted
<1>15. Collecting' /\ UNCHANGED mutatorVars
  BY <1>2 DEF Collecting
<1>16. QED
  BY <1>0, <1>5, <1>9, <1>10, <1>12, <1>13, <1>14, <1>15, CollectKeeps

LEMMA PromoteKeeps ==
  ASSUME HeapInv, Collecting, Promote, UNCHANGED <<mutatorVars, pc, k, work>>
  PROVE  HeapInv'
<1>1. PICK v : v = V
  OBVIOUS
<1>2. PICK n : n = NextFree
  OBVIOUS
<1>3. PICK p : p = P
  OBVIOUS
<1>4. /\ call # NoCall /\ IsYoung(V) /\ hd[V].kind \in {"scan", "raw"} /\ hd[v].kind = "scan" /\ hd[v].size > 1
      /\ hd' = [hd EXCEPT ![n] = hd[v], ![v] = Forwarded]
      /\ field' = [[field EXCEPT ![<<n, 0>>] = field[<<v, 0>>], ![<<n, 1>>] = Link, ![<<v, 0>>] = n]
                   EXCEPT ![p] = n]
      /\ call' = NoCall /\ todo' = <<v>> \o todo
  BY <1>1, <1>2, <1>3 DEF Promote, Return
<1>5. TypeOK /\ CollectInv
  BY CollectFacts
<1>6. /\ v \in Young /\ v \notin Promoted /\ hd[v] = before.hd[v] /\ hd[v].size \in 1 .. NF
      /\ n \in Old /\ n \notin Young /\ before.hd[n] = Free
      /\ \A c \in Cell : c[1] = n => field[c] = Imm
      /\ p \in Cell /\ p[1] \notin Young /\ p[1] # n
  BY <1>1, <1>2, <1>3, <1>4, PromotedTo
<1>7. /\ <<v, 0>> \in Cell /\ <<n, 0>> \in Cell /\ <<n, 1>> \in Cell
      /\ <<v, 0>> # p /\ <<n, 0>> # p /\ <<n, 1>> # p /\ v # n
  <2>1. NF \in Nat
    BY Places
  <2>2. 1 \in 0 .. NF - 1
    BY <1>4, <1>6, <2>1
  <2>3. <<v, 0>> \in Cell /\ <<n, 0>> \in Cell /\ <<n, 1>> \in Cell
    BY <1>6, <2>2, Places
  <2>4. <<v, 0>>[1] = v /\ <<n, 0>>[1] = n /\ <<n, 1>>[1] = n
    OBVIOUS
  <2>5. QED
    BY <1>6, <2>3, <2>4
<1>8. field \in [Cell -> Value \cup {Link}] /\ n \in Value /\ field[<<v, 0>>] = before.field[<<v, 0>>]
  BY <1>5, <1>6, <1>7, Places DEF TypeOK, CollectInv, CopiesMade, IsYoung
<1>9. /\ field' \in [Cell -> Value \cup {Link}]
      /\ field'[<<v, 0>>] = n /\ field'[p] = n /\ field'[<<n, 0>>] = field[<<v, 0>>]
      /\ \A c \in Cell : c # <<n, 0>> /\ c # <<n, 1>> /\ c # <<v, 0>> /\ c # p => field'[c] = field[c]
  BY <1>4, <1>6, <1>7, <1>8
<1>10. Copy(v)' = n
  BY <1>9 DEF Copy
<1>11. \A c \in Cell : c[1] # n /\ c # <<v, 0>> /\ c # p => field'[c] = field[c]
  BY <1>9
<1>12. \A c \in Cell : c[1] = n /\ c[2] >= hd[v].size => field'[c] = Imm
  <2>1. ASSUME NEW c \in Cell, c[1] = n, c[2] >= hd[v].size PROVE field'[c] = Imm
    <3>1. c # <<n, 0>> /\ c # <<n, 1>> /\ c # <<v, 0>> /\ c # p
      BY <1>4, <1>6, <1>7, <2>1
    <3>2. QED
      BY <1>6, <1>9, <2>1, <3>1
  <2>2. QED
    BY <2>1
<1>13. todo \in Seq(Young) /\ \A j \in DOMAIN todo : todo[j] \in Promoted
  BY <1>5 DEF CollectInv, ListKept
<1>14. /\ todo' \in Seq(Young) /\ \A j \in DOMAIN todo' : todo'[j] \in Promoted \cup {v}
       /\ \A j \in DOMAIN todo : \E i \in DOMAIN todo' : todo'[i] = todo[j]
       /\ \E j \in DOMAIN todo' : todo'[j] = v
  <2>1. <<v>> \in Seq(Young) /\ Len(<<v>>) = 1 /\ <<v>>[1] = v
    BY <1>6
  <2>2. /\ todo' \in Seq(Young) /\ Len(todo') = 1 + Len(todo)
        /\ todo'[1] = v /\ \A j \in 1 .. Len(todo) : todo'[1 + j] = todo[j]
    BY <1>4, <1>13, <2>1, ConcatProperties
  <2>3. /\ Len(todo) \in Nat /\ DOMAIN todo = 1 .. Len(todo) /\ DOMAIN todo' = 1 .. 1 + Len(todo)
    BY <1>13, <2>2, LenProperties
  <2>4. \A j \in DOMAIN todo : 1 + j \in DOMAIN todo' /\ todo'[1 + j] = todo[j]
    BY <2>2, <2>3
  <2>5. \A j \in DOMAIN todo' : j = 1 \/ (j - 1 \in DOMAIN todo /\ 1 + (j - 1) = j)
    BY <2>3
  <2>6. \A j \in DOMAIN todo' : todo'[j] \in Promoted \cup {v}
    <3>1. ASSUME NEW j \in DOMAIN todo', j # 1 PROVE todo'[j] \in Promoted
      <4>1. j - 1 \in DOMAIN todo /\ todo'[1 + (j - 1)] = todo[j - 1] /\ 1 + (j - 1) = j
        BY <2>4, <2>5, <3>1
      <4>2. QED
        BY <1>13, <4>1
    <3>2. QED
      BY <2>2, <3>1
  <2>7. 1 \in DOMAIN todo'
    BY <2>3
  <2>8. QED
    BY <2>2, <2>4, <2>6, <2>7
<1>15. ASSUME NEW c \in Cell, NEW s \in Cell, s[1] = v, c = <<n, s[2]>>, s[2] < hd[v].size
       PROVE  Listed(c, s)'
  <2>1. s = <<v, s[2]>>
    BY <1>15, Places
  <2>2. s[2] = 0 => field'[c] = before.field[s]
    BY <1>8, <1>9, <1>15, <2>1
  <2>3. before' = before
    BY DEF mutatorVars
  <2>4. QED
    BY <1>14, <1>15, <2>2, <2>3 DEF Listed
<1>16. CallGoesOn' /\ (call # NoCall => V \in Value /\ P \in Cell)'
  BY <1>4 DEF CallGoesOn
<1>17. \A c \in Cell, s \in Cell :
         s[1] = v /\ c = <<n, s[2]>> /\ s[2] < hd[v].size
         => (call' # NoCall /\ call'[2] = c) \/ Settled(c, s)' \/ Listed(c, s)'
  BY <1>15
<1>18. /\ call # NoCall /\ IsYoung(V) /\ hd[V].kind \in {"scan", "raw"}
       /\ hd' = [hd EXCEPT ![n] = hd[v], ![v] = Forwarded]
       /\ field' \in [Cell -> Value \cup {Link}] /\ field'[p] = n
  BY <1>4, <1>9
<1>19. UNCHANGED <<mutatorVars, pc, k, work>>
  OBVIOUS
<1>20. Promotes(v, n, p)
  BY <1>1, <1>2, <1>3, <1>10, <1>11, <1>12, <1>14, <1>17, <1>18 DEF Promotes
<1>21. QED
  BY <1>16, <1>19, <1>20, PromotionKeeps

LEMMA PromoteSmallKeeps ==
  ASSUME HeapInv, Collecting, PromoteSmall, UNCHANGED <<mutatorVars, pc, k, work>>
  PROVE  HeapInv'
<1>1. PICK v : v = V
  OBVIOUS
<1>2. PICK n : n = NextFree
  OBVIOUS
<1>3. PICK p : p = P
  OBVIOUS
<1>4. PICK u : u = field[<<v, 0>>]
  OBVIOUS
<1>5. PICK d : d = <<n, 0>>
  OBVIOUS
<1>6. PICK s0 : s0 = <<v, 0>>
  OBVIOUS
<1>7. /\ call # NoCall /\ IsYoung(V) /\ hd[V].kind \in {"scan", "raw"} /\ hd[v].kind = "scan" /\ hd[v].size = 1
      /\ hd' = [hd EXCEPT ![n] = hd[v], ![v] = Forwarded]
      /\ field' = [field EXCEPT ![p] = n, ![s0] = n]
      /\ call' = <<u, d>> /\ todo' = todo
  BY <1>1, <1>2, <1>3, <1>4, <1>5, <1>6 DEF PromoteSmall
<1>8. TypeOK /\ CollectInv
  BY CollectFacts
<1>9. /\ v \in Young /\ v \notin Promoted /\ hd[v] = before.hd[v] /\ hd[v].size \in 1 .. NF
      /\ n \in Old /\ n \notin Young /\ before.hd[n] = Free
      /\ \A c \in Cell : c[1] = n => field[c] = Imm
      /\ p \in Cell /\ p[1] \notin Young /\ p[1] # n
  BY <1>1, <1>2, <1>3, <1>7, PromotedTo
<1>10. s0 \in Cell /\ d \in Cell /\ s0 # p /\ d # p /\ v # n /\ s0[1] = v /\ s0[2] = 0 /\ d[1] = n /\ d # s0
  BY <1>5, <1>6, <1>9, Places
<1>11. u \in Value /\ u = before.field[s0] /\ (IsYoung(u) => before.hd[u] # Free /\ young_ptr <= u)
  <2>1. field[s0] = before.field[s0]
    BY <1>8, <1>9, <1>10 DEF CollectInv, CopiesMade, IsYoung
  <2>2. u = before.field[s0]
    BY <1>4, <1>6, <2>1
  <2>3. QED
    BY <1>8, <1>10, <2>2 DEF CollectInv, Sound
<1>12. field \in [Cell -> Value \cup {Link}] /\ n \in Value
  BY <1>8, <1>9, Places DEF TypeOK
<1>13. /\ field' \in [Cell -> Value \cup {Link}] /\ field'[s0] = n /\ field'[p] = n
       /\ \A c \in Cell : c # s0 /\ c # p => field'[c] = field[c]
  BY <1>7, <1>9, <1>10, <1>12
<1>14. Copy(v)' = n
  BY <1>6, <1>13 DEF Copy
<1>15. \A c \in Cell : c[1] # n /\ c # <<v, 0>> /\ c # p => field'[c] = field[c]
  BY <1>6, <1>13
<1>16. \A c \in Cell : c[1] = n /\ c[2] >= hd[v].size => field'[c] = Imm
  BY <1>9, <1>10, <1>13
<1>17. /\ call' # NoCall /\ call'[1] = u /\ call'[2] = d /\ V' = u /\ P' = d
  BY <1>7 DEF NoCall, V, P
<1>18. \A c \in Cell, s \in Cell :
         s[1] = v /\ c = <<n, s[2]>> /\ s[2] < hd[v].size
         => (call' # NoCall /\ call'[2] = c) \/ Settled(c, s)' \/ Listed(c, s)'
  <2>1. ASSUME NEW c \in Cell, NEW s \in Cell, s[1] = v, c = <<n, s[2]>>, s[2] < hd[v].size
        PROVE  c = d
    <3>1. s[2] \in 0 .. NF - 1
      BY <1>9, <2>1, Places
    <3>2. s[2] = 0
      BY <1>7, <2>1, <3>1
    <3>3. QED
      BY <1>5, <2>1, <3>2
  <2>2. QED
    BY <1>17, <2>1
<1>19. CallGoesOn' /\ (call # NoCall => V \in Value /\ P \in Cell)'
  <2>1. before' = before /\ young_ptr' = young_ptr
    BY DEF mutatorVars
  <2>2. From(P, s0)'
    <3>1. hd'[v] = Forwarded
      BY <1>7, <1>8, <1>9, <1>10 DEF TypeOK
    <3>2. v \in Promoted'
      BY <1>9, <3>1 DEF Promoted
    <3>3. d = <<Copy(v)', s0[2]>> /\ s0[2] < before'.hd[v].size
      BY <1>5, <1>7, <1>9, <1>10, <1>14, <2>1
    <3>4. QED
      BY <1>10, <1>17, <3>2, <3>3 DEF From
  <2>3. V' = before'.field[s0]
    BY <1>11, <1>17, <2>1
  <2>4. (Behind(V) = Behind(before.field[s0]))'
    BY <2>3 DEF Behind
  <2>5. (V \in Value /\ (IsYoung(V) => before.hd[V] # Free /\ young_ptr <= V))'
    BY <1>11, <1>17, <2>1 DEF IsYoung
  <2>6. CallGoesOn'
    BY <1>10, <2>2, <2>4, <2>5 DEF CallGoesOn
  <2>7. QED
    BY <1>10, <1>11, <1>17, <2>6
<1>20. /\ todo' \in Seq(Young) /\ \A j \in DOMAIN todo' : todo'[j] \in Promoted \cup {v}
       /\ \A j \in DOMAIN todo : \E i \in DOMAIN todo' : todo'[i] = todo[j]
  BY <1>7, <1>8 DEF CollectInv, ListKept
<1>21. /\ call # NoCall /\ IsYoung(V) /\ hd[V].kind \in {"scan", "raw"}
       /\ hd' = [hd EXCEPT ![n] = hd[v], ![v] = Forwarded]
       /\ field' \in [Cell -> Value \cup {Link}] /\ field'[p] = n
  BY <1>7, <1>13
<1>22. UNCHANGED <<mutatorVars, pc, k, work>>
  OBVIOUS
<1>23. Promotes(v, n, p)
  BY <1>1, <1>2, <1>3, <1>14, <1>15, <1>16, <1>18, <1>20, <1>21 DEF Promotes
<1>24. QED
  BY <1>19, <1>22, <1>23, PromotionKeeps

\* The words of a string are no references, so the copy has them already.
LEMMA PromoteRawKeeps ==
  ASSUME HeapInv, Collecting, Bytes \cap Young = {}, PromoteRaw, UNCHANGED <<mutatorVars, pc, k, work>>
  PROVE  HeapInv'
<1>1. PICK v : v = V
  OBVIOUS
<1>2. PICK n : n = NextFree
  OBVIOUS
<1>3. PICK p : p = P
  OBVIOUS
<1>4. PICK l : l = hd[v].size
  OBVIOUS
<1>5. PICK vs : vs = [i \in 1 .. l |-> field[<<v, i - 1>>]]
  OBVIOUS
<1>6. PICK F : F = Filled(field, n, vs)
  OBVIOUS
<1>7. /\ call # NoCall /\ IsYoung(V) /\ hd[V].kind \in {"scan", "raw"} /\ hd[v].kind = "raw"
      /\ hd' = [hd EXCEPT ![n] = hd[v], ![v] = Forwarded]
      /\ field' = [[F EXCEPT ![<<v, 0>>] = n] EXCEPT ![p] = n]
      /\ call' = NoCall /\ todo' = todo
  BY <1>1, <1>2, <1>3, <1>4, <1>5, <1>6 DEF PromoteRaw, Return
<1>8. TypeOK /\ CollectInv
  BY CollectFacts
<1>9. /\ v \in Young /\ v \notin Promoted /\ hd[v] = before.hd[v] /\ l \in 1 .. NF
      /\ n \in Old /\ n \notin Young /\ before.hd[n] = Free
      /\ p \in Cell /\ p[1] \notin Young /\ p[1] # n
  BY <1>1, <1>2, <1>3, <1>4, <1>7, PromotedTo
<1>10. <<v, 0>> \in Cell /\ <<v, 0>>[1] = v /\ <<v, 0>> # p /\ v # n /\ l \in Nat /\ l <= NF /\ NF \in Nat
  BY <1>9, Places
<1>11. \A i \in 0 .. l - 1 : /\ <<v, i>> \in Cell /\ field[<<v, i>>] \in Bytes /\ i \in 0 .. NF - 1
                             /\ field[<<v, i>>] = before.field[<<v, i>>]
  <2> TAKE i \in 0 .. l - 1
  <2>1. i \in 0 .. NF - 1 /\ i < l
    BY <1>10
  <2>2. <<v, i>> \in Cell /\ <<v, i>>[1] = v /\ <<v, i>>[2] = i
    BY <1>9, <2>1, Places
  <2>3. field[<<v, i>>] = before.field[<<v, i>>]
    BY <1>8, <1>9, <2>2 DEF CollectInv, CopiesMade, IsYoung
  <2>4. before.field[<<v, i>>] \in Bytes
    BY <1>4, <1>7, <1>8, <1>9, <2>1, <2>2 DEF CollectInv, Sound
  <2>5. QED
    BY <2>1, <2>2, <2>3, <2>4
<1>12. vs \in Seq(Value) /\ Len(vs) = l /\ \A i \in 1 .. l : vs[i] = field[<<v, i - 1>>]
  <2>1. \A i \in 1 .. l : i - 1 \in 0 .. l - 1
    BY <1>10
  <2>2. \A i \in 1 .. l : field[<<v, i - 1>>] \in Value
    BY <1>11, <2>1, BytesAssumption
  <2>3. vs \in Seq(Value) /\ Len(vs) = l
    BY <1>5, <1>10, <2>2
  <2>4. \A i \in 1 .. l : vs[i] = field[<<v, i - 1>>]
    BY <1>5
  <2>5. QED
    BY <2>3, <2>4
<1>13. \A c \in Cell : /\ c[1] # n => F[c] = field[c]
                       /\ c[1] = n /\ c[2] < l => F[c] = vs[c[2] + 1]
                       /\ c[1] = n /\ ~(c[2] < l) => F[c] = Imm
  BY <1>6, <1>12 DEF Filled
<1>14. field \in [Cell -> Value \cup {Link}] /\ n \in Value /\ Imm \in Value
  BY <1>8, <1>9, Places DEF TypeOK
<1>15. \A c \in Cell : c[1] = n /\ c[2] < l => F[c] = field[<<v, c[2]>>] /\ c[2] \in 0 .. l - 1
  <2> TAKE c \in Cell
  <2>1. ASSUME c[1] = n, c[2] < l PROVE F[c] = field[<<v, c[2]>>] /\ c[2] \in 0 .. l - 1
    <3>1. c[2] \in 0 .. NF - 1
      BY <1>9, <2>1, Places
    <3>2. c[2] \in 0 .. l - 1 /\ c[2] + 1 \in 1 .. l /\ (c[2] + 1) - 1 = c[2]
      BY <1>10, <2>1, <3>1
    <3>3. QED
      BY <1>12, <1>13, <2>1, <3>2
  <2>2. QED
    BY <2>1
<1>16. F \in [Cell -> Value \cup {Link}]
  <2>1. \A c \in Cell : F[c] \in Value \cup {Link}
    BY <1>11, <1>13, <1>14, <1>15, BytesAssumption
  <2>2. F = [c \in Cell |-> F[c]]
    BY <1>6 DEF Filled
  <2>3. QED
    BY <2>1, <2>2
<1>17. /\ field' \in [Cell -> Value \cup {Link}] /\ field'[<<v, 0>>] = n /\ field'[p] = n
       /\ \A c \in Cell : c # <<v, 0>> /\ c # p => field'[c] = F[c]
  BY <1>7, <1>9, <1>10, <1>14, <1>16
<1>18. Copy(v)' = n
  BY <1>17 DEF Copy
<1>19. \A c \in Cell : c[1] # n /\ c # <<v, 0>> /\ c # p => field'[c] = field[c]
  BY <1>13, <1>17
<1>20. \A c \in Cell : c[1] = n => c # <<v, 0>> /\ c # p /\ field'[c] = F[c]
  BY <1>9, <1>10, <1>17
<1>21. \A c \in Cell : c[1] = n /\ c[2] >= hd[v].size => field'[c] = Imm
  <2>1. \A c \in Cell : c[1] = n /\ c[2] >= l => ~(c[2] < l)
    <3>1. \A c \in Cell : c[1] = n => c[2] \in Int
      BY <1>9, Places
    <3>2. QED
      BY <1>10, <3>1
  <2>2. QED
    BY <1>4, <1>13, <1>20, <2>1
<1>22. ASSUME NEW c \in Cell, NEW s \in Cell, s[1] = v, c = <<n, s[2]>>, s[2] < hd[v].size
       PROVE  Settled(c, s)'
  <2>1. PICK w : w = before.field[s]
    OBVIOUS
  <2>2. c[1] = n /\ c[2] = s[2] /\ s = <<v, s[2]>>
    BY <1>22, Places
  <2>3. field'[c] = w /\ w \in Bytes
    <3>1. F[c] = field[<<v, s[2]>>] /\ s[2] \in 0 .. l - 1
      BY <1>4, <1>15, <1>22, <2>2
    <3>2. field[<<v, s[2]>>] = w /\ w \in Bytes
      BY <1>11, <2>1, <2>2, <3>1
    <3>3. QED
      BY <1>20, <2>2, <3>1, <3>2
  <2>4. w \in Old \cup {Imm} /\ w \in Value /\ ~IsYoung(w)
    BY <2>3, BytesAssumption, Places DEF IsYoung
  <2>5. Behind(w) = w
    BY <2>4, CollectFacts, BehindItself
  <2>6. before' = before
    BY DEF mutatorVars
  <2>7. Behind(before.field[s])' = w
    BY <2>1, <2>5, <2>6, BehindSame
  <2>8. QED
    BY <2>3, <2>4, <2>7 DEF Settled, Image, IsYoung
<1>23. \A c \in Cell, s \in Cell :
         s[1] = v /\ c = <<n, s[2]>> /\ s[2] < hd[v].size
         => (call' # NoCall /\ call'[2] = c) \/ Settled(c, s)' \/ Listed(c, s)'
  BY <1>22
<1>24. CallGoesOn' /\ (call # NoCall => V \in Value /\ P \in Cell)'
  BY <1>7 DEF CallGoesOn
<1>25. /\ todo' \in Seq(Young) /\ \A j \in DOMAIN todo' : todo'[j] \in Promoted \cup {v}
       /\ \A j \in DOMAIN todo : \E i \in DOMAIN todo' : todo'[i] = todo[j]
  BY <1>7, <1>8 DEF CollectInv, ListKept
<1>26. /\ call # NoCall /\ IsYoung(V) /\ hd[V].kind \in {"scan", "raw"}
       /\ hd' = [hd EXCEPT ![n] = hd[v], ![v] = Forwarded]
       /\ field' \in [Cell -> Value \cup {Link}] /\ field'[p] = n
  BY <1>7, <1>17
<1>27. UNCHANGED <<mutatorVars, pc, k, work>>
  OBVIOUS
<1>28. Promotes(v, n, p)
  BY <1>1, <1>2, <1>3, <1>18, <1>19, <1>21, <1>23, <1>25, <1>26 DEF Promotes
<1>29. QED
  BY <1>24, <1>27, <1>28, PromotionKeeps

LEMMA CollectingKeeps ==
  ASSUME HeapInv, Collecting, Bytes \cap Young = {}, ScanRoot \/ ScanRef \/ TakeTodo \/ CompleteField \/ oldify_one
  PROVE  HeapInv'
<1>1. CASE ScanRoot
  BY <1>1, ScanRootKeeps
<1>2. CASE ScanRef
  BY <1>2, ScanRefKeeps
<1>3. CASE TakeTodo
  BY <1>3, TakeTodoKeeps
<1>4. CASE CompleteField
  BY <1>4, CompleteFieldKeeps
<1>5. CASE oldify_one
  <2>1. UNCHANGED <<mutatorVars, pc, k, work>>
    BY <1>5 DEF oldify_one
  <2>2. CASE NotYoung
    BY <2>1, <2>2, NotYoungKeeps
  <2>3. CASE AlreadyForwarded
    BY <2>1, <2>3, AlreadyForwardedKeeps
  <2>4. CASE Promote
    BY <2>1, <2>4, PromoteKeeps
  <2>5. CASE PromoteSmall
    BY <2>1, <2>5, PromoteSmallKeeps
  <2>6. CASE PromoteRaw
    BY <2>1, <2>6, PromoteRawKeeps
  <2>7. CASE Follow
    BY <2>1, <2>7, FollowKeeps
  <2>8. QED
    BY <1>5, <2>2, <2>3, <2>4, <2>5, <2>6, <2>7 DEF oldify_one
<1>6. QED
  BY <1>1, <1>2, <1>3, <1>4, <1>5

-----------------------------------------------------------------------------
(* What a collection leaves                                                *)

\* When nothing is left to do, every cell has been given what it must hold.
LEMMA AllSettled ==
  ASSUME HeapInv, pc = "emptied"
  PROVE  /\ Collecting /\ call = NoCall /\ todo = <<>> /\ work = Imm
         /\ \A c, s \in Cell : From(c, s) => Settled(c, s)
<1>1. Collecting
  BY DEF Collecting
<1>2. CollectInv
  BY <1>1, CollectFacts
<1>3. call = NoCall /\ todo = <<>> /\ work = Imm
  BY <1>2 DEF CollectInv, ListKept
<1>4. ASSUME NEW c \in Cell, NEW s \in Cell, From(c, s) PROVE Settled(c, s)
  <2>1. Settled(c, s) \/ Waits(c, s)
    BY <1>2, <1>3, <1>4 DEF CollectInv, CellsDone
  <2>2. ~Scanned(c)
    BY DEF Scanned
  <2>3. ASSUME s # c, Listed(c, s) PROVE FALSE
    <3>1. s[1] \in Promoted
      BY <1>4, <2>3 DEF From
    <3>2. s[1] # Imm
      BY <3>1, Places DEF Promoted
    <3>3. DOMAIN todo = {}
      BY <1>3
    <3>4. QED
      BY <1>3, <2>3, <3>2, <3>3 DEF Listed
  <2>4. QED
    BY <2>1, <2>2, <2>3 DEF Waits
<1>5. QED
  BY <1>1, <1>3, <1>4

\* Every cell outside the young area is one of those, or empty.
LEMMA CellsOfOld ==
  ASSUME HeapInv, Collecting, NEW c \in Cell, c[1] \notin Young
  PROVE  \/ From(c, c)
         \/ c[1] \in Old /\ field[c] = Imm
         \/ \E a \in Promoted : /\ c[1] = Copy(a) /\ <<a, c[2]>> \in Cell /\ From(c, <<a, c[2]>>)
                                /\ hd[c[1]] = before.hd[a]
<1>1. CollectInv /\ TypeOK
  BY CollectFacts
<1>2. CASE c[1] \in Root \/ before.hd[c[1]] # Free
  BY <1>2, Places DEF From
<1>3. CASE c[1] \notin Root /\ before.hd[c[1]] = Free
  <2>1. c[1] \in Old /\ c[2] \in 0 .. NF - 1 /\ c = <<c[1], c[2]>>
    BY <1>3, Places
  <2>2. CASE c[2] >= hd[c[1]].size
    BY <1>1, <1>3, <2>1, <2>2 DEF CollectInv, CopiesMade
  <2>3. CASE ~(c[2] >= hd[c[1]].size)
    <3>1. hd[c[1]] # Free
      BY <2>1, <2>3, HeaderIs
    <3>2. PICK a \in Promoted : Copy(a) = c[1]
      BY <1>1, <1>3, <2>1, <3>1 DEF CollectInv, HeadersKept
    <3>3. a \in Young /\ hd[c[1]] = before.hd[a]
      BY <1>1, <3>2, CollectFacts DEF CollectInv, CopiesMade
    <3>4. <<a, c[2]>> \in Cell
      BY <2>1, <3>3, Places
    <3>5. hd[c[1]].size \in Int /\ c[2] \in Int
      <4>1. hd[c[1]] \in Header
        BY <1>1, <2>1 DEF TypeOK
      <4>2. QED
        BY <2>1, <4>1, HeaderIs
    <3>6. c[2] < before.hd[a].size
      BY <2>3, <3>3, <3>5
    <3>7. From(c, <<a, c[2]>>)
      BY <2>1, <3>2, <3>6 DEF From
    <3>8. QED
      BY <3>2, <3>3, <3>4, <3>7
  <2>4. QED
    BY <2>2, <2>3
<1>4. QED
  BY <1>2, <1>3

\* Words that are no young blocks stay what they are.
LEMMA BytesStay ==
  ASSUME HeapInv, Collecting, Bytes \cap Young = {}, NEW c \in Cell, NEW s \in Cell, Settled(c, s),
         before.field[s] \in Bytes
  PROVE  field[c] = before.field[s]
<1>1. before.field[s] \in Value /\ ~IsYoung(before.field[s])
  BY BytesAssumption DEF IsYoung
<1>2. Behind(before.field[s]) = before.field[s]
  BY <1>1, CollectFacts, BehindItself
<1>3. QED
  BY <1>1, <1>2 DEF Settled, Image

LEMMA EmptyYoungKeeps ==
  ASSUME HeapInv, Bytes \cap Young = {}, EmptyYoung
  PROVE  HeapInv'
<1>1. /\ pc = "emptied" /\ pc' = "slice" /\ ref_table' = <<>>
      /\ hd' = [b \in Young \cup Old |-> IF b \in Young THEN Free ELSE hd[b]]
      /\ field' = [c \in Cell |-> IF IsYoung(c[1]) THEN Imm ELSE field[c]]
      /\ young_ptr' = young_end /\ young_end' = young_end /\ max_young' = max_young
      /\ ref_table_limit' = ref_table_size /\ ref_table_size' = ref_table_size
      /\ force_major_slice' = force_major_slice
      /\ call' = call /\ todo' = todo /\ work' = work
  BY DEF EmptyYoung, area
<1>2. /\ Collecting /\ call = NoCall /\ todo = <<>> /\ work = Imm
      /\ \A c, s \in Cell : From(c, s) => Settled(c, s)
  BY <1>1, AllSettled
<1>3. TypeOK /\ CollectInv /\ TableInBounds /\ ref_table_size \in Nat \ {0}
  BY <1>2 DEF HeapInv
<1>4. Young \cap Old = {} /\ Imm \in Value /\ ~IsYoung(Imm) /\ Free \in Header
  BY Places, HeaderIs DEF IsYoung
<1>5. /\ hd' \in [Young \cup Old -> Header]
      /\ \A b \in Young : hd'[b] = Free
      /\ \A b \in Old : hd'[b] = hd[b]
  BY <1>1, <1>3, <1>4 DEF TypeOK
<1>6. ASSUME NEW c \in Cell PROVE field'[c] \in Old \cup {Imm}
  <2>1. CASE IsYoung(c[1])
    BY <1>1, <2>1
  <2>2. CASE ~IsYoung(c[1])
    <3>1. field'[c] = field[c]
      BY <1>1, <2>2
    <3>2. \/ From(c, c)
          \/ c[1] \in Old /\ field[c] = Imm
          \/ \E a \in Promoted : <<a, c[2]>> \in Cell /\ From(c, <<a, c[2]>>)
      BY <1>2, <2>2, CellsOfOld DEF IsYoung
    <3>3. field[c] \in Old \cup {Imm}
      BY <1>2, <3>2 DEF Settled
    <3>4. QED
      BY <3>1, <3>3
  <2>3. QED
    BY <2>1, <2>2
<1>7. field' \in [Cell -> Value] /\ \A c \in Cell : ~IsYoung(field'[c])
  <2>1. Old \cup {Imm} \subseteq Value /\ \A v \in Old \cup {Imm} : ~IsYoung(v)
    BY <1>4, Places DEF IsYoung
  <2>2. field' = [c \in Cell |-> field'[c]]
    BY <1>1
  <2>3. QED
    BY <1>6, <2>1, <2>2
<1>8. \A b \in Old : hd[b] # Forwarded /\ (hd[b] = Free => before.hd[b] = Free)
  <2>1. ASSUME NEW b \in Old PROVE hd[b] # Forwarded /\ (hd[b] = Free => before.hd[b] = Free)
    <3>1. CASE before.hd[b] # Free
      <4>1. hd[b] = before.hd[b]
        BY <1>3, <3>1 DEF CollectInv, HeadersKept
      <4>2. QED
        BY <1>2, <3>1, <4>1, CollectFacts
    <3>2. CASE before.hd[b] = Free /\ hd[b] # Free
      <4>1. PICK a \in Promoted : Copy(a) = b
        BY <1>3, <3>2 DEF CollectInv, HeadersKept
      <4>2. hd[b] = before.hd[a]
        BY <1>3, <4>1 DEF CollectInv, CopiesMade
      <4>3. QED
        BY <1>2, <3>2, <4>2, CollectFacts
    <3>3. CASE before.hd[b] = Free /\ hd[b] = Free
      BY <3>3, HeaderIs
    <3>4. QED
      BY <3>1, <3>2, <3>3
  <2>2. QED
    BY <2>1
<1>9. \A b \in Young \cup Old : hd'[b] # Forwarded
  BY <1>5, <1>8, HeaderIs
<1>10. ASSUME NEW c \in Cell, c[1] \in Old, hd'[c[1]] = Free PROVE field'[c] = Imm
  <2>1. hd[c[1]] = Free /\ before.hd[c[1]] = Free /\ field'[c] = field[c]
    BY <1>1, <1>4, <1>5, <1>8, <1>10 DEF IsYoung
  <2>2. c[2] >= hd[c[1]].size
    BY <1>10, <2>1, Places, HeaderIs
  <2>3. QED
    BY <1>3, <1>10, <2>1, <2>2 DEF CollectInv, CopiesMade
<1>11. ASSUME NEW c \in Cell, c[1] \in Young \cup Old, hd'[c[1]].kind = "raw", c[2] < hd'[c[1]].size
       PROVE  field'[c] \in Bytes
  <2>1. hd'[c[1]] # Free
    BY <1>11, HeaderIs DEF Kinds
  <2>2. c[1] \in Old /\ c[1] \notin Young /\ hd'[c[1]] = hd[c[1]] /\ field'[c] = field[c]
    BY <1>1, <1>4, <1>5, <1>11, <2>1 DEF IsYoung
  <2>3. hd[c[1]].kind = "raw" /\ c[2] < hd[c[1]].size
    BY <1>11, <2>2
  <2>4. CASE before.hd[c[1]] # Free
    <3>1. before.hd[c[1]] = hd[c[1]]
      BY <1>3, <2>2, <2>4 DEF CollectInv, HeadersKept
    <3>2. before.field[c] \in Bytes
      BY <1>3, <2>2, <2>3, <3>1 DEF CollectInv, Sound
    <3>3. Settled(c, c)
      BY <1>2, <2>2, <2>4 DEF From
    <3>4. QED
      BY <1>2, <2>2, <3>2, <3>3, BytesStay
  <2>5. CASE before.hd[c[1]] = Free
    <3>1. PICK a \in Promoted : Copy(a) = c[1]
      BY <1>3, <2>1, <2>2, <2>5 DEF CollectInv, HeadersKept
    <3>2. hd[c[1]] = before.hd[a] /\ a \in Young
      BY <1>2, <1>3, <3>1, CollectFacts DEF CollectInv, CopiesMade
    <3>3. PICK s : s = <<a, c[2]>>
      OBVIOUS
    <3>4. c = <<c[1], c[2]>> /\ c[2] \in 0 .. NF - 1
      BY <2>2, Places
    <3>5. s \in Cell /\ s[1] = a /\ s[2] = c[2]
      BY <3>2, <3>3, <3>4, Places
    <3>6. From(c, s)
      BY <2>3, <3>1, <3>2, <3>4, <3>5 DEF From
    <3>7. before.field[s] \in Bytes
      BY <1>3, <2>3, <3>2, <3>5 DEF CollectInv, Sound
    <3>8. Settled(c, s)
      BY <1>2, <3>5, <3>6
    <3>9. QED
      BY <1>2, <2>2, <3>5, <3>7, <3>8, BytesStay
  <2>6. QED
    BY <2>4, <2>5
<1>12. Sound(hd, field)'
  <2>1. \A c : ~Known(c)'
    BY <1>1 DEF Known
  <2>2. QED
    BY <1>5, <1>7, <1>9, <1>10, <1>11, <2>1 DEF Sound
<1>13. IdleInv' /\ ~Collecting'
  BY <1>1, <1>2, <1>5, <1>7, <1>12 DEF IdleInv, Collecting
<1>14. Capacity'
  <2>1. MayMove' = {}
    BY <1>5 DEF MayMove
  <2>2. Cardinality(MayMove') = 0
    BY <2>1, FS_EmptySet
  <2>3. FreeOld' \in SUBSET Old
    BY DEF FreeOld
  <2>4. Cardinality(FreeOld') \in Nat
    BY <2>3, FiniteHeap, FS_Subset, FS_CardinalityType
  <2>5. Cardinality(MayMove') <= Cardinality(FreeOld')
    BY <2>2, <2>4
  <2>6. QED
    BY <2>5 DEF Capacity, MayMove, FreeOld
<1>15. TypeOK'
  <2>1. young_ptr' \in 1 .. young_end'
    BY <1>1, <1>3, AreaIs
  <2>2. <<>> \in Seq(Old \X (0 .. NF - 1))
    OBVIOUS
  <2>3. field' \in [Cell -> Value \cup {Link}]
    BY <1>7
  <2>4. QED
    BY <1>1, <1>2, <1>3, <1>5, <2>1, <2>2, <2>3 DEF TypeOK
<1>16. TableInBounds' /\ ref_table_size' \in Nat \ {0}
  <2>1. Len(ref_table') = 0 /\ ref_table_size' \in Nat \ {0} /\ ref_table_limit' = ref_table_size'
    BY <1>1, <1>3
  <2>2. QED
    BY <2>1 DEF TableInBounds
<1>17. QED
  BY <1>13, <1>14, <1>15, <1>16 DEF HeapInv

-----------------------------------------------------------------------------
(* The theorems                                                            *)

LEMMA StutterKeeps ==
  ASSUME HeapInv, UNCHANGED vars
  PROVE  HeapInv'
<1>1. /\ hd' = hd /\ field' = field /\ max_young' = max_young /\ young_end' = young_end
      /\ young_ptr' = young_ptr /\ ref_table' = ref_table /\ ref_table_size' = ref_table_size
      /\ ref_table_limit' = ref_table_limit /\ force_major_slice' = force_major_slice
      /\ pc' = pc /\ k' = k /\ work' = work /\ call' = call /\ todo' = todo /\ before' = before
  BY DEF vars, area, tableVars, gcVars, callVars
<1>2. TypeOK /\ TableInBounds /\ ref_table_size \in Nat \ {0} /\ Capacity
  BY DEF HeapInv
<1>3. CASE ~Collecting
  <2>1. IdleInv
    BY <1>3 DEF HeapInv
  <2>2. Sound(hd, field)'
    BY <1>1, <2>1 DEF IdleInv, Sound, Known
  <2>3. IdleInv' /\ ~Collecting'
    BY <1>1, <1>3, <2>1, <2>2 DEF IdleInv, Collecting
  <2>4. TypeOK' /\ TableInBounds' /\ ref_table_size' \in Nat \ {0} /\ Capacity'
    BY <1>1, <1>2 DEF TypeOK, TableInBounds, Capacity, V, P
  <2>5. QED
    BY <2>3, <2>4 DEF HeapInv
<1>4. CASE Collecting
  <2>1. CollectInv
    BY <1>4, CollectFacts
  <2>2. /\ HeadersKept' /\ CopiesMade' /\ Capacity' /\ MarksStay /\ Promoted' = Promoted
        /\ \A c, t : From(c, t)' <=> From(c, t)
    <3>1. WritesCared
      BY <1>1 DEF WritesCared
    <3>2. QED
      BY <1>1, <1>4, <3>1, HeadersSame
  <2>3. CellsDone'
    <3>1. ASSUME NEW c \in Cell, NEW t \in Cell, From(c, t)
          PROVE  (call # NoCall /\ P = c) \/ Settled(c, t)' \/ Waits(c, t)'
      <4>1. (call # NoCall /\ P = c) \/ Settled(c, t) \/ Waits(c, t)
        BY <2>1, <3>1 DEF CollectInv, CellsDone
      <4>2. Settled(c, t) => Settled(c, t)'
        BY <1>1, <2>2, SettledStays
      <4>3. Waits(c, t) => Waits(c, t)'
        BY <1>1 DEF Waits, Scanned, Listed, Known
      <4>4. QED
        BY <4>1, <4>2, <4>3
    <3>2. QED
      BY <1>1, <2>2, <3>1 DEF CellsDone, P
  <2>4. CallGoesOn'
    <3>1. CASE call = NoCall
      BY <1>1, <3>1 DEF CallGoesOn
    <3>2. CASE call # NoCall
      <4>1. PICK s \in Cell : /\ From(P, s)
                              /\ \/ Behind(V) = Behind(before.field[s])
                                 \/ V = field[P] /\ Settled(P, s)
        BY <2>1, <3>2 DEF CollectInv, CallGoesOn
      <4>2. V' = V /\ P' = P
        BY <1>1 DEF V, P
      <4>3. (Behind(V) = Behind(before.field[s]))' <=> Behind(V) = Behind(before.field[s])
        BY <1>1, <4>2 DEF Behind
      <4>4. V = field[P] /\ Settled(P, s) => (V = field[P] /\ Settled(P, s))'
        <5>1. PICK p : p = P
          OBVIOUS
        <5>2. Settled(p, s) => Settled(p, s)'
          BY <1>1, <2>2, SettledStays
        <5>3. Settled(P, s)' <=> Settled(p, s)'
          BY <4>2, <5>1 DEF Settled
        <5>4. QED
          BY <1>1, <4>2, <5>1, <5>2, <5>3
      <4>5. From(P, s)'
        <5>1. PICK p : p = P
          OBVIOUS
        <5>2. From(p, s)'
          BY <2>2, <4>1, <5>1
        <5>3. QED
          BY <4>2, <5>1, <5>2 DEF From
      <4>6. (V \in Value)' /\ (IsYoung(V) => before.hd[V] # Free /\ young_ptr <= V)'
        BY <1>1, <2>1, <3>2, <4>2 DEF CollectInv, CallGoesOn, IsYoung
      <4>7. QED
        BY <4>1, <4>3, <4>4, <4>5, <4>6 DEF CallGoesOn
    <3>3. QED
      BY <3>1, <3>2
  <2>5. ListKept'
    BY <1>1, <2>1, <2>2 DEF CollectInv, ListKept
  <2>6. /\ hd' \in [Young \cup Old -> Header] /\ field' \in [Cell -> Value \cup {Link}] /\ Collecting'
        /\ (call # NoCall => V \in Value /\ P \in Cell)'
    BY <1>1, <1>2, <1>4 DEF TypeOK, Collecting, V, P
  <2>7. UNCHANGED mutatorVars
    BY DEF vars, mutatorVars, gcVars, callVars
  <2>8. QED
    BY <1>4, <2>2, <2>3, <2>4, <2>5, <2>6, <2>7, CollectKeeps
<1>5. QED
  BY <1>3, <1>4

\* HeapInv is inductive.
LEMMA HeapStep ==
  ASSUME HeapInv, Bytes \cap Young = {}, ~Unbarriered, [Next]_vars
  PROVE  HeapInv'
<1>1. CASE SetMinorHeapSize
  BY <1>1, SetMinorHeapSizeKeeps
<1>2. CASE Mutator
  <2>1. pc = "mutator"
    BY <1>2 DEF Mutator, AllocSmall, AllocLarge, Load, Modify, Indirect, UpdateInPlace, Mutates
  <2>2. QED
    BY <1>2, <2>1, AllocSmallKeeps, AllocLargeKeeps, LoadKeeps, ModifyKeeps, IndirectKeeps, UpdateInPlaceKeeps
       DEF Mutator
<1>3. CASE StartCollection
  BY <1>3, StartCollectionKeeps
<1>4. CASE Collect
  <2>1. CASE EmptyYoung
    BY <2>1, EmptyYoungKeeps
  <2>2. CASE MajorSlice
    BY <2>2, MajorSliceKeeps
  <2>3. CASE ScanRoot \/ ScanRef \/ TakeTodo \/ CompleteField \/ oldify_one
    <3>1. Collecting
      <4>1. ASSUME ~Collecting PROVE FALSE
        <5>1. call = NoCall /\ pc \notin {"roots", "refs", "mopup", "emptied"}
          BY <4>1 DEF HeapInv, IdleInv, Collecting
        <5>2. QED
          BY <2>3, <5>1 DEF ScanRoot, ScanRef, TakeTodo, CompleteField, oldify_one, NotYoung,
                            AlreadyForwarded, Promote, PromoteSmall, PromoteRaw, Follow
      <4>2. QED
        BY <4>1
    <3>2. QED
      BY <2>3, <3>1, CollectingKeeps
  <2>4. QED
    BY <1>4, <2>1, <2>2, <2>3 DEF Collect
<1>5. CASE UNCHANGED vars
  BY <1>5, StutterKeeps
<1>6. QED
  BY <1>1, <1>2, <1>3, <1>4, <1>5 DEF Next

LEMMA HeapInvariant ==
  ASSUME Bytes \cap Young = {}, ~Unbarriered
  PROVE  Spec => []HeapInv
<1>1. Init => HeapInv
  BY HeapInit
<1>2. HeapInv /\ [Next]_vars => HeapInv'
  BY HeapStep
<1>3. QED
  BY <1>1, <1>2, PTL DEF Spec

\* Only values of the heap and links of the to-do list are in the cells, only fields of
\* old blocks are in the table, and oldify_one is given values (minor_gc.c, heapfast.h).
THEOREM MinorTypeCorrect ==
  ASSUME Bytes \cap Young = {}, ~Unbarriered
  PROVE  Spec => []TypeOK
<1>1. HeapInv => TypeOK
  BY DEF HeapInv
<1>2. QED
  BY <1>1, HeapInvariant, PTL

\* Nothing is missing from the reference table, and nothing is written behind its end,
\* whatever the program does in between (heapfast.h 45-77, minor_gc.c 222-246).
THEOREM TableIsSound ==
  ASSUME Bytes \cap Young = {}, ~Unbarriered
  PROVE  Spec => []TableSound
<1>1. HeapInv => RefsKnown
  BY DEF HeapInv, Collecting, IdleInv, Sound, RefsKnown, Known
<1>2. HeapInv => TableInBounds
  BY DEF HeapInv
<1>3. QED
  BY <1>1, <1>2, HeapInvariant, PTL DEF TableSound

\* Only blocks in use are promoted, and when the young area is empty nothing refers to it
\* any more (minor_gc.c 74-192).
THEOREM YoungIsLeft ==
  ASSUME Bytes \cap Young = {}, ~Unbarriered
  PROVE  Spec => []NoneLeftYoung
<1>1. HeapInv => NothingYoung
  <2>1. ASSUME HeapInv, pc = "slice", NEW c \in Cell PROVE field[c] \in Old \cup {Imm}
    <3>1. IdleInv
      BY <2>1 DEF HeapInv, Collecting
    <3>2. field[c] \in Value /\ ~IsYoung(field[c])
      BY <2>1, <3>1 DEF IdleInv, Sound
    <3>3. QED
      BY <3>2, Places DEF IsYoung
  <2>2. QED
    BY <2>1 DEF NothingYoung
<1>2. HeapInv => PromotesBlocks
  <2>1. ASSUME HeapInv, call # NoCall, IsYoung(V) PROVE V >= young_ptr /\ hd[V] # Free
    <3>1. Collecting
      BY <2>1 DEF HeapInv, IdleInv
    <3>2. V \in Young /\ before.hd[V] # Free /\ young_ptr <= V
      BY <2>1, <3>1, CalledFor
    <3>3. hd[V] # Free
      BY <2>1, <3>1, <3>2, CollectFacts, HeaderIs
    <3>4. young_ptr \in Int /\ V \in Int
      BY <2>1, <3>1, <3>2, CollectFacts, AreaIs
    <3>5. QED
      BY <3>2, <3>3, <3>4
  <2>2. QED
    BY <2>1 DEF PromotesBlocks
<1>3. QED
  BY <1>1, <1>2, HeapInvariant, PTL DEF NoneLeftYoung

\* A collection keeps the heap as it was, but for the places of its blocks and for young
\* indirections (minor_gc.c 74-192).
THEOREM HeapIsPreserved ==
  ASSUME Bytes \cap Young = {}, ~Unbarriered
  PROVE  Spec => []HeapPreserved
<1>1. ASSUME HeapInv, pc = "emptied"
      PROVE  /\ \A c \in Cell :
                  \/ c[1] \in Root
                  \/ c[1] \in Old /\ before.hd[c[1]].kind \in {"scan", "ind"} /\ c[2] \in Indices(c[1])
                  => field[c] = Image(before.field[c])
             /\ \A b \in Old : before.hd[b] # Free => hd[b] = before.hd[b]
             /\ \A b \in Promoted :
                  /\ Copy(b) \in Old /\ before.hd[Copy(b)] = Free /\ hd[Copy(b)] = before.hd[b]
                  /\ \A i \in Indices(Copy(b)) :
                       field[<<Copy(b), i>>] = IF before.hd[b].kind = "raw" THEN before.field[<<b, i>>]
                                               ELSE Image(before.field[<<b, i>>])
             /\ \A a, b \in Promoted : Copy(a) = Copy(b) => a = b
  <2>1. Collecting /\ \A c, s \in Cell : From(c, s) => Settled(c, s)
    BY <1>1, AllSettled
  <2>2. CollectInv /\ TypeOK
    BY <1>1, <2>1, CollectFacts
  <2>3. ASSUME NEW c \in Cell, \/ c[1] \in Root
                               \/ c[1] \in Old /\ before.hd[c[1]].kind \in {"scan", "ind"}
        PROVE  field[c] = Image(before.field[c])
    <3>1. c[1] \in Old /\ before.hd[c[1]].kind \in {"scan", "ind"} => before.hd[c[1]] # Free
      BY HeaderIs DEF Kinds
    <3>2. Settled(c, c)
      BY <2>1, <2>3, <3>1 DEF From
    <3>3. QED
      BY <3>2 DEF Settled
  <2>4. \A b \in Old : before.hd[b] # Free => hd[b] = before.hd[b]
    BY <2>2 DEF CollectInv, HeadersKept
  <2>5. ASSUME NEW b \in Promoted
        PROVE  Copy(b) \in Old /\ before.hd[Copy(b)] = Free /\ hd[Copy(b)] = before.hd[b]
    BY <2>2 DEF CollectInv, CopiesMade
  <2>6. ASSUME NEW b \in Promoted, NEW i \in Indices(Copy(b))
        PROVE  field[<<Copy(b), i>>] = IF before.hd[b].kind = "raw" THEN before.field[<<b, i>>]
                                       ELSE Image(before.field[<<b, i>>])
    <3>1. PICK n : n = Copy(b)
      OBVIOUS
    <3>2. PICK c : c = <<n, i>>
      OBVIOUS
    <3>3. PICK s : s = <<b, i>>
      OBVIOUS
    <3>4. b \in Young /\ before.hd[b].size \in 1 .. NF /\ n \in Old /\ hd[n] = before.hd[b]
      BY <1>1, <2>1, <2>5, <3>1, CollectFacts
    <3>5. i \in 0 .. NF - 1 /\ i < before.hd[b].size
      <4>1. i \in 0 .. before.hd[b].size - 1 /\ NF \in Nat
        BY <2>6, <3>1, <3>4, Places DEF Indices
      <4>2. QED
        BY <3>4, <4>1
    <3>6. c \in Cell /\ s \in Cell /\ s[1] = b /\ s[2] = i
      BY <3>2, <3>3, <3>4, <3>5, Places
    <3>7. From(c, s)
      BY <3>1, <3>2, <3>5, <3>6 DEF From
    <3>8. Settled(c, s)
      BY <2>1, <3>6, <3>7
    <3>9. CASE before.hd[b].kind = "raw"
      <4>1. before.field[s] \in Bytes
        BY <2>2, <3>4, <3>5, <3>6, <3>9 DEF CollectInv, Sound
      <4>2. field[c] = before.field[s]
        BY <1>1, <2>1, <3>6, <3>8, <4>1, BytesStay
      <4>3. QED
        BY <3>1, <3>2, <3>3, <3>9, <4>2
    <3>10. CASE before.hd[b].kind # "raw"
      <4>1. field[c] = Image(before.field[s])
        BY <3>8 DEF Settled
      <4>2. QED
        BY <3>1, <3>2, <3>3, <3>10, <4>1
    <3>11. QED
      BY <3>9, <3>10
  <2>7. \A a, b \in Promoted : Copy(a) = Copy(b) => a = b
    BY <2>2 DEF CollectInv, CopiesMade
  <2>8. QED
    BY <2>3, <2>4, <2>5, <2>6, <2>7
<1>2. HeapInv => HeapPreserved
  BY <1>1 DEF HeapPreserved, Copy
<1>3. QED
  BY <1>2, HeapInvariant, PTL
=============================================================================

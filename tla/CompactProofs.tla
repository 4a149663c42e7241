----------------------------- MODULE CompactProofs -----------------------------
(***************************************************************************)
(* A compaction keeps what the program can see, for every layout of the    *)
(* chunks, every heap and every number of roots.                           *)
(*                                                                         *)
(* Nothing is said of a list while it is being followed.  Threaded says    *)
(* what every word is as a function of the heap before: a header holds the *)
(* greatest inverted word that led to the block, and each such word the    *)
(* next smaller one.  Renewed and Shifted do the same for the third and    *)
(* fourth pass, so that a step has to be right only for the words that it  *)
(* writes.  Placed describes compact_allocate without its history; with    *)
(* Replayed it shows that the fourth pass repeats the third, and that no   *)
(* block moves up.  ListInv is the free list while it is being built.      *)
(***************************************************************************)
EXTENDS Compact, InductionLemmas, FiniteSetTheorems

-----------------------------------------------------------------------------
(* Chunks                                                                  *)

Last == Len(Chunks)
End  == Limit(Last)

LEMMA ChunkTypes ==
  /\ Last \in Nat \ {0} /\ Last \in ChunkNo /\ 1 \in ChunkNo
  /\ \A i \in ChunkNo :
       /\ i \in 1 .. Last /\ i \in Nat
       /\ First(i) \in Nat \ {0} /\ Size(i) \in Nat /\ Slack \in Nat /\ Slack < Size(i)
       /\ Limit(i) \in Nat /\ Limit(i) = First(i) + Size(i) /\ First(i) < Limit(i)
<1>1. Chunks \in Seq([start : Nat \ {0}, size : Nat]) /\ Chunks # <<>>
  BY ChunksAssumption
<1>2. Last \in Nat \ {0}
  BY <1>1 DEF Last
<1>3. \A i \in ChunkNo : Chunks[i] \in [start : Nat \ {0}, size : Nat]
  <2> DEFINE S == [start : Nat \ {0}, size : Nat]
  <2>1. Chunks \in Seq(S)
    BY <1>1
  <2> HIDE DEF S
  <2>2. \A i \in 1 .. Len(Chunks) : Chunks[i] \in S
    BY <2>1
  <2>3. QED
    BY <2>2 DEF ChunkNo, S
<1>4. \A i \in ChunkNo : First(i) \in Nat \ {0} /\ Size(i) \in Nat
  BY <1>3 DEF First, Size
<1>5. Slack \in Nat /\ \A i \in ChunkNo : Size(i) > Slack
  BY ChunksAssumption, SizesAssumption
<1>6. QED
  BY <1>2, <1>4, <1>5 DEF ChunkNo, Last, Limit

\* The chunks lie one behind the other, with a gap.
LEMMA ChunkOrder ==
  \A i, j \in ChunkNo : i < j => Limit(i) < First(j)
<1> SUFFICES ASSUME NEW i \in ChunkNo PROVE \A j \in ChunkNo : i < j => Limit(i) < First(j)
  OBVIOUS
<1> DEFINE G == {n \in 0 .. Last : n \in ChunkNo /\ i < n => Limit(i) < First(n)}
<1>1. 0 \in G
  BY ChunkTypes
<1>2. ASSUME NEW n \in 0 .. Last, n < Last, n \in G PROVE n + 1 \in G
  <2>1. n + 1 \in 0 .. Last /\ n + 1 \in ChunkNo /\ i \in Nat
    BY <1>2, ChunkTypes DEF ChunkNo, Last
  <2>2. ASSUME i < n + 1 PROVE Limit(i) < First(n + 1)
    <3>1. n \in ChunkNo /\ n + 1 \in ChunkNo \ {1} /\ (n + 1) - 1 = n
      BY <2>1, <2>2, <1>2, ChunkTypes DEF ChunkNo, Last
    <3>2. Limit(n) < First(n + 1)
      BY <3>1, ChunksAssumption
    <3>3. CASE i = n
      BY <3>2, <3>3
    <3>4. CASE i # n
      <4>1. i < n
        BY <2>1, <2>2, <3>4, <3>1, ChunkTypes
      <4>2. Limit(i) < First(n)
        BY <4>1, <3>1, <1>2
      <4>3. QED
        BY <3>1, <3>2, <4>2, ChunkTypes
    <3>5. QED
      BY <3>3, <3>4
  <2>3. QED
    BY <2>1, <2>2
<1> HIDE DEF G
<1>3. \A n \in 0 .. Last : n \in G
  <2>1. \A n \in 0 .. Last : n < Last /\ n \in G => n + 1 \in G
    BY <1>2
  <2>2. Last \in Nat
    BY ChunkTypes
  <2>3. QED
    BY <1>1, <2>1, <2>2, CountUp
<1>4. ASSUME NEW j \in ChunkNo, i < j PROVE Limit(i) < First(j)
  <2>1. j \in 0 .. Last
    BY ChunkTypes
  <2>2. j \in G
    BY <1>3, <2>1
  <2>3. QED
    BY <2>2, <1>4 DEF G
<1>5. QED
  BY <1>4

\* A word lies in one chunk, below the end; a root below 0.
LEMMA WordTypes ==
  /\ \A c \in Words : c \in Nat \ {0} /\ c < End
                      /\ \E i \in ChunkNo : First(i) <= c /\ c < Limit(i)
  /\ \A i \in ChunkNo : \A c \in Int : First(i) <= c /\ c < Limit(i) => c \in Words
  /\ \A c \in Root : c \in Int /\ c < 0 /\ -Roots <= c
  /\ Roots \in Nat /\ End \in Nat \ {0}
  /\ Words \cap Root = {} /\ Cells = Words \cup Root
  /\ \A c \in Cells : c \in Int /\ -Roots <= c /\ c < End
<1>1. ASSUME NEW c \in Words PROVE c \in Nat \ {0} /\ c < End
                      /\ \E i \in ChunkNo : First(i) <= c /\ c < Limit(i)
  <2>1. PICK i \in ChunkNo : c \in First(i) .. Limit(i) - 1
    BY DEF Words
  <2>2. First(i) <= c /\ c < Limit(i) /\ c \in Nat \ {0}
    BY <2>1, ChunkTypes
  <2>3. Limit(i) <= End
    <3>1. CASE i = Last
      BY <3>1, ChunkTypes DEF End
    <3>2. CASE i # Last
      <4>1. i < Last
        BY <3>2, ChunkTypes
      <4>2. Limit(i) < First(Last)
        BY <4>1, ChunkTypes, ChunkOrder
      <4>3. QED
        BY <4>2, ChunkTypes DEF End
    <3>3. QED
      BY <3>1, <3>2
  <2>4. End \in Nat
    BY ChunkTypes DEF End
  <2>5. QED
    BY <2>2, <2>3, <2>4, ChunkTypes
<1>2. ASSUME NEW i \in ChunkNo, NEW c \in Int, First(i) <= c, c < Limit(i) PROVE c \in Words
  BY <1>2, ChunkTypes DEF Words
<1>3. Roots \in Nat
  BY SizesAssumption
<1>4. ASSUME NEW c \in Root PROVE c \in Int /\ c < 0 /\ -Roots <= c
  BY <1>3 DEF Root
<1>5. End \in Nat \ {0}
  BY ChunkTypes DEF End
<1>6. Words \cap Root = {}
  BY <1>1, <1>4
<1>7. Cells = Words \cup Root
  BY DEF Cells
<1>8. ASSUME NEW c \in Cells PROVE c \in Int /\ -Roots <= c /\ c < End
  BY <1>1, <1>3, <1>4, <1>5, <1>7
<1>9. QED
  BY <1>1, <1>2, <1>3, <1>4, <1>5, <1>6, <1>7, <1>8

\* Two chunks that have a place in common are the same.
LEMMA SameChunk ==
  ASSUME NEW i \in ChunkNo, NEW j \in ChunkNo, NEW c \in Int,
         First(i) <= c, c <= Limit(i), First(j) <= c, c <= Limit(j)
  PROVE  i = j
<1>1. ~(i < j)
  BY ChunkTypes, ChunkOrder
<1>2. ~(j < i)
  BY ChunkTypes, ChunkOrder
<1>3. QED
  BY <1>1, <1>2, ChunkTypes

LEMMA ChunkOfIs ==
  ASSUME NEW i \in ChunkNo, NEW c \in Int, First(i) <= c, c < Limit(i) PROVE ChunkOf(c) = i
<1>1. c \in First(i) .. Limit(i) - 1
  BY ChunkTypes
<1>2. ASSUME NEW j \in ChunkNo, c \in First(j) .. Limit(j) - 1 PROVE j = i
  <2>1. First(j) <= c /\ c <= Limit(j) /\ c <= Limit(i)
    BY <1>2, ChunkTypes
  <2>2. QED
    BY <2>1, SameChunk
<1>3. QED
  BY <1>1, <1>2 DEF ChunkOf

\* A place of an earlier chunk comes before one of a later one.
LEMMA ChunksApart ==
  ASSUME NEW i \in ChunkNo, NEW j \in ChunkNo, NEW c \in Int, NEW d \in Int,
         First(i) <= c, c <= Limit(i), First(j) <= d, d <= Limit(j), c < d
  PROVE  i <= j
<1>1. ~(j < i)
  BY ChunkTypes, ChunkOrder
<1>2. QED
  BY <1>1, ChunkTypes

-----------------------------------------------------------------------------
(* Headers                                                                 *)

\* The header at a leaves room for its block in chunk i, and where the next one is.
Fits(m, i, a) == a \in First(i) .. Limit(i) - 1 /\ m[a].kind = "hd" /\ m[a].wosize \in 0 .. Limit(i) - a - 1
NextHead(m, a) == a + m[a].wosize + 1

IsFrom(f, m, i) ==
  f = [a \in First(i) .. Limit(i) |->
         IF a = Limit(i) THEN {} ELSE {a} \cup (IF Fits(m, i, a) THEN f[NextHead(m, a)] ELSE {})]

\* The recursive function of HeadsOf exists.
LEMMA FromExists ==
  ASSUME NEW m, NEW i \in ChunkNo PROVE \E f : IsFrom(f, m, i) /\ HeadsOf(m, i) = f[First(i)]
<1> DEFINE U == First(i) .. Limit(i)
           ind == U \ {Limit(i)}
           next == [a \in ind |-> IF Fits(m, i, a) THEN NextHead(m, a) ELSE Limit(i)]
<1>1. /\ First(i) \in Nat /\ Limit(i) \in Nat /\ First(i) < Limit(i)
      /\ \A a \in U : a \in Int /\ (a # Limit(i) => a \in First(i) .. Limit(i) - 1)
  BY ChunkTypes
<1>2. ASSUME NEW a \in U, Fits(m, i, a) PROVE a # Limit(i) /\ NextHead(m, a) \in U
  BY <1>1, <1>2 DEF Fits, NextHead
<1>3. ind \in SUBSET U /\ next \in [ind -> U]
  <2>1. Limit(i) \in U
    BY <1>1
  <2> HIDE DEF U
  <2>2. \A a \in ind : next[a] \in U
    BY <1>2, <2>1
  <2>3. QED
    BY <2>2
<1>4. PICK f : Gathers(f, U, ind, next)
  <2> HIDE DEF U, ind, next
  <2>1. QED
    BY <1>3, GatherExists
<1>5. f[Limit(i)] = {}
  BY <1>1, <1>4 DEF Gathers
<1>6. f = [a \in U |-> IF a = Limit(i) THEN {} ELSE {a} \cup (IF Fits(m, i, a) THEN f[NextHead(m, a)] ELSE {})]
  <2>1. ASSUME NEW a \in U
        PROVE f[a] = IF a = Limit(i) THEN {} ELSE {a} \cup (IF Fits(m, i, a) THEN f[NextHead(m, a)] ELSE {})
    <3>1. f[a] = IF a \in ind THEN {a} \cup f[next[a]] ELSE {}
      <4> HIDE DEF U, ind, next
      <4>1. QED
        BY <1>4 DEF Gathers
    <3>2. CASE a = Limit(i)
      BY <3>1, <3>2
    <3>3. CASE a # Limit(i)
      <4>1. a \in ind
        BY <3>3
      <4>2. next[a] = IF Fits(m, i, a) THEN NextHead(m, a) ELSE Limit(i)
        BY <4>1
      <4> HIDE DEF U, ind, next
      <4>3. QED
        BY <3>1, <3>3, <4>1, <4>2, <1>5
    <3>4. QED
      BY <3>2, <3>3
  <2>2. f = [a \in U |-> f[a]]
    <3> HIDE DEF U, ind, next
    <3>1. QED
      BY <1>4 DEF Gathers
  <2> HIDE DEF U, ind, next
  <2>3. QED
    BY <2>1, <2>2
<1>7. IsFrom(f, m, i)
  BY <1>6 DEF IsFrom
<1> DEFINE g == CHOOSE h : IsFrom(h, m, i)
<1>8. IsFrom(g, m, i)
  <2> HIDE DEF U, ind, next
  <2>1. QED
    BY <1>7
<1>9. HeadsOf(m, i) = g[First(i)]
  <2>1. \A h : IsFrom(h, m, i) <=>
           h = [a \in First(i) .. Limit(i) |->
                  IF a = Limit(i) THEN {}
                  ELSE {a} \cup (IF m[a].kind = "hd" /\ m[a].wosize \in 0 .. Limit(i) - a - 1
                                 THEN h[a + m[a].wosize + 1] ELSE {})]
    <3>1. \A a \in First(i) .. Limit(i) : a # Limit(i) => a \in First(i) .. Limit(i) - 1
      BY <1>1
    <3>2. \A a \in First(i) .. Limit(i) : a # Limit(i) =>
             (Fits(m, i, a) <=> m[a].kind = "hd" /\ m[a].wosize \in 0 .. Limit(i) - a - 1)
      BY <3>1 DEF Fits
    <3>3. QED
      BY <3>2 DEF IsFrom, NextHead
  <2> DEFINE w == CHOOSE h :
                    h = [a \in First(i) .. Limit(i) |->
                           IF a = Limit(i) THEN {}
                           ELSE {a} \cup (IF m[a].kind = "hd" /\ m[a].wosize \in 0 .. Limit(i) - a - 1
                                          THEN h[a + m[a].wosize + 1] ELSE {})]
  <2>2. HeadsOf(m, i) = w[First(i)]
    BY DEF HeadsOf
  <2>3. g = w
    BY <2>1
  <2>4. QED
    BY ONLY <2>2, <2>3
<1>10. QED
  <2> HIDE DEF U, ind, next, g
  <2>1. QED
    BY <1>8, <1>9

LEMMA FromStep ==
  ASSUME NEW m, NEW i \in ChunkNo, NEW f, IsFrom(f, m, i), NEW a \in First(i) .. Limit(i)
  PROVE  f[a] = IF a = Limit(i) THEN {} ELSE {a} \cup (IF Fits(m, i, a) THEN f[NextHead(m, a)] ELSE {})
  BY DEF IsFrom

\* The headers of a chunk that is filled with blocks lie one behind the other.
LEMMA HeadsChain ==
  ASSUME NEW m, NEW i \in ChunkNo, \A a \in HeadsOf(m, i) : m[a].kind = "hd" /\ m[a].wosize \in 0 .. Limit(i) - a - 1
  PROVE  /\ First(i) \in HeadsOf(m, i)
         /\ \A a \in HeadsOf(m, i) :
              /\ Fits(m, i, a)
              /\ NextHead(m, a) \in HeadsOf(m, i) \/ NextHead(m, a) = Limit(i)
              /\ \A b \in HeadsOf(m, i) : a < b => NextHead(m, a) <= b
<1>1. PICK f : IsFrom(f, m, i) /\ HeadsOf(m, i) = f[First(i)]
  BY FromExists
<1> DEFINE U == First(i) .. Limit(i)
           Good(a) == /\ f[a] \subseteq a .. Limit(i) - 1
                      /\ a # Limit(i) => a \in f[a]
                      /\ \A x \in f[a] : Fits(m, i, x) =>
                           /\ NextHead(m, x) \in f[a] \/ NextHead(m, x) = Limit(i)
                           /\ \A y \in f[a] : x < y => NextHead(m, x) <= y
           Bad == {a \in U : ~Good(a)}
<1>2. First(i) \in Nat /\ Limit(i) \in Nat /\ First(i) < Limit(i)
  BY ChunkTypes
<1>3. ASSUME Bad # {} PROVE FALSE
  <2>1. Bad \in SUBSET Int /\ \A x \in Bad : x <= Limit(i)
    BY <1>2
  <2>2. PICK a \in Bad : \A b \in Bad : a >= b
    <3> HIDE DEF Bad
    <3>1. Limit(i) \in Int /\ Bad # {}
      BY <1>2, <1>3
    <3>2. QED
      BY <3>1, <2>1, LargestInteger
  <2>3. a \in U /\ ~Good(a) /\ a \in Int /\ First(i) <= a /\ a <= Limit(i)
    BY <2>2, <1>2
  <2>4. f[a] = IF a = Limit(i) THEN {} ELSE {a} \cup (IF Fits(m, i, a) THEN f[NextHead(m, a)] ELSE {})
    BY <2>3, <1>1, FromStep
  <2>5. CASE a = Limit(i)
    BY <2>3, <2>4, <2>5
  <2>6. CASE a # Limit(i) /\ ~Fits(m, i, a)
    <3>1. f[a] = {a}
      BY <2>4, <2>6
    <3>2. Good(a)
      BY <3>1, <2>3, <2>6, <1>2
    <3>3. QED
      BY <3>2, <2>3
  <2>7. CASE a # Limit(i) /\ Fits(m, i, a)
    <3> DEFINE n == NextHead(m, a)
    <3>1. n \in U /\ a < n /\ n \in Int
      BY <2>3, <2>7, <1>2 DEF Fits, NextHead
    <3>2. Good(n)
      BY <3>1, <2>2, <2>3
    <3>3. f[a] = {a} \cup f[n]
      BY <2>4, <2>7
    <3> HIDE DEF n
    <3>4. f[n] \subseteq n .. Limit(i) - 1 /\ (n # Limit(i) => n \in f[n])
      BY <3>2
    <3>5. \A x \in f[n] : x \in Int /\ n <= x /\ x < Limit(i)
      BY <3>4, <3>1, <1>2
    <3>6. f[a] \subseteq a .. Limit(i) - 1 /\ a \in f[a]
      BY <3>1, <3>3, <3>5, <2>3, <2>7, <1>2
    <3>7. ASSUME NEW x \in f[a], Fits(m, i, x)
          PROVE  /\ NextHead(m, x) \in f[a] \/ NextHead(m, x) = Limit(i)
                 /\ \A y \in f[a] : x < y => NextHead(m, x) <= y
      <4>1. CASE x = a
        <5>1. NextHead(m, x) = n
          BY <4>1 DEF n
        <5>2. \A y \in f[a] : x < y => y \in f[n]
          BY <3>3, <4>1, <2>3
        <5>3. QED
          BY <5>1, <5>2, <3>3, <3>4, <3>5
      <4>2. CASE x # a
        <5>1. x \in f[n]
          BY <4>2, <3>3
        <5>2. /\ NextHead(m, x) \in f[n] \/ NextHead(m, x) = Limit(i)
              /\ \A y \in f[n] : x < y => NextHead(m, x) <= y
          BY <5>1, <3>2, <3>7
        <5>3. ~(x < a)
          BY <5>1, <3>5, <3>1, <2>3
        <5>4. QED
          BY <5>2, <5>3, <3>3
      <4>3. QED
        BY <4>1, <4>2
    <3>8. QED
      BY <3>6, <3>7, <2>3
  <2>8. QED
    BY <2>5, <2>6, <2>7
<1>4. First(i) \in U /\ First(i) # Limit(i)
  BY <1>2
<1>5. Good(First(i))
  <2>1. First(i) \notin Bad
    <3> HIDE DEF Bad
    <3>1. QED
      BY <1>3
  <2>2. QED
    BY <1>4, <2>1
<1>6. \A a \in HeadsOf(m, i) : Fits(m, i, a)
  BY <1>1, <1>5, <1>2 DEF Fits
<1>7. QED
  BY <1>1, <1>4, <1>5, <1>6

\* A set of headers one behind the other is the one that HeadsOf finds.
LEMMA HeadsAre ==
  ASSUME NEW m, NEW i \in ChunkNo, NEW S, First(i) \in S,
         \A a \in S : /\ Fits(m, i, a)
                      /\ NextHead(m, a) \in S \/ NextHead(m, a) = Limit(i)
                      /\ \A b \in S : a < b => NextHead(m, a) <= b
  PROVE  HeadsOf(m, i) = S
<1>1. PICK f : IsFrom(f, m, i) /\ HeadsOf(m, i) = f[First(i)]
  BY FromExists
<1>2. First(i) \in Nat /\ Limit(i) \in Nat /\ First(i) < Limit(i)
  BY ChunkTypes
<1>3. \A a \in S : a \in Int /\ First(i) <= a /\ a < Limit(i) /\ NextHead(m, a) \in Int /\ a < NextHead(m, a)
  BY <1>2 DEF Fits, NextHead
<1> DEFINE Bad == {a \in S : f[a] # {y \in S : a <= y}}
<1>4. ASSUME Bad # {} PROVE FALSE
  <2>1. Bad \in SUBSET Int /\ \A x \in Bad : x <= Limit(i)
    BY <1>2, <1>3
  <2>2. PICK a \in Bad : \A b \in Bad : a >= b
    <3> HIDE DEF Bad
    <3>1. Limit(i) \in Int /\ Bad # {}
      BY <1>2, <1>4
    <3>2. QED
      BY <3>1, <2>1, LargestInteger
  <2>3. a \in S /\ a \in First(i) .. Limit(i) /\ a # Limit(i) /\ Fits(m, i, a)
    BY <2>2, <1>2, <1>3
  <2> DEFINE n == NextHead(m, a)
  <2>4. f[a] = {a} \cup f[n]
    BY <2>3, <1>1, FromStep
  <2>5. n \in Int /\ a < n /\ (n \in S \/ n = Limit(i)) /\ \A b \in S : a < b => n <= b
    BY <2>3, <1>3
  <2>6. f[n] = {y \in S : n <= y}
    <3>1. CASE n \in S
      <4>1. n \notin Bad
        BY <2>2, <2>3, <2>5, <1>3
      <4>2. QED
        BY <3>1, <4>1
    <3>2. CASE n = Limit(i)
      <4>1. n \in First(i) .. Limit(i)
        BY <1>2, <3>2
      <4>2. f[n] = {}
        BY <4>1, <3>2, <1>1, FromStep
      <4>3. QED
        BY <4>2, <3>2, <1>2, <1>3
    <3>3. QED
      BY <3>1, <3>2, <2>5
  <2>7. {y \in S : a <= y} = {a} \cup {y \in S : n <= y}
    <3> HIDE DEF n
    <3>1. \A y \in S : a <= y <=> y = a \/ n <= y
      <4>1. ASSUME NEW y \in S PROVE a <= y <=> y = a \/ n <= y
        <5>1. y \in Int /\ a \in Int
          BY <2>3, <1>3
        <5>2. QED
          BY <5>1, <2>5
      <4>2. QED
        BY <4>1
    <3>2. QED
      BY <3>1, <2>3
  <2>8. QED
    BY <2>2, <2>4, <2>6, <2>7
<1>5. First(i) \notin Bad
  <2> HIDE DEF Bad
  <2>1. QED
    BY <1>4
<1>6. {y \in S : First(i) <= y} = S
  BY <1>3
<1>7. QED
  BY <1>1, <1>5, <1>6

\* The words of the block at b, with its header.
Whsize(B, b) == B[b].wosize + 1

\* The blocks of a heap that is well formed do not overlap.
LEMMA BlockFacts ==
  ASSUME NEW B, WellFormed(B)
  PROVE  /\ B = [c \in Cells |-> B[c]]
         /\ \A i \in ChunkNo : First(i) \in Heads(B)
         /\ \A b \in Heads(B) :
              /\ b \in Words /\ b \in Cells /\ b \in Nat \ {0}
              /\ IsHead(B[b]) /\ B[b].wosize \in Nat /\ Whsize(B, b) \in Nat \ {0}
              /\ \E i \in ChunkNo :
                   /\ First(i) <= b /\ b < Limit(i) /\ b + Whsize(B, b) <= Limit(i)
                   /\ b + Whsize(B, b) \in Heads(B) \/ b + Whsize(B, b) = Limit(i)
              /\ \A c \in Heads(B) : b < c => b + Whsize(B, b) <= c
<1>1. B = [c \in Cells |-> B[c]]
  BY DEF WellFormed
<1>2. \A i \in ChunkNo : \A b \in HeadsOf(B, i) :
        /\ IsHead(B[b]) /\ B[b].kind = "hd" /\ B[b].wosize \in 0 .. Limit(i) - b - 1
  <2>1. \A w : IsHead(w) => w.kind = "hd"
    BY DEF IsHead, Hd
  <2>2. QED
    BY <2>1 DEF WellFormed
<1>3. \A i \in ChunkNo :
         /\ First(i) \in HeadsOf(B, i)
         /\ \A a \in HeadsOf(B, i) :
              /\ Fits(B, i, a)
              /\ NextHead(B, a) \in HeadsOf(B, i) \/ NextHead(B, a) = Limit(i)
              /\ \A b \in HeadsOf(B, i) : a < b => NextHead(B, a) <= b
  BY <1>2, HeadsChain
<1>4. \A i \in ChunkNo : \A b \in HeadsOf(B, i) :
        /\ b \in Nat \ {0} /\ First(i) <= b /\ b < Limit(i) /\ b \in Words /\ B[b].wosize \in Nat
        /\ Whsize(B, b) \in Nat \ {0} /\ b + Whsize(B, b) <= Limit(i) /\ b + Whsize(B, b) = NextHead(B, b)
  <2>1. ASSUME NEW i \in ChunkNo, NEW b \in HeadsOf(B, i)
        PROVE  /\ b \in Nat \ {0} /\ First(i) <= b /\ b < Limit(i) /\ b \in Words /\ B[b].wosize \in Nat
               /\ Whsize(B, b) \in Nat \ {0} /\ b + Whsize(B, b) <= Limit(i) /\ b + Whsize(B, b) = NextHead(B, b)
    <3>1. Fits(B, i, b)
      BY <1>3
    <3>2. First(i) \in Nat \ {0} /\ Limit(i) \in Nat
      BY ChunkTypes
    <3>3. b \in Nat \ {0} /\ First(i) <= b /\ b < Limit(i) /\ B[b].wosize \in Nat /\ b + B[b].wosize + 1 <= Limit(i)
      BY <3>1, <3>2 DEF Fits
    <3>4. b \in Words
      BY <3>3, WordTypes
    <3>5. QED
      BY <3>3, <3>4 DEF Whsize, NextHead
  <2>2. QED
    BY <2>1
<1>5. \A b \in Heads(B) : \E i \in ChunkNo : b \in HeadsOf(B, i)
  BY DEF Heads
<1>6. \A i \in ChunkNo : HeadsOf(B, i) \subseteq Heads(B)
  BY DEF Heads
<1>7. ASSUME NEW b \in Heads(B), NEW c \in Heads(B), b < c PROVE b + Whsize(B, b) <= c
  <2>1. PICK i \in ChunkNo : b \in HeadsOf(B, i)
    BY <1>5
  <2>2. PICK j \in ChunkNo : c \in HeadsOf(B, j)
    BY <1>5
  <2>3. /\ b \in Int /\ First(i) <= b /\ b <= Limit(i) /\ b + Whsize(B, b) <= Limit(i) /\ b + Whsize(B, b) \in Int
        /\ c \in Int /\ First(j) <= c /\ c <= Limit(j)
    BY <1>4, <2>1, <2>2, ChunkTypes
  <2>4. i <= j
    BY <2>3, <1>7, ChunksApart
  <2>5. CASE i = j
    BY <2>5, <2>1, <2>2, <1>3, <1>4, <1>7
  <2>6. CASE i # j
    <3>1. i < j
      BY <2>4, <2>6, ChunkTypes
    <3>2. Limit(i) < First(j)
      BY <3>1, ChunkOrder
    <3>3. QED
      BY <3>2, <2>3, ChunkTypes
  <2>7. QED
    BY <2>5, <2>6
<1>8. ASSUME NEW b \in Heads(B)
      PROVE  /\ b \in Words /\ b \in Cells /\ b \in Nat \ {0}
             /\ IsHead(B[b]) /\ B[b].wosize \in Nat /\ Whsize(B, b) \in Nat \ {0}
             /\ \E i \in ChunkNo :
                  /\ First(i) <= b /\ b < Limit(i) /\ b + Whsize(B, b) <= Limit(i)
                  /\ b + Whsize(B, b) \in Heads(B) \/ b + Whsize(B, b) = Limit(i)
  <2>1. PICK i \in ChunkNo : b \in HeadsOf(B, i)
    BY <1>5
  <2>2. NextHead(B, b) \in Heads(B) \/ NextHead(B, b) = Limit(i)
    BY <2>1, <1>3, <1>6
  <2>3. b \in Words => b \in Cells
    BY WordTypes
  <2>4. QED
    BY <1>2, <1>4, <2>1, <2>2, <2>3
<1>9. \A i \in ChunkNo : First(i) \in Heads(B)
  BY <1>3, <1>6
<1>10. QED
  BY <1>1, <1>7, <1>8, <1>9

\* The place of the block behind the n words at b; End behind the last one.
Beyond(b, n) ==
  LET i == ChunkOf(b)
  IN IF b + n < Limit(i) THEN b + n ELSE IF i < Last THEN First(i + 1) ELSE End

LEMMA BeyondFacts ==
  ASSUME NEW B, WellFormed(B), NEW b \in Heads(B)
  PROVE  LET q == Beyond(b, Whsize(B, b))
         IN /\ q \in Nat \ {0} /\ b < q /\ b + Whsize(B, b) <= q /\ q <= End
            /\ q \in Heads(B) \/ q = End
            /\ \A c \in Cells : c < q <=> c < b + Whsize(B, b)
            /\ \A h \in Heads(B) : h < q <=> h < b \/ h = b
<1> DEFINE n == Whsize(B, b)
           q == Beyond(b, n)
<1>1. PICK i \in ChunkNo : /\ First(i) <= b /\ b < Limit(i) /\ b + n <= Limit(i)
                           /\ b + n \in Heads(B) \/ b + n = Limit(i)
  BY BlockFacts
<1>2. b \in Nat \ {0} /\ n \in Nat \ {0}
  BY BlockFacts
<1> HIDE DEF n
<1>3. ChunkOf(b) = i
  BY <1>1, <1>2, ChunkOfIs
<1>4. q = IF b + n < Limit(i) THEN b + n ELSE IF i < Last THEN First(i + 1) ELSE End
  BY <1>3 DEF Beyond
<1>5. /\ q \in Nat \ {0} /\ b < q /\ b + n <= q /\ q <= End
      /\ q \in Heads(B) \/ q = End
      /\ \A c \in Words : c < q => c < b + n
  <2>1. CASE b + n < Limit(i)
    <3>1. q = b + n /\ q \in Heads(B)
      BY <2>1, <1>4, <1>1, <1>2, ChunkTypes
    <3>2. q \in Words
      BY <3>1, BlockFacts
    <3>3. QED
      BY <3>1, <3>2, <1>2, WordTypes
  <2>2. CASE ~(b + n < Limit(i)) /\ i < Last
    <3>1. q = First(i + 1) /\ b + n = Limit(i) /\ i + 1 \in ChunkNo /\ i < i + 1
      <4>1. i \in Nat /\ i + 1 \in ChunkNo /\ i < i + 1
        BY <2>2, ChunkTypes DEF ChunkNo, Last
      <4>2. QED
        BY <4>1, <2>2, <1>4, <1>1, <1>2, ChunkTypes
    <3>2. q \in Heads(B) /\ Limit(i) < q
      BY <3>1, BlockFacts, ChunkOrder
    <3>3. q \in Words
      BY <3>2, BlockFacts
    <3>4. ASSUME NEW c \in Words, c < q PROVE c < b + n
      <4>1. PICK j \in ChunkNo : First(j) <= c /\ c < Limit(j)
        BY WordTypes
      <4>2. c \in Nat
        BY WordTypes
      <4>3. CASE j <= i
        <5>1. j = i \/ (j < i /\ Limit(j) < First(i))
          BY <4>3, ChunkTypes, ChunkOrder
        <5>2. QED
          BY <5>1, <4>1, <4>2, <3>1, <1>1, <1>2, ChunkTypes
      <4>4. CASE ~(j <= i)
        <5>1. j = i + 1 \/ (i + 1 < j /\ Limit(i + 1) < First(j))
          BY <4>4, <3>1, ChunkTypes, ChunkOrder
        <5>2. First(i + 1) <= First(j)
          BY <5>1, <3>1, ChunkTypes
        <5>3. QED
          BY <5>2, <4>1, <4>2, <3>1, <3>4, ChunkTypes
      <4>5. QED
        BY <4>3, <4>4
    <3>5. q \in Nat \ {0} /\ q < End
      BY <3>3, WordTypes
    <3>6. b < q /\ b + n <= q
      BY <3>1, <3>2, <3>5, <1>2, ChunkTypes
    <3>7. QED
      BY <3>2, <3>4, <3>5, <3>6, WordTypes
  <2>3. CASE ~(b + n < Limit(i)) /\ ~(i < Last)
    <3>1. i = Last
      BY <2>3, ChunkTypes
    <3>2. q = End /\ b + n = End
      BY <2>3, <3>1, <1>4, <1>1, <1>2, ChunkTypes DEF End
    <3>3. QED
      BY <3>2, <1>2, WordTypes
  <2>4. QED
    BY <2>1, <2>2, <2>3
<1> HIDE DEF q
<1>6. \A c \in Cells : c < q <=> c < b + n
  <2>1. ASSUME NEW c \in Cells PROVE c < q <=> c < b + n
    <3>1. c \in Int /\ (c \in Words \/ c < 0)
      BY WordTypes
    <3>2. c < 0 => c < q /\ c < b + n
      BY <3>1, <1>2, <1>5
    <3>3. c < b + n => c < q
      BY <3>1, <1>2, <1>5
    <3>4. QED
      BY <3>1, <3>2, <3>3, <1>5
  <2>2. QED
    BY <2>1
<1>7. \A h \in Heads(B) : h < q <=> h < b \/ h = b
  <2>1. ASSUME NEW h \in Heads(B) PROVE h < q <=> h < b \/ h = b
    <3>1. h \in Cells /\ h \in Nat /\ (b < h => b + n <= h)
      BY BlockFacts DEF n
    <3>2. h < q <=> h < b + n
      BY <3>1, <1>6
    <3>3. QED
      BY <3>1, <3>2, <1>2
  <2>2. QED
    BY <2>1
<1>8. QED
  BY <1>5, <1>6, <1>7 DEF q, n

\* What is scanned are the roots and the fields of scanned blocks, no headers.
LEMMA ScannedFacts ==
  ASSUME NEW B, WellFormed(B)
  PROVE  /\ Root \subseteq Scanned(B)
         /\ Live(B) \subseteq Heads(B)
         /\ \A c \in Scanned(B) :
              /\ c \in Cells /\ c \in Int /\ c \notin Heads(B)
              /\ B[c].kind = "ptr" =>
                   \/ \E b \in Live(B) : Leads(B, c, b)
                   \/ \A i \in ChunkNo : B[c].a \notin First(i) .. Limit(i)
         /\ \A b \in Heads(B) : \A c \in Int : b < c /\ c < b + Whsize(B, b) =>
              (c \in Scanned(B) <=> b \in Live(B) /\ B[b].tag = "scan")
         /\ \A b \in Heads(B) : \A c \in Int : b < c /\ c < b + Whsize(B, b) => c \in Words /\ c \notin Heads(B)
<1>1. Root \subseteq Scanned(B)
  BY DEF Scanned
<1>2. Live(B) \subseteq Heads(B)
  BY DEF Live
<1>3. \A b \in Heads(B) : Fields(B, b) = b + 1 .. b + Whsize(B, b) - 1
  <2>1. ASSUME NEW b \in Heads(B) PROVE Fields(B, b) = b + 1 .. b + Whsize(B, b) - 1
    <3>1. b \in Nat /\ B[b].wosize \in Nat
      BY BlockFacts
    <3>2. b + (B[b].wosize + 1) - 1 = b + B[b].wosize
      BY <3>1
    <3>3. QED
      BY <3>2 DEF Fields, Whsize
  <2>2. QED
    BY <2>1
<1>4. \A b \in Heads(B) : \A c : c \in Fields(B, b) <=> c \in Int /\ b < c /\ c < b + Whsize(B, b)
  <2>1. ASSUME NEW b \in Heads(B), NEW c PROVE c \in Fields(B, b) <=> c \in Int /\ b < c /\ c < b + Whsize(B, b)
    <3>1. b \in Nat /\ Whsize(B, b) \in Nat
      BY BlockFacts
    <3>2. QED
      BY <3>1, <1>3
  <2>2. QED
    BY <2>1
<1>5. ASSUME NEW b \in Heads(B), NEW c \in Int, b < c, c < b + Whsize(B, b)
      PROVE  c \in Words /\ c \notin Heads(B)
  <2>1. PICK i \in ChunkNo : First(i) <= b /\ b < Limit(i) /\ b + Whsize(B, b) <= Limit(i)
    BY BlockFacts
  <2>2. b \in Nat /\ Whsize(B, b) \in Nat
    BY BlockFacts
  <2>3. First(i) <= c /\ c < Limit(i)
    BY <2>1, <2>2, <1>5, ChunkTypes
  <2>4. c \in Words
    BY <2>3, WordTypes
  <2>5. ASSUME c \in Heads(B) PROVE FALSE
    <3>1. b + Whsize(B, b) <= c
      BY <2>5, <1>5, BlockFacts
    <3>2. QED
      BY <3>1, <2>2, <1>5
  <2>6. QED
    BY <2>4, <2>5
<1>6. ASSUME NEW c \in Scanned(B), c \notin Root
      PROVE  \E b \in Live(B) : B[b].tag = "scan" /\ c \in Fields(B, b)
  BY <1>6 DEF Scanned
<1>7. ASSUME NEW b \in Heads(B), NEW c \in Int, b < c, c < b + Whsize(B, b)
      PROVE  c \in Scanned(B) <=> b \in Live(B) /\ B[b].tag = "scan"
  <2>1. ASSUME b \in Live(B), B[b].tag = "scan" PROVE c \in Scanned(B)
    <3>1. c \in Fields(B, b)
      BY <1>4, <1>7
    <3>2. QED
      BY <3>1, <2>1 DEF Scanned
  <2>2. ASSUME c \in Scanned(B) PROVE b \in Live(B) /\ B[b].tag = "scan"
    <3>1. c \notin Root
      BY <1>5, <1>7, WordTypes
    <3>2. PICK d \in Live(B) : B[d].tag = "scan" /\ c \in Fields(B, d)
      BY <2>2, <3>1, <1>6
    <3>3. d \in Heads(B) /\ d < c /\ c < d + Whsize(B, d)
      BY <3>2, <1>2, <1>4
    <3>4. d = b
      <4>1. b \in Nat /\ d \in Nat /\ Whsize(B, b) \in Nat /\ Whsize(B, d) \in Nat
        BY <3>3, BlockFacts
      <4>2. ~(d < b)
        <5>1. d < b => d + Whsize(B, d) <= b
          BY <3>3, BlockFacts
        <5>2. QED
          BY <5>1, <4>1, <3>3, <1>7
      <4>3. ~(b < d)
        <5>1. b < d => b + Whsize(B, b) <= d
          BY <3>3, BlockFacts
        <5>2. QED
          BY <5>1, <4>1, <3>3, <1>7
      <4>4. QED
        BY <4>1, <4>2, <4>3
    <3>5. QED
      BY <3>2, <3>4
  <2>3. QED
    BY <2>1, <2>2
<1>8. ASSUME NEW c \in Scanned(B) PROVE c \in Cells /\ c \in Int /\ c \notin Heads(B)
  <2>1. CASE c \in Root
    <3>1. c \in Int /\ c \in Cells /\ c \notin Words
      BY <2>1, WordTypes
    <3>2. QED
      BY <3>1, BlockFacts
  <2>2. CASE c \notin Root
    <3>1. PICK d \in Live(B) : B[d].tag = "scan" /\ c \in Fields(B, d)
      BY <2>2, <1>6
    <3>2. d \in Heads(B) /\ c \in Int /\ d < c /\ c < d + Whsize(B, d)
      BY <3>1, <1>2, <1>4
    <3>3. c \in Words /\ c \notin Heads(B)
      BY <3>2, <1>5
    <3>4. QED
      BY <3>2, <3>3, WordTypes
  <2>3. QED
    BY <2>1, <2>2
<1>9. \A c \in Scanned(B) : B[c].kind = "ptr" =>
        \/ \E b \in Live(B) : Leads(B, c, b)
        \/ \A i \in ChunkNo : B[c].a \notin First(i) .. Limit(i)
  BY DEF WellFormed
<1>10. QED
  BY <1>1, <1>2, <1>5, <1>7, <1>8, <1>9

\* A word leads to one block, and to a block in use.
LEMMA LeadsToOne ==
  ASSUME NEW B, WellFormed(B), NEW c \in Scanned(B), NEW b \in Heads(B), Leads(B, c, b)
  PROVE  /\ b \in Live(B) /\ B[c].kind = "ptr" /\ B[c].a = b + 1 /\ b + 1 \in Words
         /\ \A d \in Heads(B) : Leads(B, c, d) => d = b
<1>1. B[c].kind = "ptr" /\ B[c].a = b + 1
  BY DEF Leads, Ptr
<1>2. b \in Nat /\ Whsize(B, b) \in Nat \ {0}
  BY BlockFacts
<1>3. ASSUME NEW d \in Heads(B), Leads(B, c, d) PROVE d = b
  <2>1. B[c].a = d + 1 /\ d \in Nat
    BY <1>3, BlockFacts DEF Leads, Ptr
  <2>2. QED
    BY <2>1, <1>1, <1>2
<1>4. b \in Live(B)
  <2>1. PICK i \in ChunkNo : First(i) <= b /\ b < Limit(i) /\ b + Whsize(B, b) <= Limit(i)
    BY BlockFacts
  <2>2. B[c].a \in First(i) .. Limit(i)
    BY <2>1, <1>1, <1>2, ChunkTypes
  <2>3. PICK d \in Live(B) : Leads(B, c, d)
    BY <2>2, <1>1, ScannedFacts
  <2>4. d = b
    BY <2>3, <1>3, ScannedFacts
  <2>5. QED
    BY <2>4
<1>5. b + 1 \in Words
  <2>1. B[b].wosize > 0 /\ B[b].wosize \in Nat
    BY <1>4, BlockFacts DEF Live
  <2>2. b < b + 1 /\ b + 1 < b + Whsize(B, b) /\ b + 1 \in Int
    BY <2>1, <1>2 DEF Whsize
  <2>3. QED
    BY <2>2, ScannedFacts
<1>6. QED
  BY <1>1, <1>3, <1>4, <1>5

-----------------------------------------------------------------------------
(* Reversed pointers                                                       *)

\* The words below x that lead to b.
Leading(B, b, x) == {d \in Scanned(B) : Leads(B, d, b) /\ d < x}

Encoded(B, b) == Ehd(B[b].wosize, EncodedTag(B[b]))

\* What the header of b, or a word that leads to b, holds once the words below x are reversed:
\* the last of these, or the encoded header.
Chain(B, b, x) == IF Leading(B, b, x) = {} THEN Encoded(B, b) ELSE Ptr(Max(Leading(B, b, x)))

\* The list of b in the memory m.
Hung(B, m, b, x) == m[b] = Chain(B, b, x) /\ \A d \in Leading(B, b, x) : m[d] = Chain(B, b, d)

\* The memory m when the words below x are reversed.
Threaded(B, m, x) ==
  /\ m = [c \in Cells |-> m[c]]
  /\ \A b \in Heads(B) : Hung(B, m, b, x)
  /\ \A c \in Cells \ Heads(B) : (\A b \in Heads(B) : c \notin Leading(B, b, x)) => m[c] = B[c]

LEMMA Greatest ==
  ASSUME NEW B, WellFormed(B), NEW b \in Heads(B), NEW x \in Int, Leading(B, b, x) # {}
  PROVE  Max(Leading(B, b, x)) \in Leading(B, b, x) /\ \A d \in Leading(B, b, x) : Max(Leading(B, b, x)) >= d
<1> DEFINE S == Leading(B, b, x)
<1>1. S \in SUBSET Int /\ S # {} /\ \A d \in S : d <= x
  BY ScannedFacts DEF Leading
<1> HIDE DEF S
<1>2. \E d \in S : \A e \in S : d >= e
  BY <1>1, LargestInteger
<1>3. Max(S) \in S /\ \A d \in S : Max(S) >= d
  BY <1>2 DEF Max
<1>4. QED
  BY <1>3 DEF S

LEMMA LeadingTypes ==
  ASSUME NEW B, WellFormed(B), NEW b \in Heads(B), NEW x \in Int, NEW d \in Leading(B, b, x)
  PROVE  /\ d \in Int /\ d \in Cells /\ d \in Scanned(B) /\ d \notin Heads(B) /\ d < x /\ -Roots <= d
         /\ Leads(B, d, b)
  BY ScannedFacts, WordTypes DEF Leading

\* Words that are not scanned are passed over.
LEMMA ThreadSkip ==
  ASSUME NEW B, WellFormed(B), NEW m, NEW x \in Int, NEW y \in Int, Threaded(B, m, x),
         \A c \in Scanned(B) : c < x <=> c < y
  PROVE  Threaded(B, m, y)
<1>1. \A b \in Heads(B) : Leading(B, b, x) = Leading(B, b, y)
  BY DEF Leading
<1>2. QED
  BY <1>1 DEF Threaded, Hung, Chain

\* One more word is reversed.
LEMMA ThreadStep ==
  ASSUME NEW B, WellFormed(B), NEW m, NEW c \in Scanned(B), Threaded(B, m, c)
  PROVE  Threaded(B, invert_pointer_at(m, c), c + 1)
<1>1. c \in Cells /\ c \in Int /\ c \notin Heads(B)
  BY ScannedFacts
<1>2. m[c] = B[c]
  <2>1. \A b \in Heads(B) : c \notin Leading(B, b, c)
    BY <1>1 DEF Leading
  <2>2. QED
    BY <2>1, <1>1 DEF Threaded
<1>3. \A e \in Scanned(B) : e < c + 1 <=> e < c \/ e = c
  <2>1. \A e \in Scanned(B) : e \in Int
    BY ScannedFacts
  <2>2. QED
    BY <2>1, <1>1
<1>4. CASE \E b \in Heads(B) : Leads(B, c, b)
  <2>1. PICK b \in Heads(B) : Leads(B, c, b)
    BY <1>4
  <2>2. B[c].kind = "ptr" /\ B[c].a = b + 1 /\ b + 1 \in Words /\ \A h \in Heads(B) : Leads(B, c, h) => h = b
    BY <2>1, LeadsToOne
  <2>3. b \in Nat /\ b \in Cells /\ (b + 1) - 1 = b /\ b # c
    BY <1>1, BlockFacts
  <2> DEFINE k == invert_pointer_at(m, c)
  <2>4. k = [m EXCEPT ![c] = m[b], ![b] = Ptr(c)]
    BY <2>2, <2>3, <1>2 DEF invert_pointer_at
  <2>5. /\ k = [e \in Cells |-> k[e]] /\ k[c] = m[b] /\ k[b] = Ptr(c)
        /\ \A e \in Cells : e # c /\ e # b => k[e] = m[e]
    <3>1. m = [e \in Cells |-> m[e]]
      BY DEF Threaded
    <3>2. QED
      BY <2>3, <2>4, <3>1, <1>1
  <2> HIDE DEF k
  <2>6. Leading(B, b, c + 1) = Leading(B, b, c) \cup {c} /\ c \notin Leading(B, b, c)
    <3>1. \A e \in Scanned(B) : Leads(B, e, b) /\ e < c + 1 <=> (Leads(B, e, b) /\ e < c) \/ e = c
      BY <1>3, <2>1
    <3>2. ~(c < c)
      BY <1>1
    <3>3. QED
      BY <3>1, <3>2 DEF Leading
  <2>7. \A h \in Heads(B) : h # b => Leading(B, h, c + 1) = Leading(B, h, c)
    BY <1>1, <1>3, <2>2 DEF Leading
  <2>8. \A h \in Heads(B) : Hung(B, m, h, c)
    BY DEF Threaded
  <2>9. \A h \in Heads(B) : \A d \in Leading(B, h, c) : d \in Cells /\ d # c /\ d \notin Heads(B)
    BY <1>1, LeadingTypes
  <2>10. Chain(B, b, c + 1) = Ptr(c)
    <3>1. Leading(B, b, c + 1) # {} /\ c \in Leading(B, b, c + 1) /\ c + 1 \in Int
      BY <2>6, <1>1
    <3>2. Max(Leading(B, b, c + 1)) \in Leading(B, b, c + 1) /\ Max(Leading(B, b, c + 1)) >= c
      BY <3>1, Greatest
    <3>3. Max(Leading(B, b, c + 1)) \in Int /\ Max(Leading(B, b, c + 1)) < c + 1
      BY <3>1, <3>2, LeadingTypes
    <3>4. Max(Leading(B, b, c + 1)) = c
      BY <3>2, <3>3, <1>1
    <3>5. QED
      BY <3>1, <3>4 DEF Chain
  <2>11. Hung(B, k, b, c + 1)
    <3>1. k[c] = Chain(B, b, c)
      BY <2>5, <2>8 DEF Hung
    <3>2. ASSUME NEW d \in Leading(B, b, c) PROVE k[d] = Chain(B, b, d)
      <4>1. m[d] = Chain(B, b, d)
        BY <2>8 DEF Hung
      <4>2. d \in Cells /\ d # c /\ d # b
        BY <2>9
      <4>3. QED
        BY <4>1, <4>2, <2>5
    <3>3. QED
      BY <2>5, <2>6, <2>10, <3>1, <3>2 DEF Hung
  <2>12. ASSUME NEW h \in Heads(B), h # b PROVE Hung(B, k, h, c + 1)
    <3>1. Leading(B, h, c + 1) = Leading(B, h, c) /\ Hung(B, m, h, c)
      BY <2>7, <2>8, <2>12
    <3>2. h \in Cells /\ h # c
      BY <1>1, BlockFacts
    <3>3. k[h] = m[h] /\ \A d \in Leading(B, h, c) : k[d] = m[d]
      BY <3>2, <2>5, <2>9, <2>12
    <3>4. QED
      BY <3>1, <3>3 DEF Hung, Chain
  <2>13. ASSUME NEW e \in Cells \ Heads(B), \A h \in Heads(B) : e \notin Leading(B, h, c + 1)
         PROVE  k[e] = B[e]
    <3>1. e # c /\ e # b /\ \A h \in Heads(B) : e \notin Leading(B, h, c)
      BY <2>6, <2>7, <2>13
    <3>2. m[e] = B[e]
      BY <3>1 DEF Threaded
    <3>3. QED
      BY <3>1, <3>2, <2>5
  <2>14. Threaded(B, k, c + 1)
    BY <2>5, <2>11, <2>12, <2>13 DEF Threaded
  <2>15. QED
    BY <2>14 DEF k
<1>5. CASE ~ \E b \in Heads(B) : Leads(B, c, b)
  <2>1. ~(B[c].kind = "ptr" /\ B[c].a \in Words)
    <3> SUFFICES ASSUME B[c].kind = "ptr", B[c].a \in Words PROVE FALSE
      OBVIOUS
    <3>1. \A i \in ChunkNo : B[c].a \notin First(i) .. Limit(i)
      BY <1>5, ScannedFacts
    <3>2. PICK i \in ChunkNo : First(i) <= B[c].a /\ B[c].a < Limit(i)
      BY WordTypes
    <3>3. B[c].a \in Int
      BY WordTypes
    <3>4. QED
      BY <3>1, <3>2, <3>3, ChunkTypes
  <2>2. invert_pointer_at(m, c) = m
    BY <2>1, <1>2 DEF invert_pointer_at
  <2>3. \A b \in Heads(B) : Leading(B, b, c + 1) = Leading(B, b, c)
    BY <1>3, <1>5 DEF Leading
  <2>4. ASSUME NEW b \in Heads(B) PROVE Hung(B, m, b, c + 1)
    <3>1. Hung(B, m, b, c) /\ Leading(B, b, c + 1) = Leading(B, b, c)
      BY <2>3 DEF Threaded
    <3>2. Chain(B, b, c + 1) = Chain(B, b, c)
      BY <3>1 DEF Chain
    <3>3. QED
      BY <3>1, <3>2 DEF Hung
  <2>5. Threaded(B, m, c + 1)
    BY <2>3, <2>4 DEF Threaded
  <2>6. QED
    BY <2>2, <2>5
<1>6. QED
  BY <1>4, <1>5

\* The recursive functions of Listed and Original.
IsListing(f, m)  == f = [c \in Cells |-> IF Linked(m, c) THEN {m[c].a} \cup f[m[c].a] ELSE {}]
IsOriginal(f, m) == f = [c \in Cells |-> IF Linked(m, c) THEN f[m[c].a] ELSE m[c]]

LEMMA ListingExists ==
  ASSUME NEW m PROVE \E f : IsListing(f, m) /\ \A a : Listed(m, a) = f[a]
<1> DEFINE ind == {c \in Cells : Linked(m, c)}
           next == [c \in ind |-> m[c].a]
<1>1. ind \in SUBSET Cells /\ next \in [ind -> Cells]
  BY DEF Linked
<1>2. PICK g : Gathers(g, Cells, ind, next)
  <2> HIDE DEF ind, next
  <2>1. QED
    BY <1>1, GatherExists
<1> DEFINE f == [c \in Cells |-> {m[d].a : d \in g[c]}]
<1>3. ASSUME NEW c \in Cells PROVE f[c] = IF Linked(m, c) THEN {m[c].a} \cup f[m[c].a] ELSE {}
  <2>1. g[c] = IF c \in ind THEN {c} \cup g[next[c]] ELSE {}
    <3> HIDE DEF ind, next
    <3>1. QED
      BY <1>2 DEF Gathers
  <2>2. CASE Linked(m, c)
    <3>1. c \in ind /\ next[c] = m[c].a /\ m[c].a \in Cells
      BY <2>2 DEF Linked
    <3>2. g[c] = {c} \cup g[m[c].a]
      BY <2>1, <3>1
    <3>3. {m[d].a : d \in g[c]} = {m[c].a} \cup {m[d].a : d \in g[m[c].a]}
      BY <3>2
    <3>4. QED
      BY <3>1, <3>3, <2>2
  <2>3. CASE ~Linked(m, c)
    <3>1. g[c] = {}
      BY <2>1, <2>3
    <3>2. QED
      BY <3>1, <2>3
  <2>4. QED
    BY <2>2, <2>3
<1>4. IsListing(f, m)
  <2>1. f = [c \in Cells |-> f[c]]
    OBVIOUS
  <2> HIDE DEF f
  <2>2. QED
    BY <1>3, <2>1 DEF IsListing
<1> DEFINE h == CHOOSE l : IsListing(l, m)
<1>5. IsListing(h, m)
  <2> HIDE DEF f
  <2>1. QED
    BY <1>4
<1>6. \A a : Listed(m, a) = h[a]
  BY DEF Listed, IsListing
<1>7. QED
  <2> HIDE DEF h
  <2>1. QED
    BY <1>5, <1>6

LEMMA OriginalExists ==
  ASSUME NEW m PROVE \E f : IsOriginal(f, m) /\ \A a : Original(m, a) = f[a]
<1> DEFINE ind == {c \in Cells : Linked(m, c)}
           next == [c \in ind |-> m[c].a]
<1>1. ind \in SUBSET Cells /\ next \in [ind -> Cells]
  BY DEF Linked
<1>2. PICK g : Follows(g, Cells, ind, next)
  <2> HIDE DEF ind, next
  <2>1. QED
    BY <1>1, FollowExists
<1> DEFINE f == [c \in Cells |-> m[g[c]]]
<1>3. ASSUME NEW c \in Cells PROVE f[c] = IF Linked(m, c) THEN f[m[c].a] ELSE m[c]
  <2>1. g[c] = IF c \in ind THEN g[next[c]] ELSE c
    <3> HIDE DEF ind, next
    <3>1. QED
      BY <1>2 DEF Follows
  <2>2. CASE Linked(m, c)
    <3>1. c \in ind /\ next[c] = m[c].a /\ m[c].a \in Cells
      BY <2>2 DEF Linked
    <3>2. g[c] = g[m[c].a]
      BY <2>1, <3>1
    <3>3. QED
      BY <3>1, <3>2, <2>2
  <2>3. CASE ~Linked(m, c)
    <3>1. g[c] = c
      BY <2>1, <2>3
    <3>2. QED
      BY <3>1, <2>3
  <2>4. QED
    BY <2>2, <2>3
<1>4. IsOriginal(f, m)
  <2>1. f = [c \in Cells |-> f[c]]
    OBVIOUS
  <2> HIDE DEF f
  <2>2. QED
    BY <1>3, <2>1 DEF IsOriginal
<1> DEFINE h == CHOOSE l : IsOriginal(l, m)
<1>5. IsOriginal(h, m)
  <2> HIDE DEF f
  <2>1. QED
    BY <1>4
<1>6. \A a : Original(m, a) = h[a]
  BY DEF Original, IsOriginal
<1>7. QED
  <2> HIDE DEF h
  <2>1. QED
    BY <1>5, <1>6

\* One link of a list.
LEMMA LinkStep ==
  ASSUME NEW B, WellFormed(B), NEW m, NEW f, IsListing(f, m), NEW g, IsOriginal(g, m),
         NEW b \in Heads(B), NEW x \in Int, NEW a \in Cells, m[a] = Chain(B, b, x),
         \A d \in Leading(B, b, x) : f[d] = Leading(B, b, d) /\ g[d] = Encoded(B, b)
  PROVE  f[a] = Leading(B, b, x) /\ g[a] = Encoded(B, b)
<1>1. /\ f[a] = IF Linked(m, a) THEN {m[a].a} \cup f[m[a].a] ELSE {}
      /\ g[a] = IF Linked(m, a) THEN g[m[a].a] ELSE m[a]
  BY DEF IsListing, IsOriginal
<1>2. CASE Leading(B, b, x) = {}
  <2>1. m[a] = Encoded(B, b)
    BY <1>2 DEF Chain
  <2>2. m[a].kind = "ehd"
    BY <2>1 DEF Encoded, Ehd
  <2>3. ~Linked(m, a)
    BY <2>2 DEF Linked
  <2>4. QED
    BY <1>1, <1>2, <2>1, <2>3
<1>3. CASE Leading(B, b, x) # {}
  <2> DEFINE e == Max(Leading(B, b, x))
  <2>1. e \in Leading(B, b, x) /\ \A d \in Leading(B, b, x) : e >= d
    BY <1>3, Greatest
  <2>2. m[a] = Ptr(e)
    BY <1>3 DEF Chain
  <2> HIDE DEF e
  <2>3. m[a].kind = "ptr" /\ m[a].a = e
    BY <2>2 DEF Ptr
  <2>4. e \in Int /\ e \in Cells /\ e < x
    BY <2>1, LeadingTypes
  <2>5. Linked(m, a)
    BY <2>3, <2>4 DEF Linked
  <2>6. f[a] = {e} \cup Leading(B, b, e) /\ g[a] = Encoded(B, b)
    BY <1>1, <2>1, <2>3, <2>5
  <2>7. \A d \in Scanned(B) : Leads(B, d, b) /\ d < x <=> d = e \/ (Leads(B, d, b) /\ d < e)
    <3>1. ASSUME NEW d \in Scanned(B) PROVE Leads(B, d, b) /\ d < x <=> d = e \/ (Leads(B, d, b) /\ d < e)
      <4>1. d \in Int
        BY ScannedFacts
      <4>2. Leads(B, d, b) /\ d < x => e >= d
        BY <2>1 DEF Leading
      <4>3. Leads(B, e, b)
        BY <2>1 DEF Leading
      <4>4. QED
        BY <4>1, <4>2, <4>3, <2>4
    <3>2. QED
      BY <3>1
  <2>8. e \in Scanned(B)
    BY <2>1 DEF Leading
  <2>9. Leading(B, b, x) = {e} \cup Leading(B, b, e)
    BY <2>7, <2>8 DEF Leading
  <2>10. QED
    BY <2>6, <2>9
<1>4. QED
  BY <1>2, <1>3

\* The list of a block is the words that led to it, and its header is at the end.
LEMMA ListIs ==
  ASSUME NEW B, WellFormed(B), NEW m, NEW b \in Heads(B), NEW x \in Int, Hung(B, m, b, x)
  PROVE  Listed(m, b) = Leading(B, b, x) /\ Original(m, b) = Encoded(B, b)
<1>1. PICK f : IsListing(f, m) /\ \A a : Listed(m, a) = f[a]
  BY ListingExists
<1>2. PICK g : IsOriginal(g, m) /\ \A a : Original(m, a) = g[a]
  BY OriginalExists
<1> DEFINE Bad == {d \in Leading(B, b, x) : ~(f[d] = Leading(B, b, d) /\ g[d] = Encoded(B, b))}
<1>3. ASSUME Bad # {} PROVE FALSE
  <2>1. Bad \in SUBSET Int /\ (\A d \in Bad : -Roots <= d) /\ -Roots \in Int
    BY LeadingTypes, SizesAssumption
  <2>2. PICK d \in Bad : \A e \in Bad : d <= e
    <3> HIDE DEF Bad
    <3>1. QED
      BY <1>3, <2>1, SmallestInteger
  <2>3. d \in Leading(B, b, x) /\ ~(f[d] = Leading(B, b, d) /\ g[d] = Encoded(B, b))
    BY <2>2
  <2>4. d \in Int /\ d \in Cells /\ d < x /\ m[d] = Chain(B, b, d)
    BY <2>3, LeadingTypes DEF Hung
  <2>5. ASSUME NEW e \in Leading(B, b, d) PROVE f[e] = Leading(B, b, e) /\ g[e] = Encoded(B, b)
    <3>1. e \in Int /\ e < d /\ e \in Scanned(B) /\ Leads(B, e, b)
      BY <2>4, LeadingTypes
    <3>2. e \in Leading(B, b, x)
      BY <3>1, <2>4 DEF Leading
    <3>3. e \notin Bad
      BY <3>1, <2>2, <2>4
    <3>4. QED
      BY <3>2, <3>3
  <2>6. f[d] = Leading(B, b, d) /\ g[d] = Encoded(B, b)
    BY <1>1, <1>2, <2>4, <2>5, LinkStep
  <2>7. QED
    BY <2>3, <2>6
<1>4. \A d \in Leading(B, b, x) : f[d] = Leading(B, b, d) /\ g[d] = Encoded(B, b)
  BY <1>3
<1>5. b \in Cells /\ m[b] = Chain(B, b, x)
  BY BlockFacts DEF Hung
<1>6. f[b] = Leading(B, b, x) /\ g[b] = Encoded(B, b)
  BY <1>1, <1>2, <1>4, <1>5, LinkStep
<1>7. QED
  BY <1>1, <1>2, <1>6

\* The memory m in the first pass, when the headers below x are encoded.
EncodedTo(B, m, x) ==
  /\ m = [c \in Cells |-> m[c]]
  /\ \A b \in Heads(B) : m[b] = IF b < x THEN Encoded(B, b) ELSE B[b]
  /\ \A c \in Cells \ Heads(B) : m[c] = B[c]

\* Nothing is reversed before the first root.
LEMMA ThreadStart ==
  ASSUME NEW B, WellFormed(B), NEW m, EncodedTo(B, m, End)
  PROVE  Threaded(B, m, -Roots)
<1>1. -Roots \in Int
  BY SizesAssumption
<1>2. \A b \in Heads(B) : Leading(B, b, -Roots) = {}
  <2>1. ASSUME NEW b \in Heads(B), NEW d \in Leading(B, b, -Roots) PROVE FALSE
    <3>1. d \in Int /\ d < -Roots /\ -Roots <= d
      BY <1>1, LeadingTypes
    <3>2. QED
      BY <1>1, <3>1
  <2>2. QED
    BY <2>1
<1>3. \A b \in Heads(B) : m[b] = Encoded(B, b)
  <2>1. ASSUME NEW b \in Heads(B) PROVE b < End
    <3>1. b \in Words
      BY BlockFacts
    <3>2. QED
      BY <3>1, WordTypes
  <2>2. QED
    BY <2>1 DEF EncodedTo
<1>4. \A b \in Heads(B) : Hung(B, m, b, -Roots)
  BY <1>2, <1>3 DEF Hung, Chain
<1>5. QED
  BY <1>4 DEF Threaded, EncodedTo

\* The recursive function of InvertBlock.
IsDone(f, m, a, w) == f = [n \in 0 .. w |-> IF n = 0 THEN m ELSE invert_pointer_at(f[n - 1], a + n)]

LEMMA InvertStays ==
  ASSUME NEW B, WellFormed(B), NEW X, \A e \in Cells : Ptr(e) \in X, NEW m \in [Cells -> X],
         NEW c \in Scanned(B), Threaded(B, m, c)
  PROVE  invert_pointer_at(m, c) \in [Cells -> X]
<1>1. c \in Cells /\ c \in Int /\ c \notin Heads(B)
  BY ScannedFacts
<1>2. m[c] = B[c]
  <2>1. \A b \in Heads(B) : c \notin Leading(B, b, c)
    BY <1>1 DEF Leading
  <2>2. QED
    BY <2>1, <1>1 DEF Threaded
<1>3. CASE m[c].kind = "ptr" /\ m[c].a \in Words
  <2>1. PICK i \in ChunkNo : First(i) <= m[c].a /\ m[c].a < Limit(i) /\ m[c].a \in Int
    BY <1>3, WordTypes
  <2>2. m[c].a \in First(i) .. Limit(i)
    BY <2>1, ChunkTypes
  <2>3. PICK b \in Live(B) : Leads(B, c, b)
    BY <2>2, <1>2, <1>3, ScannedFacts
  <2>4. m[c].a = b + 1 /\ b \in Cells /\ (b + 1) - 1 = b
    <3>1. b \in Heads(B)
      BY ScannedFacts
    <3>2. b \in Cells /\ b \in Nat /\ B[c].a = b + 1
      BY <3>1, <2>3, BlockFacts, LeadsToOne
    <3>3. QED
      BY <3>2, <1>2
  <2>5. invert_pointer_at(m, c) = [m EXCEPT ![c] = m[b], ![b] = Ptr(c)]
    BY <1>3, <2>4 DEF invert_pointer_at
  <2>6. m[b] \in X /\ Ptr(c) \in X
    BY <1>1, <2>4
  <2>7. QED
    BY <2>5, <2>6
<1>4. CASE ~(m[c].kind = "ptr" /\ m[c].a \in Words)
  BY <1>4 DEF invert_pointer_at
<1>5. QED
  BY <1>3, <1>4

\* When the fields of a block are reversed one after the other, the words up to them are.
LEMMA DoneThreads ==
  ASSUME NEW B, WellFormed(B), NEW m, NEW a \in Int, NEW w \in Nat,
         \A n \in 1 .. w : a + n \in Scanned(B), Threaded(B, m, a + 1),
         NEW f, IsDone(f, m, a, w)
  PROVE  Threaded(B, f[w], a + 1 + w)
<1> DEFINE G == {n \in 0 .. w : Threaded(B, f[n], a + 1 + n)}
<1>1. \A n \in 0 .. w : f[n] = IF n = 0 THEN m ELSE invert_pointer_at(f[n - 1], a + n)
  BY DEF IsDone
<1>2. 0 \in G
  <2>1. f[0] = m /\ a + 1 + 0 = a + 1
    BY <1>1
  <2>2. QED
    BY <2>1
<1>3. ASSUME NEW n \in 0 .. w, n < w, n \in G PROVE n + 1 \in G
  <2>1. n + 1 \in 0 .. w /\ n + 1 \in 1 .. w /\ n + 1 # 0 /\ (n + 1) - 1 = n /\ a + (n + 1) = a + 1 + n
        /\ a + 1 + (n + 1) = (a + (n + 1)) + 1
    BY <1>3
  <2>2. f[n + 1] = invert_pointer_at(f[n], a + (n + 1)) /\ a + (n + 1) \in Scanned(B)
    BY <2>1, <1>1
  <2>3. Threaded(B, f[n], a + (n + 1))
    BY <2>1, <1>3
  <2>4. Threaded(B, f[n + 1], (a + (n + 1)) + 1)
    BY <2>2, <2>3, ThreadStep
  <2>5. QED
    BY <2>1, <2>4
<1> HIDE DEF G
<1>4. \A n \in 0 .. w : n \in G
  <2>1. \A n \in 0 .. w : n < w /\ n \in G => n + 1 \in G
    BY <1>3
  <2>2. QED
    BY <1>2, <2>1, CountUp
<1>5. w \in G
  BY <1>4
<1>6. QED
  BY <1>5 DEF G

LEMMA DoneExists ==
  ASSUME NEW B, WellFormed(B), NEW m, NEW a \in Int, NEW w \in Nat,
         \A n \in 1 .. w : a + n \in Scanned(B), Threaded(B, m, a + 1)
  PROVE  \E f : IsDone(f, m, a, w)
<1> DEFINE X == {m[c] : c \in Cells} \cup {Ptr(c) : c \in Cells}
           V == [Cells -> X]
           step(n, k) == IF invert_pointer_at(k, a + n) \in V THEN invert_pointer_at(k, a + n) ELSE k
           g == [n \in Nat |-> [k \in V |-> step(n, k)]]
<1>1. m \in V
  BY DEF Threaded
<1>2. g \in [Nat -> [V -> V]]
  <2> HIDE DEF V
  <2>1. QED
    OBVIOUS
<1>3. \A c \in Cells : Ptr(c) \in X
  OBVIOUS
<1> HIDE DEF X
<1>4. PICK f \in [0 .. w -> V] : Recurses(f, w, m, g)
  <2>1. w \in Nat /\ m \in V /\ g \in [Nat -> [V -> V]]
    BY <1>1, <1>2
  <2> HIDE DEF g, V
  <2>2. QED
    BY <2>1, RecursionExists
<1> DEFINE G == {n \in 0 .. w : /\ Threaded(B, f[n], a + 1 + n)
                                /\ n # 0 => f[n] = invert_pointer_at(f[n - 1], a + n)}
<1>5. \A n \in 0 .. w : f[n] \in V /\ f[n] = IF n = 0 THEN m ELSE g[n][f[n - 1]]
  <2> HIDE DEF g, V
  <2>1. QED
    BY <1>4 DEF Recurses
<1>6. 0 \in G
  <2>1. f[0] = m /\ a + 1 + 0 = a + 1
    <3> HIDE DEF g, V
    <3>1. QED
      BY <1>5
  <2>2. QED
    BY <2>1
<1>7. ASSUME NEW n \in 0 .. w, n < w, n \in G PROVE n + 1 \in G
  <2>1. n + 1 \in 0 .. w /\ n + 1 \in 1 .. w /\ n + 1 \in Nat /\ n + 1 # 0 /\ (n + 1) - 1 = n
        /\ a + (n + 1) = a + 1 + n /\ a + 1 + (n + 1) = (a + (n + 1)) + 1
    BY <1>7
  <2>2. f[n + 1] = g[n + 1][f[n]] /\ f[n] \in V /\ a + (n + 1) \in Scanned(B)
    <3> HIDE DEF g, V
    <3>1. QED
      BY <2>1, <1>5
  <2>3. Threaded(B, f[n], a + (n + 1))
    BY <2>1, <1>7
  <2>4. Threaded(B, invert_pointer_at(f[n], a + (n + 1)), (a + (n + 1)) + 1)
    BY <2>2, <2>3, ThreadStep
  <2>5. invert_pointer_at(f[n], a + (n + 1)) \in V
    BY <1>3, <2>2, <2>3, InvertStays
  <2>6. g[n + 1][f[n]] = step(n + 1, f[n])
    <3> HIDE DEF V, step
    <3>1. QED
      BY <2>1, <2>2
  <2>7. f[n + 1] = invert_pointer_at(f[n], a + (n + 1))
    <3> HIDE DEF V, g
    <3>1. QED
      BY <2>2, <2>5, <2>6
  <2>8. QED
    <3> HIDE DEF V, g
    <3>1. QED
      BY <2>1, <2>4, <2>7
<1> HIDE DEF G
<1>8. \A n \in 0 .. w : n \in G
  <2>1. \A n \in 0 .. w : n < w /\ n \in G => n + 1 \in G
    BY <1>7
  <2>2. QED
    BY <1>6, <2>1, CountUp
<1>9. \A n \in 0 .. w : f[n] = IF n = 0 THEN m ELSE invert_pointer_at(f[n - 1], a + n)
  <2> HIDE DEF g, V
  <2>1. f[0] = m
    BY <1>5
  <2>2. QED
    BY <1>8, <2>1 DEF G
<1>10. f = [n \in 0 .. w |-> f[n]]
  <2> HIDE DEF V, g
  <2>1. QED
    BY <1>4 DEF Recurses
<1>11. IsDone(f, m, a, w)
  <2> HIDE DEF V, g
  <2>1. QED
    BY <1>9, <1>10 DEF IsDone
<1>12. QED
  BY <1>11

\* The fields of a block, reversed one after the other.
Done(m, a, w) == LET done[n \in 0 .. w] == IF n = 0 THEN m ELSE invert_pointer_at(done[n - 1], a + n) IN done[w]

LEMMA DoneIs ==
  ASSUME NEW B, WellFormed(B), NEW m, NEW a \in Int, NEW w \in Nat,
         \A n \in 1 .. w : a + n \in Scanned(B), Threaded(B, m, a + 1)
  PROVE  Threaded(B, Done(m, a, w), a + 1 + w)
<1> DEFINE h == CHOOSE f : IsDone(f, m, a, w)
<1>1. IsDone(h, m, a, w)
  BY DoneExists
<1>2. Done(m, a, w) = h[w]
  BY DEF Done, IsDone
<1> HIDE DEF h
<1>3. Threaded(B, h[w], a + 1 + w)
  BY <1>1, DoneThreads
<1>4. QED
  BY <1>2, <1>3

\* The block at b in the second pass.
LEMMA InvertStep ==
  ASSUME NEW B, WellFormed(B), NEW m, NEW b \in Heads(B), Threaded(B, m, b)
  PROVE  LET hd == Original(m, b)
         IN /\ hd = Encoded(B, b)
            /\ Threaded(B, IF hd.tag = "scan" THEN Done(m, b, hd.wosize) ELSE m, Beyond(b, Whsize(B, b)))
<1> DEFINE q == Beyond(b, Whsize(B, b))
           w == B[b].wosize
<1>1. b \in Int /\ w \in Nat /\ IsHead(B[b]) /\ Whsize(B, b) = w + 1
  BY BlockFacts DEF Whsize
<1>2. Original(m, b) = Encoded(B, b)
  <2>1. Hung(B, m, b, b)
    BY DEF Threaded
  <2>2. QED
    BY <1>1, <2>1, ListIs
<1>3. Encoded(B, b).tag = EncodedTag(B[b]) /\ Encoded(B, b).wosize = w
  BY DEF Encoded, Ehd
<1>4. q \in Int /\ \A c \in Cells : c < q <=> c < b + 1 + w
  <2>1. q \in Int /\ \A c \in Cells : c < q <=> c < b + Whsize(B, b)
    BY BeyondFacts
  <2>2. b + Whsize(B, b) = b + 1 + w
    BY <1>1
  <2>3. QED
    BY <2>1, <2>2
<1> HIDE DEF q
<1>5. \A c \in Scanned(B) : c \in Cells /\ c \in Int /\ c # b
  BY ScannedFacts
<1>6. CASE EncodedTag(B[b]) = "scan"
  <2>1. B[b].tag = "scan" /\ B[b].color = "white"
    BY <1>1, <1>6 DEF EncodedTag, IsHead
  <2>2. \A n \in 1 .. w : b + n \in Scanned(B)
    <3> SUFFICES ASSUME NEW n \in 1 .. w PROVE b + n \in Scanned(B)
      OBVIOUS
    <3>1. b \in Live(B)
      BY <2>1, <1>1 DEF Live
    <3>2. b + n \in Int /\ b < b + n /\ b + n < b + Whsize(B, b)
      BY <1>1
    <3>3. QED
      BY <3>1, <3>2, <2>1, ScannedFacts
  <2>3. Threaded(B, m, b + 1)
    <3>1. \A c \in Scanned(B) : c < b <=> c < b + 1
      BY <1>1, <1>5
    <3>2. b + 1 \in Int
      BY <1>1
    <3>3. QED
      BY <1>1, <3>1, <3>2, ThreadSkip
  <2>4. Threaded(B, Done(m, b, w), b + 1 + w)
    BY <1>1, <2>2, <2>3, DoneIs
  <2>5. Threaded(B, Done(m, b, w), q)
    <3>1. \A c \in Scanned(B) : c < b + 1 + w <=> c < q
      BY <1>4, <1>5
    <3>2. b + 1 + w \in Int
      BY <1>1
    <3>3. QED
      BY <2>4, <1>4, <3>1, <3>2, ThreadSkip
  <2>6. QED
    BY <2>5, <1>2, <1>3, <1>6 DEF q
<1>7. CASE EncodedTag(B[b]) # "scan"
  <2>1. ~(b \in Live(B) /\ B[b].tag = "scan")
    BY <1>7 DEF EncodedTag, Live
  <2>2. \A c \in Scanned(B) : c < b <=> c < q
    <3> SUFFICES ASSUME NEW c \in Scanned(B) PROVE c < b <=> c < q
      OBVIOUS
    <3>1. ~(b < c /\ c < b + Whsize(B, b))
      BY <2>1, <1>5, ScannedFacts
    <3>2. c < q <=> c < b + 1 + w
      BY <1>4, <1>5
    <3>3. QED
      BY <3>1, <3>2, <1>1, <1>5
  <2>3. Threaded(B, m, q)
    BY <1>1, <1>4, <2>2, ThreadSkip
  <2>4. QED
    BY <2>3, <1>2, <1>3, <1>7 DEF q
<1>8. QED
  BY <1>6, <1>7

\* The root c in the second pass: it, too, is a word that is scanned.
LEMMA RootStep ==
  ASSUME NEW B, WellFormed(B), NEW m, NEW c \in Root, Threaded(B, m, c)
  PROVE  Threaded(B, invert_pointer_at(m, c), c + 1)
<1>1. c \in Scanned(B)
  BY ScannedFacts
<1>2. QED
  BY <1>1, ThreadStep

\* The block at b in the first pass.
LEMMA EncodeStep ==
  ASSUME NEW B, WellFormed(B), NEW m, NEW b \in Heads(B), EncodedTo(B, m, b)
  PROVE  /\ m[b] = B[b] /\ m[b].kind = "hd"
         /\ EncodedTo(B, [m EXCEPT ![b] = Ehd(m[b].wosize, EncodedTag(m[b]))], Beyond(b, Whsize(B, b)))
<1> DEFINE q == Beyond(b, Whsize(B, b))
           k == [m EXCEPT ![b] = Ehd(m[b].wosize, EncodedTag(m[b]))]
<1>1. b \in Int /\ b \in Cells /\ IsHead(B[b])
  BY BlockFacts
<1>2. m[b] = B[b]
  BY <1>1 DEF EncodedTo
<1>3. B[b].kind = "hd"
  BY <1>1 DEF IsHead, Hd
<1>4. k[b] = Encoded(B, b) /\ \A c \in Cells : c # b => k[c] = m[c]
  BY <1>1, <1>2 DEF EncodedTo, Encoded
<1>5. k = [c \in Cells |-> k[c]]
  BY <1>1 DEF EncodedTo
<1>6. \A h \in Heads(B) : h < q <=> h < b \/ h = b
  BY BeyondFacts
<1>7. \A h \in Heads(B) : h \in Cells
  BY BlockFacts
<1> HIDE DEF k, q
<1>8. \A h \in Heads(B) : k[h] = IF h < q THEN Encoded(B, h) ELSE B[h]
  BY <1>4, <1>6, <1>7 DEF EncodedTo
<1>9. \A c \in Cells \ Heads(B) : k[c] = B[c]
  BY <1>4 DEF EncodedTo
<1>10. QED
  BY <1>2, <1>3, <1>5, <1>8, <1>9 DEF EncodedTo, k, q

\* Where p is after the block at p.
LEMMA BehindIs ==
  ASSUME NEW B, WellFormed(B), p \in Heads(B)
  PROVE  LET q == Beyond(p, Whsize(B, p))
         IN Behind(Whsize(B, p)) = IF q = End THEN 0 ELSE q
<1> DEFINE n == Whsize(B, p)
           i == ChunkOf(p)
<1>1. PICK j \in ChunkNo : /\ First(j) <= p /\ p < Limit(j) /\ p + n <= Limit(j)
  BY BlockFacts
<1>2. p \in Nat /\ n \in Nat \ {0} /\ p < End
  BY BlockFacts, WordTypes
<1>3. i = j
  BY <1>1, <1>2, ChunkOfIs
<1>4. Last \in Nat /\ Last = Len(Chunks) /\ End = Limit(Last) /\ j \in 1 .. Last /\ Last \in ChunkNo
  BY ChunkTypes DEF Last, End
<1>5. CASE p + n < Limit(j)
  <2>1. p + n # End
    <3>1. j = Last \/ j < Last
      BY <1>4
    <3>2. j < Last => Limit(j) < First(Last) /\ First(Last) < Limit(Last)
      BY <1>4, ChunkOrder, ChunkTypes
    <3>3. Limit(j) \in Int /\ Limit(Last) \in Int /\ First(Last) \in Int
      BY <1>4, ChunkTypes
    <3>4. QED
      BY <1>2, <1>4, <1>5, <3>1, <3>2, <3>3
  <2>2. QED
    BY <2>1, <1>3, <1>5 DEF Beyond, Behind
<1>6. CASE ~(p + n < Limit(j)) /\ j < Last
  <2>1. j + 1 \in ChunkNo
    BY <1>4, <1>6 DEF ChunkNo, Last
  <2>2. First(j + 1) < End
    <3>1. j + 1 = Last \/ j + 1 < Last
      BY <1>4, <1>6
    <3>2. First(j + 1) < Limit(j + 1) /\ First(Last) < Limit(Last)
      BY <2>1, <1>4, ChunkTypes
    <3>3. j + 1 < Last => Limit(j + 1) < First(Last)
      BY <2>1, <1>4, ChunkOrder
    <3>4. Limit(j + 1) \in Int /\ Limit(Last) \in Int /\ First(Last) \in Int /\ First(j + 1) \in Int
      BY <2>1, <1>4, ChunkTypes
    <3>5. QED
      BY <1>4, <3>1, <3>2, <3>3, <3>4
  <2>3. First(j + 1) \in Int /\ End \in Int
    BY <2>1, ChunkTypes, WordTypes
  <2>4. First(j + 1) # End
    BY <2>2, <2>3
  <2>5. QED
    BY <2>4, <1>3, <1>4, <1>6 DEF Beyond, Behind
<1>7. CASE ~(p + n < Limit(j)) /\ ~(j < Last)
  BY <1>3, <1>4, <1>7 DEF Beyond, Behind
<1>8. QED
  BY <1>5, <1>6, <1>7

-----------------------------------------------------------------------------
(* New addresses                                                           *)

\* The word c after the third pass.
New(B, mv, c) ==
  IF c \in Heads(B) THEN Hd(B[c].wosize, EncodedTag(B[c]), IF c \in DOMAIN mv THEN "white" ELSE "blue")
  ELSE IF c \in Scanned(B) /\ \E b \in Heads(B) : Leads(B, c, b) THEN Ptr(mv[B[c].a - 1] + 1) ELSE B[c]

\* The blocks below x to which pointers lead.
Led(B, x) == {b \in Heads(B) : b < x /\ Leading(B, b, End) # {}}

\* The memory m in the third pass, when the blocks below x have been dealt with.
Renewed(B, m, mv, x) ==
  /\ m = [c \in Cells |-> m[c]]
  /\ \A b \in Heads(B) :
       IF b < x THEN m[b] = New(B, mv, b) /\ \A d \in Leading(B, b, End) : m[d] = New(B, mv, d)
                ELSE Hung(B, m, b, End)
  /\ \A c \in Cells \ Heads(B) : (\A b \in Heads(B) : c \notin Leading(B, b, End)) => m[c] = B[c]

LEMMA HeadsFrom ==
  ASSUME NEW B, WellFormed(B), NEW b \in Heads(B)
  PROVE  b \in Int /\ First(1) <= b /\ b < End /\ First(1) \in Int /\ End \in Int
<1>1. b \in Words /\ b \in Int
  BY BlockFacts
<1>2. PICK i \in ChunkNo : First(i) <= b /\ b < Limit(i)
  BY <1>1, WordTypes
<1>3. First(1) <= First(i)
  <2>1. i = 1 \/ 1 < i
    BY ChunkTypes
  <2>2. 1 < i => Limit(1) < First(i)
    BY ChunkTypes, ChunkOrder
  <2>3. First(1) < Limit(1) /\ First(1) \in Int /\ Limit(1) \in Int /\ First(i) \in Int
    BY ChunkTypes
  <2>4. QED
    BY <2>1, <2>2, <2>3
<1>4. First(1) \in Int /\ First(i) \in Int /\ b < End /\ End \in Int
  BY <1>1, ChunkTypes, WordTypes
<1>5. QED
  BY <1>1, <1>2, <1>3, <1>4

LEMMA RenewStart ==
  ASSUME NEW B, WellFormed(B), NEW m, NEW mv, Threaded(B, m, End)
  PROVE  Renewed(B, m, mv, First(1))
<1>1. \A b \in Heads(B) : ~(b < First(1))
  BY HeadsFrom
<1>2. QED
  BY <1>1 DEF Renewed, Threaded

\* What the third pass finds at the block b.
LEMMA RenewFinds ==
  ASSUME NEW B, WellFormed(B), NEW m, NEW mv, NEW b \in Heads(B), Renewed(B, m, mv, b)
  PROVE  /\ Listed(m, b) = Leading(B, b, End) /\ Original(m, b) = Encoded(B, b)
         /\ m[b].kind = "ptr" <=> Leading(B, b, End) # {}
<1>1. b \in Int /\ ~(b < b) /\ End \in Int
  BY HeadsFrom
<1>2. Hung(B, m, b, End)
  BY <1>1 DEF Renewed
<1>3. m[b] = Chain(B, b, End)
  BY <1>2 DEF Hung
<1>4. Encoded(B, b).kind = "ehd" /\ \A c : Ptr(c).kind = "ptr"
  BY DEF Encoded, Ehd, Ptr
<1>5. m[b].kind = "ptr" <=> Leading(B, b, End) # {}
  BY <1>3, <1>4 DEF Chain
<1>6. QED
  BY <1>1, <1>2, <1>5, ListIs

\* A block to which pointers lead.
LEMMA RenewWhite ==
  ASSUME NEW B, WellFormed(B), NEW m, NEW mv, NEW b \in Heads(B), Renewed(B, m, mv, b),
         DOMAIN mv = Led(B, b), Leading(B, b, End) # {}, NEW to, NEW k, NEW nv,
         nv = [h \in DOMAIN mv \cup {b} |-> IF h = b THEN to ELSE mv[h]],
         k = [c \in Cells |-> IF c = b THEN Hd(B[b].wosize, EncodedTag(B[b]), "white")
                              ELSE IF c \in Leading(B, b, End) THEN Ptr(to + 1) ELSE m[c]]
  PROVE  LET q == Beyond(b, Whsize(B, b)) IN Renewed(B, k, nv, q) /\ DOMAIN nv = Led(B, q)
<1> DEFINE q == Beyond(b, Whsize(B, b))
<1>1. b \in Int /\ b \in Cells /\ End \in Int
  BY HeadsFrom, BlockFacts
<1>2. \A h \in Heads(B) : h < q <=> h < b \/ h = b
  BY BeyondFacts
<1> HIDE DEF q
<1>3. \A h \in Heads(B) : h \in Int /\ h \in Cells /\ h < End
  BY HeadsFrom, BlockFacts
<1>4. \A h \in Heads(B) : \A d \in Leading(B, h, End) :
        /\ d \in Cells /\ d \notin Heads(B) /\ d \in Scanned(B) /\ Leads(B, d, h)
        /\ B[d].a - 1 = h /\ (h # b => d \notin Leading(B, b, End))
  <2> SUFFICES ASSUME NEW h \in Heads(B), NEW d \in Leading(B, h, End)
               PROVE  /\ d \in Cells /\ d \notin Heads(B) /\ d \in Scanned(B) /\ Leads(B, d, h)
                      /\ B[d].a - 1 = h /\ (h # b => d \notin Leading(B, b, End))
    OBVIOUS
  <2>1. d \in Cells /\ d \notin Heads(B) /\ d \in Scanned(B) /\ Leads(B, d, h)
    BY <1>1, LeadingTypes
  <2>2. B[d].a = h + 1
    BY <2>1, LeadsToOne
  <2>3. d \in Leading(B, b, End) => h = b
    <3>1. ASSUME d \in Leading(B, b, End) PROVE h = b
      <4>1. Leads(B, d, b)
        BY <3>1, <1>1, LeadingTypes
      <4>2. QED
        BY <4>1, <2>1, LeadsToOne
    <3>2. QED
      BY <3>1
  <2>4. QED
    BY <2>1, <2>2, <2>3, <1>3
<1>5. b \notin Leading(B, b, End) /\ b \notin DOMAIN mv
  BY <1>1, <1>4 DEF Led
<1>6. DOMAIN nv = DOMAIN mv \cup {b} /\ nv[b] = to /\ \A h \in DOMAIN mv : nv[h] = mv[h]
  BY <1>5
<1>7. k = [c \in Cells |-> k[c]] /\ k[b] = Hd(B[b].wosize, EncodedTag(B[b]), "white")
      /\ \A c \in Leading(B, b, End) : k[c] = Ptr(to + 1)
  BY <1>1, <1>4, <1>5
<1>8. \A c \in Cells : c # b /\ c \notin Leading(B, b, End) => k[c] = m[c]
  OBVIOUS
<1>9. DOMAIN nv = Led(B, q)
  <2>1. \A h : h \in Led(B, q) <=> h \in Led(B, b) \/ h = b
    BY <1>2 DEF Led
  <2>2. QED
    BY <2>1, <1>6
<1>10. ASSUME NEW h \in Heads(B), h < q
       PROVE  k[h] = New(B, nv, h) /\ \A d \in Leading(B, h, End) : k[d] = New(B, nv, d)
  <2>1. CASE h = b
    <3>1. k[b] = New(B, nv, b)
      BY <1>6, <1>7 DEF New
    <3>2. ASSUME NEW d \in Leading(B, b, End) PROVE k[d] = New(B, nv, d)
      <4>1. New(B, nv, d) = Ptr(nv[B[d].a - 1] + 1)
        BY <1>4 DEF New
      <4>2. nv[B[d].a - 1] = to
        BY <1>4, <1>6
      <4>3. QED
        BY <4>1, <4>2, <1>7
    <3>3. QED
      BY <2>1, <3>1, <3>2
  <2>2. CASE h # b
    <3>1. h < b
      BY <1>10, <1>2, <2>2
    <3>2. m[h] = New(B, mv, h) /\ \A d \in Leading(B, h, End) : m[d] = New(B, mv, d)
      BY <3>1 DEF Renewed
    <3>3. k[h] = m[h]
      BY <2>2, <1>3, <1>4, <1>8, <1>1
    <3>4. New(B, nv, h) = New(B, mv, h)
      BY <2>2, <1>6 DEF New
    <3>5. ASSUME NEW d \in Leading(B, h, End) PROVE k[d] = New(B, nv, d)
      <4>1. d # b /\ d \notin Leading(B, b, End) /\ d \in Cells
        BY <1>4, <2>2
      <4>2. k[d] = New(B, mv, d)
        BY <4>1, <1>8, <3>2
      <4>3. New(B, mv, d) = Ptr(mv[B[d].a - 1] + 1) /\ New(B, nv, d) = Ptr(nv[B[d].a - 1] + 1)
        BY <1>4 DEF New
      <4>4. B[d].a - 1 = h /\ h \in Led(B, b)
        BY <1>4, <3>1 DEF Led
      <4>5. QED
        BY <4>2, <4>3, <4>4, <1>6
    <3>6. QED
      BY <3>2, <3>3, <3>4, <3>5
  <2>3. QED
    BY <2>1, <2>2
<1>11. ASSUME NEW h \in Heads(B), ~(h < q) PROVE Hung(B, k, h, End)
  <2>1. h # b /\ ~(h < b)
    BY <1>11, <1>2
  <2>2. Hung(B, m, h, End)
    BY <2>1 DEF Renewed
  <2>3. k[h] = m[h]
    BY <2>1, <1>3, <1>4, <1>8, <1>1
  <2>4. \A d \in Leading(B, h, End) : k[d] = m[d]
    BY <2>1, <1>4, <1>8
  <2>5. QED
    BY <2>2, <2>3, <2>4 DEF Hung
<1>12. ASSUME NEW c \in Cells \ Heads(B), \A h \in Heads(B) : c \notin Leading(B, h, End) PROVE k[c] = B[c]
  <2>1. m[c] = B[c]
    BY <1>12 DEF Renewed
  <2>2. c # b /\ c \notin Leading(B, b, End)
    BY <1>12
  <2>3. QED
    BY <2>1, <2>2, <1>8
<1>13. Renewed(B, k, nv, q)
  BY <1>7, <1>10, <1>11, <1>12 DEF Renewed
<1>14. QED
  BY <1>9, <1>13 DEF q

\* A block to which none leads.
LEMMA RenewBlue ==
  ASSUME NEW B, WellFormed(B), NEW m, NEW mv, NEW b \in Heads(B), Renewed(B, m, mv, b),
         DOMAIN mv = Led(B, b), Leading(B, b, End) = {}, NEW k,
         k = [m EXCEPT ![b] = Hd(B[b].wosize, EncodedTag(B[b]), "blue")]
  PROVE  LET q == Beyond(b, Whsize(B, b)) IN Renewed(B, k, mv, q) /\ DOMAIN mv = Led(B, q)
<1> DEFINE q == Beyond(b, Whsize(B, b))
<1>1. b \in Int /\ b \in Cells /\ End \in Int
  BY HeadsFrom, BlockFacts
<1>2. \A h \in Heads(B) : h < q <=> h < b \/ h = b
  BY BeyondFacts
<1> HIDE DEF q
<1>3. \A h \in Heads(B) : h \in Cells /\ \A d \in Leading(B, h, End) : d \in Cells /\ d # b
  BY <1>1, BlockFacts, LeadingTypes
<1>4. b \notin DOMAIN mv
  BY <1>1 DEF Led
<1>5. m = [c \in Cells |-> m[c]]
  BY DEF Renewed
<1>6. k = [c \in Cells |-> k[c]] /\ k[b] = Hd(B[b].wosize, EncodedTag(B[b]), "blue")
      /\ \A c \in Cells : c # b => k[c] = m[c]
  BY <1>1, <1>5
<1>7. DOMAIN mv = Led(B, q)
  <2>1. \A h : h \in Led(B, q) <=> h \in Led(B, b)
    BY <1>2 DEF Led
  <2>2. QED
    BY <2>1
<1>8. ASSUME NEW h \in Heads(B), h < q
       PROVE  k[h] = New(B, mv, h) /\ \A d \in Leading(B, h, End) : k[d] = New(B, mv, d)
  <2>1. CASE h = b
    BY <2>1, <1>4, <1>6 DEF New
  <2>2. CASE h # b
    <3>1. h < b
      BY <1>8, <1>2, <2>2
    <3>2. m[h] = New(B, mv, h) /\ \A d \in Leading(B, h, End) : m[d] = New(B, mv, d)
      BY <3>1 DEF Renewed
    <3>3. QED
      BY <2>2, <3>2, <1>3, <1>6
  <2>3. QED
    BY <2>1, <2>2
<1>9. ASSUME NEW h \in Heads(B), ~(h < q) PROVE Hung(B, k, h, End)
  <2>1. h # b /\ ~(h < b)
    BY <1>9, <1>2
  <2>2. Hung(B, m, h, End)
    BY <2>1 DEF Renewed
  <2>3. QED
    BY <2>1, <2>2, <1>3, <1>6 DEF Hung
<1>10. ASSUME NEW c \in Cells \ Heads(B), \A h \in Heads(B) : c \notin Leading(B, h, End) PROVE k[c] = B[c]
  BY <1>6, <1>10 DEF Renewed
<1>11. Renewed(B, k, mv, q)
  BY <1>6, <1>8, <1>9, <1>10 DEF Renewed
<1>12. QED
  BY <1>7, <1>11 DEF q

\* All words after the third pass.
LEMMA RenewDone ==
  ASSUME NEW B, WellFormed(B), NEW m, NEW mv, Renewed(B, m, mv, End)
  PROVE  m = [c \in Cells |-> m[c]] /\ \A c \in Cells : m[c] = New(B, mv, c)
<1>1. \A h \in Heads(B) : h < End /\ m[h] = New(B, mv, h) /\ \A d \in Leading(B, h, End) : m[d] = New(B, mv, d)
  BY HeadsFrom DEF Renewed
<1>2. ASSUME NEW c \in Cells \ Heads(B), \A h \in Heads(B) : c \notin Leading(B, h, End) PROVE m[c] = New(B, mv, c)
  <2>1. m[c] = B[c]
    BY <1>2 DEF Renewed
  <2>2. c < End
    BY WordTypes
  <2>3. ~(c \in Scanned(B) /\ \E b \in Heads(B) : Leads(B, c, b))
    BY <1>2, <2>2 DEF Leading
  <2>4. QED
    BY <2>1, <2>3 DEF New
<1>3. QED
  BY <1>1, <1>2 DEF Renewed

-----------------------------------------------------------------------------
(* compact_allocate                                                        *)

FullIn(al, i) == Size(i) - al[i] <= Slack
Stops(al)     == {i \in ChunkNo : ~FullIn(al, i) \/ (i < Last /\ ~FullIn(al, i + 1))}
Fitting(al, n) == {i \in ChunkNo : Size(i) - al[i] >= n /\ \E s \in Stops(al) : s <= i}

\* The chunk that n words are taken from depends on nothing but what is taken from all chunks.
Room(al, n) == IF Fitting(al, n) = {} THEN 0 ELSE Min(Fitting(al, n))

\* What compact_fl has gone past.
Passed(al, f) == \A i \in ChunkNo : i < f => FullIn(al, i) /\ FullIn(al, i + 1)

LEMMA SmallestOf ==
  ASSUME NEW S \in SUBSET ChunkNo, S # {}
  PROVE  Min(S) \in S /\ \A i \in S : Min(S) <= i
<1>1. S \in SUBSET Int /\ \A i \in S : 1 <= i
  BY DEF ChunkNo
<1>2. \E x \in S : \A y \in S : x <= y
  <2>1. S \in SUBSET Int /\ 1 \in Int
    BY <1>1
  <2>2. QED
    BY <2>1, <1>1, SmallestInteger
<1>3. QED
  BY <1>2 DEF Min

LEMMA RoomyIs ==
  ASSUME alloc \in [ChunkNo -> Nat], compact_fl \in ChunkNo, Passed(alloc, compact_fl), NEW n
  PROVE  /\ Roomy(n) = Room(alloc, n)
         /\ Roomy(n) # 0 => Advanced \in ChunkNo /\ Passed(alloc, Advanced)
<1> DEFINE stop == {i \in compact_fl .. Len(Chunks) : ~Full(i) \/ (i < Len(Chunks) /\ ~Full(i + 1))}
<1>1. \A i \in ChunkNo : Left[i] = Size(i) - alloc[i] /\ (Full(i) <=> FullIn(alloc, i))
  BY DEF Left, Full, FullIn
<1>2. Last = Len(Chunks) /\ Last \in Nat /\ ChunkNo = 1 .. Last /\ compact_fl \in Int
  BY ChunkTypes DEF Last, ChunkNo
<1>3. \A i \in ChunkNo : i < Last => i + 1 \in ChunkNo
  BY <1>2
<1>4. \A i : i \in stop <=> i \in Stops(alloc)
  <2>1. \A i : i \in stop => i \in ChunkNo /\ i \in Stops(alloc)
    BY <1>1, <1>2, <1>3 DEF Stops
  <2>2. ASSUME NEW i \in Stops(alloc) PROVE i \in stop
    <3>1. i \in ChunkNo /\ (~FullIn(alloc, i) \/ (i < Last /\ ~FullIn(alloc, i + 1)))
      BY DEF Stops
    <3>2. ~(i < compact_fl)
      BY <3>1 DEF Passed
    <3>3. i \in compact_fl .. Len(Chunks)
      BY <3>1, <3>2, <1>2
    <3>4. ~Full(i) \/ (i < Len(Chunks) /\ ~Full(i + 1))
      BY <3>1, <1>1, <1>2, <1>3
    <3>5. QED
      BY <3>3, <3>4
  <2>3. QED
    BY <2>1, <2>2
<1>5. stop = Stops(alloc)
  <2> HIDE DEF stop
  <2>1. QED
    BY <1>4
<1>6. Advanced = IF Stops(alloc) = {} THEN 0 ELSE Min(Stops(alloc))
  BY <1>5 DEF Advanced
<1> HIDE DEF stop
<1>7. Stops(alloc) \in SUBSET ChunkNo
  BY DEF Stops
<1>8. CASE Stops(alloc) = {}
  <2>1. Advanced = 0 /\ Fitting(alloc, n) = {}
    BY <1>6, <1>8 DEF Fitting
  <2>2. QED
    BY <2>1 DEF Roomy, Room
<1>9. CASE Stops(alloc) # {}
  <2>1. Advanced \in Stops(alloc) /\ \A s \in Stops(alloc) : Advanced <= s
    BY <1>6, <1>7, <1>9, SmallestOf
  <2>2. Advanced \in ChunkNo /\ Advanced # 0 /\ Advanced \in Int
    BY <2>1, <1>2, <1>7
  <2>3. \A i \in ChunkNo : i >= Advanced <=> \E s \in Stops(alloc) : s <= i
    <3> SUFFICES ASSUME NEW i \in ChunkNo PROVE i >= Advanced <=> \E s \in Stops(alloc) : s <= i
      OBVIOUS
    <3>1. i >= Advanced => \E s \in Stops(alloc) : s <= i
      BY <2>1, <2>2, <1>2
    <3>2. ASSUME NEW s \in Stops(alloc), s <= i PROVE i >= Advanced
      BY <3>2, <2>1, <2>2, <1>2, <1>7
    <3>3. QED
      BY <3>1, <3>2
  <2>4. {i \in ChunkNo : i >= Advanced /\ Left[i] >= n} = Fitting(alloc, n)
    BY <2>3, <1>1 DEF Fitting
  <2>5. Roomy(n) = Room(alloc, n)
    BY <2>2, <2>4 DEF Roomy, Room
  <2>6. ASSUME NEW i \in ChunkNo, i < Advanced PROVE FullIn(alloc, i) /\ FullIn(alloc, i + 1)
    <3>1. i \notin Stops(alloc)
      BY <2>1, <2>2, <2>6, <1>2
    <3>2. i < Last
      BY <2>2, <2>6, <1>2
    <3>3. QED
      BY <3>1, <3>2 DEF Stops
  <2>7. QED
    BY <2>2, <2>5, <2>6 DEF Passed
<1>10. QED
  BY <1>8, <1>9

\* What lies below x is the same in both.
Agree(mv, nv, x) ==
  \A d : /\ d \in DOMAIN mv /\ d < x <=> d \in DOMAIN nv /\ d < x
         /\ d \in DOMAIN mv /\ d < x => mv[d] = nv[d]

\* The blocks below x have the places that mv tells: they lie in every chunk from its start on,
\* one behind the other, up to what is taken from it; and none is further up than it was.
Packed(B, al, mv, x, d, j) ==
  /\ First(j) <= mv[d] /\ mv[d] + Whsize(B, d) <= First(j) + al[j]
  /\ mv[d] + Whsize(B, d) = First(j) + al[j] \/
     \E e \in DOMAIN mv : e < x /\ mv[e] = mv[d] + Whsize(B, d)

Placed(B, al, mv, x) ==
  /\ al \in [ChunkNo -> Nat]
  /\ \A j \in ChunkNo : al[j] <= Size(j)
  /\ \A j \in ChunkNo : al[j] > 0 =>
       /\ First(j) + al[j] <= x
       /\ \E d \in DOMAIN mv : d < x /\ mv[d] = First(j)
       /\ \E d \in DOMAIN mv : d < x /\ mv[d] + Whsize(B, d) = First(j) + al[j]
  /\ \A d \in DOMAIN mv : d < x => mv[d] \in Nat /\ mv[d] <= d /\ \E j \in ChunkNo : Packed(B, al, mv, x, d, j)
  /\ \A d, e \in DOMAIN mv : d < e /\ e < x =>
       mv[d] + Whsize(B, d) <= mv[e] \/ mv[e] + Whsize(B, e) <= mv[d]

LEMMA PlacedSame ==
  ASSUME NEW B, NEW al, NEW mv, NEW nv, NEW x, Agree(mv, nv, x), Placed(B, al, mv, x),
         \A d \in DOMAIN nv : d \in Int, x \in Int
  PROVE  Placed(B, al, nv, x)
<1>1. \A d \in DOMAIN nv : d < x => d \in DOMAIN mv /\ mv[d] = nv[d]
  BY DEF Agree
<1>2. \A d \in DOMAIN mv : d < x => d \in DOMAIN nv /\ mv[d] = nv[d]
  BY DEF Agree
<1>3. ASSUME NEW d \in DOMAIN nv, d < x
      PROVE  nv[d] \in Nat /\ nv[d] <= d /\ \E j \in ChunkNo : Packed(B, al, nv, x, d, j)
  <2>1. d \in DOMAIN mv /\ mv[d] = nv[d]
    BY <1>1, <1>3
  <2>2. PICK j \in ChunkNo : Packed(B, al, mv, x, d, j)
    BY <2>1, <1>3 DEF Placed
  <2>3. Packed(B, al, nv, x, d, j)
    BY <2>1, <2>2, <1>2 DEF Packed
  <2>4. QED
    BY <2>1, <2>3, <1>3 DEF Placed
<1>4. ASSUME NEW j \in ChunkNo, al[j] > 0
      PROVE  /\ \E d \in DOMAIN nv : d < x /\ nv[d] = First(j)
             /\ \E d \in DOMAIN nv : d < x /\ nv[d] + Whsize(B, d) = First(j) + al[j]
  <2>1. PICK d \in DOMAIN mv : d < x /\ mv[d] = First(j)
    BY <1>4 DEF Placed
  <2>2. PICK e \in DOMAIN mv : e < x /\ mv[e] + Whsize(B, e) = First(j) + al[j]
    BY <1>4 DEF Placed
  <2>3. QED
    BY <2>1, <2>2, <1>2
<1>5. ASSUME NEW d \in DOMAIN nv, NEW e \in DOMAIN nv, d < e, e < x
      PROVE  nv[d] + Whsize(B, d) <= nv[e] \/ nv[e] + Whsize(B, e) <= nv[d]
  <2>1. d < x
    BY <1>5
  <2>2. d \in DOMAIN mv /\ mv[d] = nv[d] /\ e \in DOMAIN mv /\ mv[e] = nv[e]
    BY <2>1, <1>1, <1>5
  <2>3. QED
    BY <2>2, <1>5 DEF Placed
<1>6. QED
  BY <1>3, <1>4, <1>5 DEF Placed

\* So much is taken as the blocks below x say.
LEMMA PlacedOnce ==
  ASSUME NEW B, WellFormed(B), NEW al, NEW bl, NEW mv, NEW x, DOMAIN mv \subseteq Heads(B),
         Placed(B, al, mv, x), Placed(B, bl, mv, x)
  PROVE  \A j \in ChunkNo : al[j] <= bl[j]
<1> SUFFICES ASSUME NEW j \in ChunkNo PROVE al[j] <= bl[j]
  OBVIOUS
<1>1. al[j] \in Nat /\ bl[j] \in Nat
  BY DEF Placed
<1>2. CASE al[j] > 0
  <2>1. PICK d \in DOMAIN mv : d < x /\ mv[d] + Whsize(B, d) = First(j) + al[j]
    BY <1>2 DEF Placed
  <2>2. mv[d] \in Nat
    BY <2>1 DEF Placed
  <2>3. PICK i \in ChunkNo : Packed(B, bl, mv, x, d, i)
    BY <2>1 DEF Placed
  <2>4. Whsize(B, d) \in Nat \ {0}
    BY BlockFacts
  <2>5. First(i) <= mv[d] /\ mv[d] + Whsize(B, d) <= First(i) + bl[i]
    BY <2>3 DEF Packed
  <2>6. bl[i] \in Nat /\ bl[i] <= Size(i) /\ al[j] <= Size(j)
    BY DEF Placed
  <2>7. /\ First(i) \in Nat /\ Size(i) \in Nat /\ Limit(i) = First(i) + Size(i)
        /\ First(j) \in Nat /\ Size(j) \in Nat /\ Limit(j) = First(j) + Size(j)
    BY ChunkTypes
  <2> DEFINE c == First(j) + al[j]
  <2>8. c \in Int /\ First(j) <= c /\ c <= Limit(j) /\ First(i) <= c /\ c <= Limit(i)
    BY <1>1, <2>1, <2>2, <2>4, <2>5, <2>6, <2>7
  <2>9. i = j
    <3> HIDE DEF c
    <3>1. QED
      BY <2>8, SameChunk
  <2>10. QED
    BY <1>1, <2>1, <2>5, <2>7, <2>9
<1>3. CASE ~(al[j] > 0)
  BY <1>1, <1>3
<1>4. QED
  BY <1>2, <1>3

LEMMA PlaceStart ==
  ASSUME NEW B, WellFormed(B), NEW mv, DOMAIN mv \subseteq Heads(B)
  PROVE  Placed(B, [i \in ChunkNo |-> 0], mv, First(1))
<1>1. \A d \in DOMAIN mv : d \in Int /\ ~(d < First(1)) /\ First(1) \in Int
  BY HeadsFrom
<1>2. \A d, e \in DOMAIN mv : ~(d < e /\ e < First(1))
  BY <1>1
<1>3. \A j \in ChunkNo : Size(j) \in Nat
  BY ChunkTypes
<1> DEFINE al == [i \in ChunkNo |-> 0]
<1>4. al \in [ChunkNo -> Nat] /\ \A j \in ChunkNo : al[j] = 0
  OBVIOUS
<1> HIDE DEF al
<1>5. Placed(B, al, mv, First(1))
  BY <1>1, <1>2, <1>3, <1>4 DEF Placed
<1>6. QED
  BY <1>5 DEF al

\* The place that the block at b is given: it has room there, and is not moved up.
LEMMA NoHigher ==
  ASSUME NEW B, WellFormed(B), NEW al, NEW mv, NEW b \in Heads(B), Placed(B, al, mv, b),
         Room(al, Whsize(B, b)) # 0
  PROVE  LET r == Room(al, Whsize(B, b))
         IN r \in ChunkNo /\ Size(r) - al[r] >= Whsize(B, b) /\ First(r) + al[r] <= b
<1> DEFINE n == Whsize(B, b)
           r == Room(al, n)
<1>1. PICK i \in ChunkNo : First(i) <= b /\ b < Limit(i) /\ b + n <= Limit(i)
  BY BlockFacts
<1>2. b \in Nat /\ n \in Nat \ {0}
  BY BlockFacts
<1>3. \A j \in ChunkNo : /\ First(j) \in Nat /\ Size(j) \in Nat /\ Limit(j) = First(j) + Size(j) /\ Slack \in Nat
                         /\ Slack < Size(j) /\ al[j] \in Nat /\ al[j] <= Size(j) /\ j \in Nat
  BY ChunkTypes DEF Placed
<1>4. \A j \in ChunkNo : i < j => al[j] = 0
  <2> SUFFICES ASSUME NEW j \in ChunkNo, i < j PROVE al[j] = 0
    OBVIOUS
  <2>1. Limit(i) < First(j)
    BY ChunkOrder
  <2>2. al[j] > 0 => First(j) + al[j] <= b
    BY DEF Placed
  <2>3. QED
    BY <1>1, <1>2, <1>3, <2>1, <2>2
<1>5. al[i] <= b - First(i)
  <2>1. al[i] > 0 => First(i) + al[i] <= b
    BY DEF Placed
  <2>2. QED
    BY <1>1, <1>2, <1>3, <2>1
<1>6. Size(i) - al[i] >= n
  BY <1>1, <1>2, <1>3, <1>5
<1>7. Fitting(al, n) \in SUBSET ChunkNo
  BY DEF Fitting
<1>8. Fitting(al, n) # {} /\ r = Min(Fitting(al, n))
  BY DEF Room
<1>9. r \in Fitting(al, n) /\ \A j \in Fitting(al, n) : r <= j
  BY <1>7, <1>8, SmallestOf
<1>10. r \in ChunkNo /\ Size(r) - al[r] >= n /\ \E s \in Stops(al) : s <= r
  BY <1>9 DEF Fitting
<1> HIDE DEF r, n
<1>11. r <= i
  <2>1. PICK s \in Stops(al) : s <= r
    BY <1>10
  <2>2. s \in ChunkNo
    BY DEF Stops
  <2>3. ASSUME s > i PROVE FALSE
    <3>1. i < Last /\ i + 1 \in ChunkNo
      <4>1. s \in Nat /\ s <= Last /\ i \in Nat \ {0} /\ Last \in Nat /\ ChunkNo = 1 .. Last
        BY <2>2, ChunkTypes DEF ChunkNo, Last
      <4>2. QED
        BY <4>1, <2>3
    <3>2. al[i + 1] = 0
      BY <3>1, <1>3, <1>4
    <3>3. Size(i + 1) \in Nat /\ Slack \in Nat /\ Slack < Size(i + 1)
      BY <3>1, <1>3
    <3>4. ~FullIn(al, i + 1)
      BY <3>2, <3>3 DEF FullIn
    <3>5. i \in Stops(al)
      BY <3>1, <3>4 DEF Stops
    <3>6. i \in Fitting(al, n)
      BY <3>5, <1>3, <1>6 DEF Fitting
    <3>7. QED
      BY <3>6, <2>1, <2>2, <2>3, <1>3, <1>9, <1>10
  <2>4. i \in Fitting(al, n)
    BY <2>1, <2>2, <2>3, <1>3, <1>6 DEF Fitting
  <2>5. QED
    BY <2>4, <1>9
<1>12. First(r) + al[r] <= b
  <2>1. r = i \/ r < i
    BY <1>3, <1>10, <1>11
  <2>2. r < i => Limit(r) < First(i)
    BY <1>10, ChunkOrder
  <2>3. First(r) \in Nat /\ Size(r) \in Nat /\ Limit(r) = First(r) + Size(r) /\ al[r] \in Nat /\ First(i) \in Nat
    BY <1>10, <1>3
  <2>4. CASE r = i
    BY <2>4, <1>2, <1>3, <1>5
  <2>5. CASE r < i
    BY <2>5, <2>2, <2>3, <1>1, <1>2, <1>10
  <2>6. QED
    BY <2>1, <2>4, <2>5
<1>13. QED
  BY <1>10, <1>12 DEF r, n

\* The block at b gets its place.
LEMMA PlaceBlock ==
  ASSUME NEW B, WellFormed(B), NEW al, NEW mv, NEW b \in Heads(B), Placed(B, al, mv, b),
         DOMAIN mv \subseteq Heads(B), NEW r, r = Room(al, Whsize(B, b)), r # 0,
         b \in DOMAIN mv, mv[b] = First(r) + al[r]
  PROVE  Placed(B, [al EXCEPT ![r] = @ + Whsize(B, b)], mv, Beyond(b, Whsize(B, b)))
<1> DEFINE n == Whsize(B, b)
           q == Beyond(b, n)
           nal == [al EXCEPT ![r] = @ + n]
<1>1. r \in ChunkNo /\ Size(r) - al[r] >= n /\ First(r) + al[r] <= b
  BY NoHigher
<1>2. b \in Nat /\ n \in Nat \ {0} /\ q \in Nat /\ b < q /\ b + n <= q
  BY BlockFacts, BeyondFacts
<1>3. \A h \in DOMAIN mv : (h < q <=> h < b \/ h = b) /\ h \in Nat /\ Whsize(B, h) \in Nat \ {0}
  BY BeyondFacts, BlockFacts
<1>4. \A j \in ChunkNo : First(j) \in Nat /\ Size(j) \in Nat /\ Limit(j) = First(j) + Size(j)
                         /\ al[j] \in Nat /\ al[j] <= Size(j) /\ j \in Nat
  BY ChunkTypes DEF Placed
<1>5. nal \in [ChunkNo -> Nat] /\ nal[r] = al[r] + n /\ \A j \in ChunkNo : j # r => nal[j] = al[j]
  BY <1>1, <1>2, <1>4 DEF Placed
<1> HIDE DEF n, q, nal
<1>6. \A d \in DOMAIN mv : d < b => mv[d] \in Nat /\ mv[d] <= d /\ \E j \in ChunkNo : Packed(B, al, mv, b, d, j)
  BY DEF Placed
<1>7. \A j \in ChunkNo : nal[j] <= Size(j) /\ al[j] <= nal[j]
  BY <1>1, <1>2, <1>4, <1>5
<1>8. mv[b] \in Nat /\ mv[b] <= b /\ mv[b] + n = First(r) + nal[r]
  BY <1>1, <1>2, <1>4, <1>5
<1>9. ASSUME NEW j \in ChunkNo, nal[j] > 0
      PROVE  /\ First(j) + nal[j] <= q
             /\ \E d \in DOMAIN mv : d < q /\ mv[d] = First(j)
             /\ \E d \in DOMAIN mv : d < q /\ mv[d] + Whsize(B, d) = First(j) + nal[j]
  <2>1. al[j] > 0 => /\ First(j) + al[j] <= b
                     /\ \E d \in DOMAIN mv : d < q /\ mv[d] = First(j)
                     /\ \E d \in DOMAIN mv : d < q /\ mv[d] + Whsize(B, d) = First(j) + al[j]
    BY <1>3 DEF Placed
  <2>2. CASE j = r
    <3>1. First(j) + nal[j] <= q
      BY <2>2, <1>2, <1>8
    <3>2. \E d \in DOMAIN mv : d < q /\ mv[d] + Whsize(B, d) = First(j) + nal[j]
      BY <2>2, <1>2, <1>8 DEF n
    <3>3. al[j] = 0 => mv[b] = First(j) /\ b < q
      BY <2>2, <1>1, <1>2, <1>4
    <3>4. al[j] = 0 \/ al[j] > 0
      BY <1>4
    <3>5. QED
      BY <3>1, <3>2, <3>3, <3>4, <2>1
  <2>3. CASE j # r
    <3>1. nal[j] = al[j] /\ al[j] > 0
      BY <2>3, <1>5, <1>9
    <3>2. First(j) + al[j] <= b
      BY <2>1, <3>1
    <3>3. First(j) + al[j] <= q
      BY <3>2, <1>2, <1>4
    <3>4. QED
      BY <3>1, <3>3, <2>1
  <2>4. QED
    BY <2>2, <2>3
<1>10. ASSUME NEW d \in DOMAIN mv, d < q
       PROVE  mv[d] \in Nat /\ mv[d] <= d /\ \E j \in ChunkNo : Packed(B, nal, mv, q, d, j)
  <2>1. CASE d = b
    <3>1. Packed(B, nal, mv, q, d, r)
      <4>1. Whsize(B, d) = n
        BY <2>1 DEF n
      <4>2. First(r) <= mv[d] /\ mv[d] + Whsize(B, d) = First(r) + nal[r]
        BY <4>1, <2>1, <1>1, <1>4, <1>8
      <4>3. First(r) + nal[r] \in Nat
        BY <1>1, <1>4, <1>5
      <4>4. QED
        BY <4>2, <4>3 DEF Packed
    <3>2. QED
      BY <2>1, <3>1, <1>1, <1>8
  <2>2. CASE d # b
    <3>1. d < b
      BY <2>2, <1>3, <1>10
    <3>2. PICK j \in ChunkNo : Packed(B, al, mv, b, d, j)
      BY <3>1, <1>6
    <3>3. First(j) <= mv[d] /\ mv[d] + Whsize(B, d) <= First(j) + al[j]
      BY <3>2 DEF Packed
    <3>4. mv[d] \in Nat /\ mv[d] <= d
      BY <3>1, <1>6
    <3>5. nal[j] \in Nat /\ nal[j] >= al[j] /\ Whsize(B, d) \in Nat
      BY <1>5, <1>7, <1>3
    <3>6. mv[d] + Whsize(B, d) <= First(j) + nal[j]
      BY <3>3, <3>4, <3>5, <1>4
    <3>7. CASE mv[d] + Whsize(B, d) = First(j) + al[j]
      <4>1. mv[d] + Whsize(B, d) = First(j) + nal[j] \/ \E e \in DOMAIN mv : e < q /\ mv[e] = mv[d] + Whsize(B, d)
        BY <3>7, <1>2, <1>5
      <4>2. Packed(B, nal, mv, q, d, j)
        BY <4>1, <3>3, <3>6 DEF Packed
      <4>3. QED
        BY <4>2, <3>4
    <3>8. CASE mv[d] + Whsize(B, d) # First(j) + al[j]
      <4>1. PICK e \in DOMAIN mv : e < b /\ mv[e] = mv[d] + Whsize(B, d)
        BY <3>8, <3>2 DEF Packed
      <4>2. e < q
        BY <4>1, <1>3
      <4>3. Packed(B, nal, mv, q, d, j)
        BY <4>1, <4>2, <3>3, <3>6 DEF Packed
      <4>4. QED
        BY <4>3, <3>4
    <3>9. QED
      BY <3>7, <3>8
  <2>3. QED
    BY <2>1, <2>2
<1>11. ASSUME NEW d \in DOMAIN mv, NEW e \in DOMAIN mv, d < e, e < q
       PROVE  mv[d] + Whsize(B, d) <= mv[e] \/ mv[e] + Whsize(B, e) <= mv[d]
  <2>1. CASE e < b
    BY <2>1, <1>11 DEF Placed
  <2>2. CASE e = b
    <3>1. d < b
      BY <2>2, <1>11
    <3>2. PICK j \in ChunkNo : Packed(B, al, mv, b, d, j)
      BY <3>1, <1>6
    <3>3. First(j) <= mv[d] /\ mv[d] + Whsize(B, d) <= First(j) + al[j] /\ mv[d] \in Nat /\ Whsize(B, d) \in Nat
      BY <3>1, <3>2, <1>3, <1>6 DEF Packed
    <3>4. j = r \/ j < r \/ r < j
      BY <1>1, <1>4
    <3>5. (j < r => Limit(j) < First(r)) /\ (r < j => Limit(r) < First(j))
      BY <1>1, ChunkOrder
    <3>6. CASE j = r
      BY <3>3, <3>6, <2>2
    <3>7. CASE j < r
      <4>1. mv[d] + Whsize(B, d) <= Limit(j) /\ First(r) <= mv[b]
        BY <3>3, <1>1, <1>4
      <4>2. mv[d] + Whsize(B, d) <= mv[b]
        BY <4>1, <3>3, <3>5, <3>7, <1>1, <1>4, <1>8
      <4>3. QED
        BY <4>2, <2>2
    <3>8. CASE r < j
      <4>1. mv[b] + n <= Limit(r)
        BY <1>1, <1>2, <1>4
      <4>2. mv[b] + n <= mv[d]
        BY <4>1, <3>3, <3>5, <3>8, <1>1, <1>2, <1>4, <1>8
      <4>3. QED
        BY <4>2, <2>2 DEF n
    <3>9. QED
      BY <3>4, <3>6, <3>7, <3>8
  <2>3. QED
    BY <2>1, <2>2, <1>3, <1>11
<1>12. Placed(B, nal, mv, q)
  BY <1>5, <1>7, <1>9, <1>10, <1>11 DEF Placed
<1>13. QED
  BY <1>12 DEF nal, q, n

\* A block that is free gets none.
LEMMA PlaceNone ==
  ASSUME NEW B, WellFormed(B), NEW al, NEW mv, NEW b \in Heads(B), Placed(B, al, mv, b),
         DOMAIN mv \subseteq Heads(B), b \notin DOMAIN mv
  PROVE  Placed(B, al, mv, Beyond(b, Whsize(B, b)))
<1> DEFINE q == Beyond(b, Whsize(B, b))
<1>1. b \in Nat /\ q \in Nat /\ b < q
  BY BlockFacts, BeyondFacts
<1>2. \A h \in DOMAIN mv : h < q <=> h < b
  BY BeyondFacts
<1>3. \A j \in ChunkNo : First(j) \in Nat /\ al[j] \in Nat
  BY ChunkTypes DEF Placed
<1> HIDE DEF q
<1>4. \A j \in ChunkNo : al[j] > 0 =>
        /\ First(j) + al[j] <= q
        /\ \E d \in DOMAIN mv : d < q /\ mv[d] = First(j)
        /\ \E d \in DOMAIN mv : d < q /\ mv[d] + Whsize(B, d) = First(j) + al[j]
  <2> SUFFICES ASSUME NEW j \in ChunkNo, al[j] > 0
               PROVE  /\ First(j) + al[j] <= q
                      /\ \E d \in DOMAIN mv : d < q /\ mv[d] = First(j)
                      /\ \E d \in DOMAIN mv : d < q /\ mv[d] + Whsize(B, d) = First(j) + al[j]
    OBVIOUS
  <2>1. First(j) + al[j] <= b
    BY DEF Placed
  <2>2. First(j) + al[j] <= q
    BY <2>1, <1>1, <1>3
  <2>3. QED
    BY <2>2, <1>2 DEF Placed
<1>5. \A d \in DOMAIN mv : d < q => mv[d] \in Nat /\ mv[d] <= d /\ \E j \in ChunkNo : Packed(B, al, mv, q, d, j)
  BY <1>2 DEF Placed, Packed
<1>6. \A d, e \in DOMAIN mv : d < e /\ e < q =>
        mv[d] + Whsize(B, d) <= mv[e] \/ mv[e] + Whsize(B, e) <= mv[d]
  BY <1>2 DEF Placed
<1>7. Placed(B, al, mv, q)
  BY <1>4, <1>5, <1>6 DEF Placed
<1>8. QED
  BY <1>7 DEF q

-----------------------------------------------------------------------------
(* Moving                                                                  *)

\* The memory m in the fourth pass, when the blocks below x have been moved: these are at their
\* new places, and from x on nothing has changed.
Shifted(B, m, mv, x) ==
  /\ m = [c \in Cells |-> m[c]]
  /\ \A c \in Root : m[c] = New(B, mv, c)
  /\ \A c \in Words : c >= x => m[c] = New(B, mv, c)
  /\ \A d \in DOMAIN mv : d < x => \A n \in 0 .. B[d].wosize : m[mv[d] + n] = New(B, mv, d + n)

LEMMA ShiftStart ==
  ASSUME NEW B, WellFormed(B), NEW m, NEW mv, DOMAIN mv \subseteq Heads(B), Renewed(B, m, mv, End)
  PROVE  Shifted(B, m, mv, First(1))
<1>1. m = [c \in Cells |-> m[c]] /\ \A c \in Cells : m[c] = New(B, mv, c)
  BY RenewDone
<1>2. \A d \in DOMAIN mv : ~(d < First(1))
  BY HeadsFrom
<1>3. QED
  BY <1>1, <1>2 DEF Shifted, Cells

LEMMA ShiftFinds ==
  ASSUME NEW B, WellFormed(B), NEW m, NEW mv, NEW b \in Heads(B), Shifted(B, m, mv, b)
  PROVE  /\ m[b].kind = "hd" /\ m[b].wosize = B[b].wosize
         /\ m[b].color \in {"white", "blue"} /\ (m[b].color = "white" <=> b \in DOMAIN mv)
<1>1. b \in Words /\ b >= b
  BY BlockFacts
<1>2. m[b] = New(B, mv, b)
  BY <1>1 DEF Shifted
<1>3. QED
  BY <1>2 DEF New, Hd

\* Where a block that has been given a place lies.
LEMMA PlaceWords ==
  ASSUME NEW B, WellFormed(B), NEW al, NEW mv, NEW x, DOMAIN mv \subseteq Heads(B), Placed(B, al, mv, x),
         NEW d \in DOMAIN mv, d < x
  PROVE  /\ mv[d] \in Nat /\ mv[d] <= d /\ d \in Nat
         /\ \A n \in 0 .. B[d].wosize : mv[d] + n \in Words /\ mv[d] + n \in Cells /\ d + n \in Words
         /\ B[d].wosize \in Nat /\ Whsize(B, d) = B[d].wosize + 1
<1>1. mv[d] \in Nat /\ mv[d] <= d
  BY DEF Placed
<1>2. PICK j \in ChunkNo : Packed(B, al, mv, x, d, j)
  BY DEF Placed
<1>3. d \in Nat /\ B[d].wosize \in Nat /\ Whsize(B, d) = B[d].wosize + 1
  BY BlockFacts DEF Whsize
<1>4. PICK i \in ChunkNo : First(i) <= d /\ d < Limit(i) /\ d + Whsize(B, d) <= Limit(i)
  BY BlockFacts
<1>5. /\ First(j) \in Nat /\ Limit(j) = First(j) + Size(j) /\ Size(j) \in Nat /\ al[j] \in Nat /\ al[j] <= Size(j)
      /\ First(i) \in Nat /\ Limit(i) \in Nat
  BY ChunkTypes DEF Placed
<1>6. First(j) <= mv[d] /\ mv[d] + Whsize(B, d) <= First(j) + al[j]
  BY <1>2 DEF Packed
<1>7. ASSUME NEW n \in 0 .. B[d].wosize PROVE mv[d] + n \in Words /\ mv[d] + n \in Cells /\ d + n \in Words
  <2>1. mv[d] + n \in Int /\ First(j) <= mv[d] + n /\ mv[d] + n < Limit(j)
    BY <1>1, <1>3, <1>5, <1>6
  <2>2. d + n \in Int /\ First(i) <= d + n /\ d + n < Limit(i)
    BY <1>3, <1>4, <1>5
  <2>3. QED
    BY <2>1, <2>2, WordTypes
<1>8. QED
  BY <1>1, <1>3, <1>7

\* The block at b is moved.
LEMMA ShiftWhite ==
  ASSUME NEW B, WellFormed(B), NEW al, NEW mv, NEW b \in DOMAIN mv, DOMAIN mv \subseteq Heads(B),
         Placed(B, al, mv, Beyond(b, Whsize(B, b))), NEW m, Shifted(B, m, mv, b), NEW k,
         k = [c \in Cells |-> IF c \in mv[b] .. mv[b] + Whsize(B, b) - 1 THEN m[b + c - mv[b]] ELSE m[c]]
  PROVE  Shifted(B, k, mv, Beyond(b, Whsize(B, b)))
<1> DEFINE n == Whsize(B, b)
           q == Beyond(b, n)
<1>1. b \in Nat /\ q \in Nat /\ b < q /\ b + n <= q
  BY BlockFacts, BeyondFacts
<1>2. \A h \in DOMAIN mv : h < q <=> h < b \/ h = b
  BY BeyondFacts
<1>3. /\ mv[b] \in Nat /\ mv[b] <= b
      /\ \A i \in 0 .. B[b].wosize : mv[b] + i \in Words /\ mv[b] + i \in Cells /\ b + i \in Words
      /\ B[b].wosize \in Nat /\ n = B[b].wosize + 1
  BY <1>1, PlaceWords
<1>4. k = [c \in Cells |-> k[c]]
  OBVIOUS
<1>5. \A c \in Cells : c \notin mv[b] .. mv[b] + n - 1 => k[c] = m[c]
  OBVIOUS
<1>6. \A c \in Cells : c \in mv[b] .. mv[b] + n - 1 => k[c] = m[b + c - mv[b]]
  OBVIOUS
<1>7. ASSUME NEW c \in Root PROVE k[c] = New(B, mv, c)
  <2>1. c \in Cells /\ c \in Int /\ c < 0
    BY WordTypes
  <2>2. c \notin mv[b] .. mv[b] + n - 1
    BY <2>1, <1>3
  <2>3. QED
    BY <2>1, <2>2, <1>5 DEF Shifted
<1>8. ASSUME NEW c \in Words, c >= q PROVE k[c] = New(B, mv, c)
  <2>1. c \in Cells /\ c \in Int
    BY WordTypes
  <2>2. c \notin mv[b] .. mv[b] + n - 1 /\ c >= b
    BY <2>1, <1>1, <1>3, <1>8
  <2>3. QED
    BY <2>1, <2>2, <1>5 DEF Shifted
<1>9. ASSUME NEW d \in DOMAIN mv, d < q, NEW i \in 0 .. B[d].wosize PROVE k[mv[d] + i] = New(B, mv, d + i)
  <2>1. CASE d = b
    <3>1. mv[b] + i \in Cells /\ mv[b] + i \in mv[b] .. mv[b] + n - 1 /\ b + i \in Words
      BY <2>1, <1>3
    <3>2. b + (mv[b] + i) - mv[b] = b + i /\ b + i >= b
      BY <2>1, <1>1, <1>3
    <3>3. k[mv[b] + i] = m[b + i]
      BY <3>1, <3>2, <1>6
    <3>4. QED
      BY <2>1, <3>1, <3>2, <3>3 DEF Shifted
  <2>2. CASE d # b
    <3>1. d < b
      BY <2>2, <1>2, <1>9
    <3>2. /\ mv[d] \in Nat /\ mv[d] + i \in Cells
          /\ B[d].wosize \in Nat /\ Whsize(B, d) = B[d].wosize + 1
      BY <1>9, PlaceWords
    <3>3. mv[d] + Whsize(B, d) <= mv[b] \/ mv[b] + n <= mv[d]
      BY <3>1, <1>1 DEF Placed
    <3>4. mv[d] + i \notin mv[b] .. mv[b] + n - 1
      BY <3>2, <3>3, <1>3
    <3>5. k[mv[d] + i] = m[mv[d] + i]
      BY <3>2, <3>4, <1>5
    <3>6. QED
      BY <3>1, <3>5 DEF Shifted
  <2>3. QED
    BY <2>1, <2>2
<1> HIDE DEF n, q
<1>10. Shifted(B, k, mv, q)
  BY <1>4, <1>7, <1>8, <1>9 DEF Shifted
<1>11. QED
  BY <1>10 DEF q, n

\* A free block stays behind.
LEMMA ShiftBlue ==
  ASSUME NEW B, WellFormed(B), NEW mv, NEW b \in Heads(B), b \notin DOMAIN mv, DOMAIN mv \subseteq Heads(B),
         NEW m, Shifted(B, m, mv, b)
  PROVE  Shifted(B, m, mv, Beyond(b, Whsize(B, b)))
<1> DEFINE q == Beyond(b, Whsize(B, b))
<1>1. b \in Nat /\ q \in Nat /\ b < q
  BY BlockFacts, BeyondFacts
<1>2. \A h \in DOMAIN mv : h < q <=> h < b
  BY BeyondFacts
<1>3. \A c \in Words : c >= q => c >= b
  BY <1>1, WordTypes
<1> HIDE DEF q
<1>4. Shifted(B, m, mv, q)
  BY <1>2, <1>3 DEF Shifted
<1>5. QED
  BY <1>4 DEF q

-----------------------------------------------------------------------------
(* The invariant                                                           *)

\* The place up to which the pass has come.
Pos == IF p = 0 THEN End ELSE p

Inverting == {"encode", "roots", "invert"}
Placing   == {"realloc", "move"}
Settled   == {"shrink", "rebuild", "done"}

\* When b got its place, no more was taken than by the blocks in front of it.
Replayed(B, mv, b) ==
  \E al : LET r == Room(al, Whsize(B, b)) IN Placed(B, al, mv, b) /\ r # 0 /\ mv[b] = First(r) + al[r]

ShapeInv ==
  /\ before \in Heaps /\ (trigger # "overflow" => Swept(before))
  /\ pc \in Inverting \cup Placing \cup Settled \cup {"fault"}
  /\ mem = [c \in Cells |-> mem[c]]
  /\ alloc \in [ChunkNo -> Nat] /\ \A j \in ChunkNo : alloc[j] <= Size(j)
  /\ compact_fl \in ChunkNo /\ Passed(alloc, compact_fl)
  /\ pc \in {"encode", "invert"} \cup Placing => p = 0 \/ p \in Heads(before)
  /\ pc = "roots" => p \in 0 .. Roots
  /\ pc \in {"shrink", "rebuild"} => \E i \in ChunkNo : p = First(i)

MemoryInv ==
  /\ pc = "encode" => EncodedTo(before, mem, Pos)
  /\ pc = "roots" => Threaded(before, mem, -p)
  /\ pc = "invert" => Threaded(before, mem, Pos)
  /\ pc = "realloc" => Renewed(before, mem, moved, Pos)
  /\ pc = "move" => Shifted(before, mem, moved, Pos)
  /\ pc \in Settled => Shifted(before, mem, moved, End)

PlaceInv ==
  /\ pc \in Inverting => moved = [b \in {} |-> 0]
  /\ pc = "realloc" => DOMAIN moved = Led(before, Pos)
  /\ pc = "move" \/ pc \in Settled => DOMAIN moved = Led(before, End)
  /\ pc \in Placing => Placed(before, alloc, moved, Pos) /\ \A b \in DOMAIN moved : Replayed(before, moved, b)
  /\ pc \in Settled => Placed(before, alloc, moved, End)

PassInv == ShapeInv /\ MemoryInv /\ PlaceInv

\* After the block at p the pass goes on behind it.
LEMMA PosAhead ==
  ASSUME WellFormed(before), p \in Heads(before), p' = Behind(Whsize(before, p)), before' = before
  PROVE  /\ Pos' = Beyond(p, Whsize(before, p))
         /\ p' = 0 \/ p' \in Heads(before)
         /\ Pos = p /\ p # 0
<1> DEFINE q == Beyond(p, Whsize(before, p))
<1>1. p' = IF q = End THEN 0 ELSE q
  BY BehindIs
<1>2. q \in Nat \ {0} /\ (q \in Heads(before) \/ q = End)
  BY BeyondFacts
<1>3. p # 0
  BY BlockFacts
<1> HIDE DEF q
<1>4. Pos' = q /\ (p' = 0 \/ p' \in Heads(before)) /\ Pos = p
  BY <1>1, <1>2, <1>3 DEF Pos
<1>5. QED
  BY <1>3, <1>4 DEF q

LEMMA HeapFormed == PassInv => WellFormed(before)
  BY HeapsAssumption DEF PassInv, ShapeInv

LEMMA EncodeInv ==
  ASSUME PassInv, Encode PROVE PassInv'
<1> DEFINE n == Whsize(before, p)
           q == Beyond(p, n)
<1>1. WellFormed(before) /\ p \in Heads(before) /\ p # 0 /\ pc = "encode" /\ Pos = p
  BY HeapFormed DEF PassInv, ShapeInv, Encode, Pos
<1>2. EncodedTo(before, mem, p)
  BY <1>1 DEF PassInv, MemoryInv
<1>3. mem[p] = before[p] /\ EncodedTo(before, [mem EXCEPT ![p] = Ehd(mem[p].wosize, EncodedTag(mem[p]))], q)
  BY <1>1, <1>2, EncodeStep
<1>4. mem' = [mem EXCEPT ![p] = Ehd(mem[p].wosize, EncodedTag(mem[p]))]
  BY DEF Encode
<1>5. UNCHANGED <<heap, alloc, compact_fl, pc, fl, fl_cur_size, trigger, before, moved>>
  BY DEF Encode
<1>6. p' = Behind(n)
  <2>1. mem[p].wosize + 1 = n
    BY <1>3 DEF Whsize
  <2>2. QED
    BY <2>1 DEF Encode
<1>7. Pos' = q /\ (p' = 0 \/ p' \in Heads(before))
  BY <1>1, <1>5, <1>6, PosAhead
<1> HIDE DEF q, n
<1>8. EncodedTo(before, mem, Pos)'
  BY <1>3, <1>4, <1>5, <1>7
<1>9. MemoryInv'
  BY <1>1, <1>5, <1>8 DEF MemoryInv, Settled
<1>10. ShapeInv'
  <2>1. mem' = [c \in Cells |-> mem'[c]]
    BY <1>8 DEF EncodedTo
  <2>2. QED
    BY <2>1, <1>1, <1>5, <1>7 DEF ShapeInv, PassInv
<1>11. PlaceInv'
  BY <1>1, <1>5 DEF PlaceInv, PassInv, Inverting, Placing, Settled
<1>12. QED
  BY <1>9, <1>10, <1>11 DEF PassInv

LEMMA InvertRootInv ==
  ASSUME PassInv, InvertRoot PROVE PassInv'
<1>1. WellFormed(before) /\ p \in 1 .. Roots /\ p # 0 /\ pc = "roots" /\ Roots \in Nat
  BY HeapFormed, SizesAssumption DEF PassInv, ShapeInv, InvertRoot
<1>2. -p \in Root
  BY <1>1 DEF Root
<1>3. Threaded(before, mem, -p)
  BY <1>1 DEF PassInv, MemoryInv
<1>4. Threaded(before, invert_pointer_at(mem, -p), -p + 1)
  BY <1>1, <1>2, <1>3, RootStep
<1>5. mem' = invert_pointer_at(mem, -p) /\ p' = p - 1
      /\ UNCHANGED <<heap, alloc, compact_fl, pc, fl, fl_cur_size, trigger, before, moved>>
  BY DEF InvertRoot
<1>6. -p' = -p + 1 /\ p' \in 0 .. Roots
  BY <1>1, <1>5
<1>7. Threaded(before, mem, -p)'
  BY <1>4, <1>5, <1>6
<1>8. MemoryInv'
  BY <1>1, <1>5, <1>7 DEF MemoryInv, Settled
<1>9. ShapeInv'
  <2>1. mem' = [c \in Cells |-> mem'[c]]
    BY <1>7 DEF Threaded
  <2>2. QED
    BY <2>1, <1>1, <1>5, <1>6 DEF ShapeInv, PassInv, Placing
<1>10. PlaceInv'
  BY <1>1, <1>5 DEF PlaceInv, PassInv, Inverting, Placing, Settled
<1>11. QED
  BY <1>8, <1>9, <1>10 DEF PassInv

LEMMA InvertBlockInv ==
  ASSUME PassInv, InvertBlock PROVE PassInv'
<1> DEFINE n == Whsize(before, p)
           q == Beyond(p, n)
           hd == Original(mem, p)
<1>1. WellFormed(before) /\ p \in Heads(before) /\ p # 0 /\ pc = "invert" /\ Pos = p
  BY HeapFormed DEF PassInv, ShapeInv, InvertBlock, Pos
<1>2. Threaded(before, mem, p)
  BY <1>1 DEF PassInv, MemoryInv
<1>3. hd = Encoded(before, p)
      /\ Threaded(before, IF hd.tag = "scan" THEN Done(mem, p, hd.wosize) ELSE mem, q)
  BY <1>1, <1>2, InvertStep
<1>4. /\ mem' = (IF hd.tag = "scan" THEN Done(mem, p, hd.wosize) ELSE mem)
      /\ p' = Behind(hd.wosize + 1)
  BY DEF InvertBlock, Done
<1>5. UNCHANGED <<heap, alloc, compact_fl, pc, fl, fl_cur_size, trigger, before, moved>>
  BY DEF InvertBlock
<1>6. p' = Behind(n)
  <2>1. hd.wosize + 1 = n
    BY <1>3 DEF Whsize, Encoded, Ehd
  <2>2. QED
    BY <2>1, <1>4
<1>7. Pos' = q /\ (p' = 0 \/ p' \in Heads(before))
  BY <1>1, <1>5, <1>6, PosAhead
<1> HIDE DEF q, n
<1>8. Threaded(before, mem, Pos)'
  BY <1>3, <1>4, <1>5, <1>7
<1>9. MemoryInv'
  BY <1>1, <1>5, <1>8 DEF MemoryInv, Settled
<1>10. ShapeInv'
  <2>1. mem' = [c \in Cells |-> mem'[c]]
    BY <1>8 DEF Threaded
  <2>2. QED
    BY <2>1, <1>1, <1>5, <1>7 DEF ShapeInv, PassInv
<1>11. PlaceInv'
  BY <1>1, <1>5 DEF PlaceInv, PassInv, Inverting, Placing, Settled
<1>12. QED
  BY <1>9, <1>10, <1>11 DEF PassInv

\* compact_allocate for the block at p.
LEMMA AllocateStep ==
  ASSUME ShapeInv, WellFormed(before), p \in Heads(before), NEW n, n = Whsize(before, p), Allocate(n),
         NEW mv, Placed(before, alloc, mv, p), DOMAIN mv \subseteq Heads(before)
  PROVE  LET r == Room(alloc, n)
         IN /\ r # 0 /\ r \in ChunkNo /\ Address(n) = First(r) + alloc[r]
            /\ alloc' = [alloc EXCEPT ![r] = @ + n]
            /\ alloc' \in [ChunkNo -> Nat] /\ \A j \in ChunkNo : alloc'[j] <= Size(j)
            /\ compact_fl' \in ChunkNo /\ Passed(alloc', compact_fl')
<1> DEFINE r == Room(alloc, n)
<1>1. alloc \in [ChunkNo -> Nat] /\ (\A j \in ChunkNo : alloc[j] <= Size(j))
      /\ compact_fl \in ChunkNo /\ Passed(alloc, compact_fl)
  BY DEF ShapeInv
<1>2. Roomy(n) = r /\ Roomy(n) # 0 /\ Advanced \in ChunkNo /\ Passed(alloc, Advanced)
  BY <1>1, RoomyIs DEF Allocate
<1>3. r \in ChunkNo /\ Size(r) - alloc[r] >= n
  BY <1>2, NoHigher
<1>4. n \in Nat \ {0}
  BY BlockFacts
<1> HIDE DEF r
<1>5. alloc' = [alloc EXCEPT ![r] = @ + n] /\ compact_fl' = Advanced
  BY <1>2 DEF Allocate
<1>6. \A j \in ChunkNo : /\ alloc[j] \in Nat /\ Size(j) \in Nat /\ Slack \in Nat /\ j \in Nat
                         /\ alloc'[j] = (IF j = r THEN alloc[j] + n ELSE alloc[j])
  BY <1>1, <1>5, ChunkTypes
<1>7. alloc' \in [ChunkNo -> Nat]
  BY <1>1, <1>3, <1>4, <1>5
<1>8. \A j \in ChunkNo : alloc'[j] <= Size(j) /\ alloc[j] <= alloc'[j]
  BY <1>1, <1>3, <1>4, <1>6
<1>9. Passed(alloc', Advanced)
  <2> SUFFICES ASSUME NEW i \in ChunkNo, i < Advanced PROVE FullIn(alloc', i) /\ FullIn(alloc', i + 1)
    BY DEF Passed
  <2>1. i + 1 \in ChunkNo
    <3>1. Advanced \in 1 .. Last /\ i \in 1 .. Last /\ Last \in Nat /\ ChunkNo = 1 .. Last
      BY <1>2, ChunkTypes DEF ChunkNo, Last
    <3>2. QED
      BY <3>1
  <2>2. FullIn(alloc, i) /\ FullIn(alloc, i + 1)
    BY <1>2 DEF Passed
  <2>3. alloc'[i] \in Nat /\ alloc'[i + 1] \in Nat
    BY <1>7, <2>1
  <2>4. QED
    BY <2>1, <2>2, <2>3, <1>6, <1>8 DEF FullIn
<1>10. Address(n) = First(r) + alloc[r]
  BY <1>2 DEF Address
<1>11. QED
  BY <1>2, <1>3, <1>5, <1>7, <1>8, <1>9, <1>10 DEF r

LEMMA ReallocateInv ==
  ASSUME PassInv, Reallocate PROVE PassInv'
<1> DEFINE n == Whsize(before, p)
           q == Beyond(p, n)
           hd == Original(mem, p)
<1>1. WellFormed(before) /\ p \in Heads(before) /\ p # 0 /\ pc = "realloc" /\ Pos = p /\ p \in Int
  BY HeapFormed, HeadsFrom DEF PassInv, ShapeInv, Reallocate, Pos, Placing
<1>2. /\ Renewed(before, mem, moved, p) /\ DOMAIN moved = Led(before, p)
      /\ Placed(before, alloc, moved, p) /\ \A b \in DOMAIN moved : Replayed(before, moved, b)
  BY <1>1 DEF PassInv, MemoryInv, PlaceInv, Placing
<1>3. /\ hd = Encoded(before, p) /\ Listed(mem, p) = Leading(before, p, End)
      /\ (mem[p].kind = "ptr" <=> Leading(before, p, End) # {})
  BY <1>1, <1>2, RenewFinds
<1>4. hd.wosize = before[p].wosize /\ hd.tag = EncodedTag(before[p]) /\ hd.wosize + 1 = n
  BY <1>3 DEF Encoded, Ehd, Whsize
<1>5. UNCHANGED <<heap, pc, fl, fl_cur_size, trigger, before>> /\ p' = Behind(n)
  BY <1>4 DEF Reallocate
<1>6. Pos' = q /\ (p' = 0 \/ p' \in Heads(before))
  BY <1>1, <1>5, PosAhead
<1>7. DOMAIN moved \subseteq Heads(before) /\ p \notin DOMAIN moved /\ \A d \in DOMAIN moved : d < p /\ d \in Int
  <2>1. \A d \in Heads(before) : d \in Int
    BY <1>1, HeadsFrom
  <2>2. \A d \in DOMAIN moved : d \in Heads(before) /\ d < p
    BY <1>2 DEF Led
  <2>3. ~(p < p)
    BY <1>1
  <2>4. QED
    BY <2>1, <2>2, <2>3
<1>8. CASE mem[p].kind = "ptr"
  <2> DEFINE to == Address(n)
             r == Room(alloc, n)
  <2>1. /\ Allocate(n)
        /\ mem' = [c \in Cells |-> IF c = p THEN Hd(before[p].wosize, EncodedTag(before[p]), "white")
                                   ELSE IF c \in Leading(before, p, End) THEN Ptr(to + 1) ELSE mem[c]]
        /\ moved' = [b \in DOMAIN moved \cup {p} |-> IF b = p THEN to ELSE moved[b]]
    <3> HIDE DEF n
    <3>1. QED
      BY <1>8, <1>3, <1>4 DEF Reallocate
  <2>2. Renewed(before, mem', moved', q) /\ DOMAIN moved' = Led(before, q)
    <3> HIDE DEF to
    <3>1. Leading(before, p, End) # {} /\ WellFormed(before) /\ p \in Heads(before)
      BY <1>1, <1>3, <1>8
    <3>2. QED
      BY <3>1, <2>1, <1>2, RenewWhite
  <2>3. /\ r # 0 /\ r \in ChunkNo /\ to = First(r) + alloc[r]
        /\ alloc' = [alloc EXCEPT ![r] = @ + n]
        /\ alloc' \in [ChunkNo -> Nat] /\ \A j \in ChunkNo : alloc'[j] <= Size(j)
        /\ compact_fl' \in ChunkNo /\ Passed(alloc', compact_fl')
    BY <1>1, <1>2, <1>7, <2>1, AllocateStep DEF PassInv
  <2> HIDE DEF r, to, n, q
  <2>4. /\ DOMAIN moved' = DOMAIN moved \cup {p} /\ moved'[p] = to
        /\ \A d \in DOMAIN moved : d # p /\ moved'[d] = moved[d]
    BY <1>7, <2>1
  <2>5. ASSUME NEW x \in Int, x <= p PROVE Agree(moved, moved', x)
    <3>1. ~(p < x)
      BY <2>5, <1>1
    <3>2. QED
      BY <2>4, <3>1 DEF Agree
  <2>6. DOMAIN moved' \subseteq Heads(before) /\ \A d \in DOMAIN moved' : d \in Int
    BY <1>1, <1>7, <2>4
  <2>7. Placed(before, alloc, moved', p)
    <3>1. Agree(moved, moved', p)
      BY <1>1, <2>5
    <3>2. QED
      BY <3>1, <1>1, <1>2, <2>6, PlacedSame
  <2>8. Placed(before, alloc', moved', q)
    BY <1>1, <2>3, <2>4, <2>6, <2>7, PlaceBlock DEF r, n, q
  <2>9. ASSUME NEW b \in DOMAIN moved' PROVE Replayed(before, moved', b)
    <3>1. CASE b = p
      BY <3>1, <2>3, <2>4, <2>7 DEF Replayed, r, n
    <3>2. CASE b # p
      <4>1. b \in DOMAIN moved /\ b \in Int /\ b <= p /\ moved'[b] = moved[b]
        BY <3>2, <2>4, <1>1, <1>7
      <4>2. PICK al : LET s == Room(al, Whsize(before, b))
                      IN Placed(before, al, moved, b) /\ s # 0 /\ moved[b] = First(s) + al[s]
        BY <4>1, <1>2 DEF Replayed
      <4>3. Agree(moved, moved', b)
        BY <4>1, <2>5
      <4>4. Placed(before, al, moved', b)
        BY <4>1, <4>2, <4>3, <2>6, PlacedSame
      <4>5. QED
        BY <4>1, <4>2, <4>4 DEF Replayed
    <3>3. QED
      BY <3>1, <3>2
  <2>10. MemoryInv'
    BY <1>1, <1>5, <1>6, <2>2 DEF MemoryInv, Settled
  <2>11. ShapeInv'
    <3>1. mem' = [c \in Cells |-> mem'[c]]
      BY <2>1
    <3>2. QED
      BY <3>1, <1>1, <1>5, <1>6, <2>3 DEF ShapeInv, PassInv
  <2>12. PlaceInv'
    BY <1>1, <1>5, <1>6, <2>2, <2>8, <2>9 DEF PlaceInv, Inverting, Placing, Settled
  <2>13. QED
    BY <2>10, <2>11, <2>12 DEF PassInv
<1>9. CASE mem[p].kind # "ptr"
  <2>1. /\ mem' = [mem EXCEPT ![p] = Hd(before[p].wosize, EncodedTag(before[p]), "blue")]
        /\ UNCHANGED <<alloc, compact_fl, moved>>
    BY <1>9, <1>4 DEF Reallocate
  <2>2. Renewed(before, mem', moved, q) /\ DOMAIN moved = Led(before, q)
    BY <1>1, <1>2, <1>3, <1>9, <2>1, RenewBlue
  <2>3. Placed(before, alloc, moved, q)
    BY <1>1, <1>2, <1>7, PlaceNone
  <2> HIDE DEF n, q
  <2>4. MemoryInv'
    BY <1>1, <1>5, <1>6, <2>1, <2>2 DEF MemoryInv, Settled
  <2>5. ShapeInv'
    <3>1. mem' = [c \in Cells |-> mem'[c]]
      BY <2>2 DEF Renewed
    <3>2. QED
      BY <3>1, <1>1, <1>5, <1>6, <2>1 DEF ShapeInv, PassInv
  <2>6. PlaceInv'
    BY <1>1, <1>2, <1>5, <1>6, <2>1, <2>2, <2>3 DEF PlaceInv, Inverting, Placing, Settled
  <2>7. QED
    BY <2>4, <2>5, <2>6 DEF PassInv
<1>10. QED
  BY <1>8, <1>9

LEMMA MoveInv ==
  ASSUME PassInv, Move PROVE PassInv'
<1> DEFINE n == Whsize(before, p)
           q == Beyond(p, n)
<1>1. WellFormed(before) /\ p \in Heads(before) /\ p # 0 /\ pc = "move" /\ Pos = p
  BY HeapFormed DEF PassInv, ShapeInv, Move, Pos, Placing
<1>2. /\ Shifted(before, mem, moved, p) /\ DOMAIN moved = Led(before, End)
      /\ Placed(before, alloc, moved, p) /\ \A b \in DOMAIN moved : Replayed(before, moved, b)
  BY <1>1 DEF PassInv, MemoryInv, PlaceInv, Placing
<1>3. /\ mem[p].wosize = before[p].wosize /\ mem[p].wosize + 1 = n
      /\ mem[p].color \in {"white", "blue"} /\ (mem[p].color = "white" <=> p \in DOMAIN moved)
  BY <1>1, <1>2, ShiftFinds DEF Whsize
<1>4. UNCHANGED <<heap, pc, fl, fl_cur_size, trigger, before, moved>> /\ p' = Behind(n)
  BY <1>3 DEF Move
<1>5. Pos' = q /\ (p' = 0 \/ p' \in Heads(before))
  BY <1>1, <1>4, PosAhead
<1>6. DOMAIN moved \subseteq Heads(before)
  BY <1>2 DEF Led
<1>7. CASE mem[p].color = "white"
  <2> DEFINE to == Address(n)
             r == Room(alloc, n)
  <2>1. /\ Allocate(n) /\ p \in DOMAIN moved
        /\ mem' = [c \in Cells |-> IF c \in to .. to + n - 1 THEN mem[p + c - to] ELSE mem[c]]
    <3>1. mem[p].color # "blue"
      BY <1>7
    <3> HIDE DEF n
    <3>2. QED
      BY <3>1, <1>7, <1>3 DEF Move
  <2>2. /\ r # 0 /\ r \in ChunkNo /\ to = First(r) + alloc[r]
        /\ alloc' = [alloc EXCEPT ![r] = @ + n]
        /\ alloc' \in [ChunkNo -> Nat] /\ \A j \in ChunkNo : alloc'[j] <= Size(j)
        /\ compact_fl' \in ChunkNo /\ Passed(alloc', compact_fl')
    BY <1>1, <1>2, <1>6, <2>1, AllocateStep DEF PassInv
  <2>3. moved[p] = to
    <3>1. PICK al : LET s == Room(al, n) IN Placed(before, al, moved, p) /\ s # 0 /\ moved[p] = First(s) + al[s]
      BY <1>2, <2>1 DEF Replayed
    <3>2. \A j \in ChunkNo : al[j] <= alloc[j] /\ alloc[j] <= al[j]
      BY <1>1, <1>2, <1>6, <3>1, PlacedOnce
    <3>3. al \in [ChunkNo -> Nat] /\ alloc \in [ChunkNo -> Nat]
      BY <1>2, <3>1 DEF Placed
    <3>4. \A j \in ChunkNo : al[j] = alloc[j]
      BY <3>2, <3>3
    <3>5. al = alloc
      BY <3>3, <3>4
    <3>6. QED
      BY <3>1, <3>5, <2>2
  <2>4. Placed(before, alloc', moved, q)
    <3> HIDE DEF to
    <3>1. QED
      BY <1>1, <1>2, <1>6, <2>1, <2>2, <2>3, PlaceBlock
  <2>5. Shifted(before, mem', moved, q)
    <3>1. mem' = [c \in Cells |-> IF c \in moved[p] .. moved[p] + n - 1 THEN mem[p + c - moved[p]] ELSE mem[c]]
      <4> HIDE DEF to
      <4>1. QED
        BY <2>1, <2>3
    <3> HIDE DEF to, r
    <3>2. QED
      BY <3>1, <1>1, <1>2, <1>6, <2>1, <2>4, ShiftWhite
  <2> HIDE DEF to, r, n, q
  <2>6. MemoryInv'
    BY <1>1, <1>4, <1>5, <2>5 DEF MemoryInv, Settled
  <2>7. ShapeInv'
    <3>1. mem' = [c \in Cells |-> mem'[c]]
      BY <2>5 DEF Shifted
    <3>2. QED
      BY <3>1, <1>1, <1>4, <1>5, <2>2 DEF ShapeInv, PassInv
  <2>8. PlaceInv'
    BY <1>1, <1>2, <1>4, <1>5, <2>4 DEF PlaceInv, Inverting, Placing, Settled
  <2>9. QED
    BY <2>6, <2>7, <2>8 DEF PassInv
<1>8. CASE mem[p].color = "blue"
  <2>1. UNCHANGED <<mem, alloc, compact_fl>> /\ p \notin DOMAIN moved
    BY <1>8, <1>3 DEF Move
  <2>2. Shifted(before, mem, moved, q)
    BY <1>1, <1>2, <1>6, <2>1, ShiftBlue
  <2>3. Placed(before, alloc, moved, q)
    BY <1>1, <1>2, <1>6, <2>1, PlaceNone
  <2> HIDE DEF n, q
  <2>4. MemoryInv'
    BY <1>1, <1>4, <1>5, <2>1, <2>2 DEF MemoryInv, Settled
  <2>5. ShapeInv'
    BY <1>1, <1>4, <1>5, <2>1 DEF ShapeInv, PassInv
  <2>6. PlaceInv'
    BY <1>1, <1>2, <1>4, <1>5, <2>1, <2>3 DEF PlaceInv, Inverting, Placing, Settled
  <2>7. QED
    BY <2>4, <2>5, <2>6 DEF PassInv
<1>9. QED
  BY <1>3, <1>7, <1>8

LEMMA PassEnds ==
  ASSUME NextPass
  PROVE  /\ p = 0 /\ UNCHANGED <<mem, heap, fl, fl_cur_size, trigger, before, moved>>
         /\ \/ pc = "encode" /\ pc' = "roots" /\ p' = Roots /\ UNCHANGED <<alloc, compact_fl>>
            \/ pc = "roots" /\ pc' = "invert" /\ p' = First(1) /\ UNCHANGED <<alloc, compact_fl>>
            \/ pc = "invert" /\ pc' = "realloc" /\ p' = First(1)
               /\ alloc' = [i \in ChunkNo |-> 0] /\ compact_fl' = 1
            \/ pc = "realloc" /\ pc' = "move" /\ p' = First(1)
               /\ alloc' = [i \in ChunkNo |-> 0] /\ compact_fl' = 1
            \/ pc = "move" /\ pc' = "shrink" /\ p' = First(1) /\ UNCHANGED <<alloc, compact_fl>>
<1>1. p = 0 /\ UNCHANGED <<mem, heap, fl, fl_cur_size, trigger, before, moved>>
  BY DEF NextPass
<1>2. PICK n \in 1 .. Len(Passes) - 1 :
         pc = Passes[n] /\ pc' = Passes[n + 1] /\ p' = IF pc' = "roots" THEN Roots ELSE First(1)
  BY DEF NextPass
<1>3. IF pc' \in {"realloc", "move"}
      THEN alloc' = [i \in ChunkNo |-> 0] /\ compact_fl' = 1
      ELSE UNCHANGED <<alloc, compact_fl>>
  BY DEF NextPass
<1>4. Len(Passes) = 6 /\ Passes[1] = "encode" /\ Passes[2] = "roots" /\ Passes[3] = "invert"
      /\ Passes[4] = "realloc" /\ Passes[5] = "move" /\ Passes[6] = "shrink"
  BY DEF Passes
<1>5. n = 1 \/ n = 2 \/ n = 3 \/ n = 4 \/ n = 5
  BY <1>2, <1>4
<1>6. CASE n = 1
  BY <1>1, <1>2, <1>3, <1>4, <1>6
<1>7. CASE n = 2
  BY <1>1, <1>2, <1>3, <1>4, <1>7
<1>8. CASE n = 3
  BY <1>1, <1>2, <1>3, <1>4, <1>8
<1>9. CASE n = 4
  BY <1>1, <1>2, <1>3, <1>4, <1>9
<1>10. CASE n = 5
  BY <1>1, <1>2, <1>3, <1>4, <1>10
<1>11. QED
  BY <1>5, <1>6, <1>7, <1>8, <1>9, <1>10

\* The first block is at the start of the first chunk.
LEMMA FirstBlock ==
  ASSUME NEW B, WellFormed(B)
  PROVE  First(1) \in Heads(B) /\ First(1) # 0 /\ First(1) \in Int /\ 1 \in ChunkNo
  BY ChunkTypes, BlockFacts

LEMMA NothingTaken ==
  ASSUME NEW al, al = [i \in ChunkNo |-> 0]
  PROVE  al \in [ChunkNo -> Nat] /\ (\A j \in ChunkNo : al[j] <= Size(j)) /\ Passed(al, 1)
<1>1. al \in [ChunkNo -> Nat] /\ \A j \in ChunkNo : al[j] <= Size(j)
  BY ChunkTypes
<1>2. \A i \in ChunkNo : ~(i < 1)
  BY ChunkTypes
<1>3. QED
  BY <1>1, <1>2 DEF Passed

LEMMA NextPassInv ==
  ASSUME PassInv, NextPass PROVE PassInv'
<1>1. WellFormed(before) /\ p = 0 /\ Pos = End /\ UNCHANGED <<mem, heap, fl, fl_cur_size, trigger, before, moved>>
  BY HeapFormed, PassEnds DEF Pos
<1>2. First(1) \in Heads(before) /\ First(1) # 0 /\ First(1) \in Int /\ 1 \in ChunkNo
  BY <1>1, FirstBlock
<1>3. p' = First(1) => Pos' = First(1)
  BY <1>2 DEF Pos
<1>4. CASE pc = "encode" /\ pc' = "roots" /\ p' = Roots /\ UNCHANGED <<alloc, compact_fl>>
  <2>1. EncodedTo(before, mem, End)
    BY <1>1, <1>4 DEF PassInv, MemoryInv
  <2>2. Threaded(before, mem, -Roots)
    BY <1>1, <2>1, ThreadStart
  <2>3. MemoryInv'
    BY <1>1, <1>4, <2>2 DEF MemoryInv, Settled
  <2>4. ShapeInv'
    BY <1>1, <1>4, SizesAssumption DEF ShapeInv, PassInv, Inverting, Placing
  <2>5. PlaceInv'
    BY <1>1, <1>4 DEF PlaceInv, PassInv, Inverting, Placing, Settled
  <2>6. QED
    BY <2>3, <2>4, <2>5 DEF PassInv
<1>5. CASE pc = "roots" /\ pc' = "invert" /\ p' = First(1) /\ UNCHANGED <<alloc, compact_fl>>
  <2>1. Threaded(before, mem, 0)
    BY <1>1, <1>5 DEF PassInv, MemoryInv
  <2>2. Threaded(before, mem, First(1))
    <3>1. ASSUME NEW c \in Scanned(before) PROVE c < 0 <=> c < First(1)
      <4>1. c \in Cells
        BY <1>1, ScannedFacts
      <4>2. CASE c \in Root
        BY <4>2, <1>2, WordTypes, ChunkTypes
      <4>3. CASE c \in Words
        <5>1. PICK i \in ChunkNo : First(i) <= c /\ c < Limit(i)
          BY <4>3, WordTypes
        <5>2. i = 1 \/ 1 < i
          BY ChunkTypes
        <5>3. 1 < i => Limit(1) < First(i)
          BY <1>2, ChunkOrder
        <5>4. First(1) < Limit(1) /\ First(1) \in Nat /\ Limit(1) \in Nat /\ First(i) \in Nat /\ c \in Nat
          BY <4>3, <1>2, ChunkTypes, WordTypes
        <5>5. QED
          BY <5>1, <5>2, <5>3, <5>4
      <4>4. QED
        BY <4>1, <4>2, <4>3 DEF Cells
    <3>2. QED
      BY <3>1, <2>1, <1>1, <1>2, ThreadSkip
  <2>3. MemoryInv'
    BY <1>1, <1>3, <1>5, <2>2 DEF MemoryInv, Settled
  <2>4. ShapeInv'
    BY <1>1, <1>2, <1>5 DEF ShapeInv, PassInv, Inverting, Placing
  <2>5. PlaceInv'
    BY <1>1, <1>5 DEF PlaceInv, PassInv, Inverting, Placing, Settled
  <2>6. QED
    BY <2>3, <2>4, <2>5 DEF PassInv
<1>6. CASE pc = "invert" /\ pc' = "realloc" /\ p' = First(1) /\ alloc' = [i \in ChunkNo |-> 0] /\ compact_fl' = 1
  <2>1. Threaded(before, mem, End) /\ DOMAIN moved = {} /\ DOMAIN moved \subseteq Heads(before)
    BY <1>1, <1>6 DEF PassInv, MemoryInv, PlaceInv, Inverting
  <2>2. Renewed(before, mem, moved, First(1))
    BY <1>1, <2>1, RenewStart
  <2>3. Led(before, First(1)) = {}
    BY <1>1, HeadsFrom DEF Led
  <2>4. Placed(before, alloc', moved, First(1))
    BY <1>1, <1>6, <2>1, PlaceStart
  <2>5. alloc' \in [ChunkNo -> Nat] /\ (\A j \in ChunkNo : alloc'[j] <= Size(j)) /\ Passed(alloc', 1)
    BY <1>6, NothingTaken
  <2>6. MemoryInv'
    BY <1>1, <1>3, <1>6, <2>2 DEF MemoryInv, Settled
  <2>7. ShapeInv'
    BY <1>1, <1>2, <1>6, <2>5 DEF ShapeInv, PassInv, Inverting, Placing
  <2>8. PlaceInv'
    BY <1>1, <1>3, <1>6, <2>1, <2>3, <2>4 DEF PlaceInv, Inverting, Placing, Settled
  <2>9. QED
    BY <2>6, <2>7, <2>8 DEF PassInv
<1>7. CASE pc = "realloc" /\ pc' = "move" /\ p' = First(1) /\ alloc' = [i \in ChunkNo |-> 0] /\ compact_fl' = 1
  <2>1. Renewed(before, mem, moved, End) /\ DOMAIN moved = Led(before, End)
        /\ \A b \in DOMAIN moved : Replayed(before, moved, b)
    BY <1>1, <1>7 DEF PassInv, MemoryInv, PlaceInv, Placing
  <2>2. DOMAIN moved \subseteq Heads(before)
    BY <2>1 DEF Led
  <2>3. Shifted(before, mem, moved, First(1))
    BY <1>1, <2>1, <2>2, ShiftStart
  <2>4. Placed(before, alloc', moved, First(1))
    BY <1>1, <1>7, <2>2, PlaceStart
  <2>5. alloc' \in [ChunkNo -> Nat] /\ (\A j \in ChunkNo : alloc'[j] <= Size(j)) /\ Passed(alloc', 1)
    BY <1>7, NothingTaken
  <2>6. MemoryInv'
    BY <1>1, <1>3, <1>7, <2>3 DEF MemoryInv, Settled
  <2>7. ShapeInv'
    BY <1>1, <1>2, <1>7, <2>5 DEF ShapeInv, PassInv, Inverting, Placing
  <2>8. PlaceInv'
    BY <1>1, <1>3, <1>7, <2>1, <2>4 DEF PlaceInv, Inverting, Placing, Settled
  <2>9. QED
    BY <2>6, <2>7, <2>8 DEF PassInv
<1>8. CASE pc = "move" /\ pc' = "shrink" /\ p' = First(1) /\ UNCHANGED <<alloc, compact_fl>>
  <2>1. /\ Shifted(before, mem, moved, End) /\ DOMAIN moved = Led(before, End) /\ Placed(before, alloc, moved, End)
    BY <1>1, <1>8 DEF PassInv, MemoryInv, PlaceInv, Placing
  <2>2. MemoryInv'
    BY <1>1, <1>8, <2>1 DEF MemoryInv, Settled
  <2>3. ShapeInv'
    BY <1>1, <1>2, <1>8 DEF ShapeInv, PassInv, Settled, Placing
  <2>4. PlaceInv'
    BY <1>1, <1>8, <2>1 DEF PlaceInv, Inverting, Placing, Settled
  <2>5. QED
    BY <2>2, <2>3, <2>4 DEF PassInv
<1>9. QED
  BY <1>4, <1>5, <1>6, <1>7, <1>8, PassEnds

LEMMA ShrinkInv ==
  ASSUME PassInv, Shrink PROVE PassInv'
<1>1. pc = "shrink" /\ pc' = "rebuild" /\ UNCHANGED <<mem, alloc, compact_fl, p, fl, fl_cur_size, trigger, before, moved>>
  BY DEF Shrink
<1>2. MemoryInv'
  BY <1>1 DEF PassInv, MemoryInv, Settled
<1>3. ShapeInv'
  BY <1>1 DEF ShapeInv, PassInv, Settled, Placing
<1>4. PlaceInv'
  BY <1>1 DEF PlaceInv, PassInv, Inverting, Placing, Settled
<1>5. QED
  BY <1>2, <1>3, <1>4 DEF PassInv

\* What is left of a chunk begins behind the blocks that have been moved into it.
LEMMA RestFree ==
  ASSUME PassInv, pc \in Settled, NEW i \in ChunkNo
  PROVE  /\ Left[i] \in Nat /\ Left[i] = Size(i) - alloc[i] /\ RestOf(i) = First(i) + alloc[i] /\ RestOf(i) \in Nat
         /\ RestOf(i) + Left[i] = Limit(i) /\ First(i) <= RestOf(i) /\ RestOf(i) <= Limit(i)
         /\ alloc[i] \in Nat
         /\ Left[i] > 0 => RestOf(i) \in Words /\ RestOf(i) \notin Root
         /\ Left[i] > 0 => \A d \in DOMAIN moved : \A n \in 0 .. before[d].wosize : moved[d] + n # RestOf(i)
<1>1. alloc[i] \in Nat /\ alloc[i] <= Size(i)
  BY DEF PassInv, ShapeInv
<1>2. First(i) \in Nat /\ Size(i) \in Nat /\ Limit(i) = First(i) + Size(i) /\ Limit(i) \in Nat
  BY ChunkTypes
<1>3. Left[i] = Size(i) - alloc[i]
  BY DEF Left
<1>4. RestOf(i) = First(i) + alloc[i]
  BY DEF RestOf
<1>5. Left[i] \in Nat /\ RestOf(i) \in Nat /\ RestOf(i) + Left[i] = Limit(i) /\ First(i) <= RestOf(i) /\ RestOf(i) <= Limit(i)
  BY <1>1, <1>2, <1>3, <1>4
<1>6. Left[i] > 0 => RestOf(i) \in Words /\ RestOf(i) \notin Root
  <2>1. RestOf(i) \in Int
    BY <1>5
  <2>2. Left[i] > 0 => RestOf(i) < Limit(i)
    BY <1>2, <1>5
  <2>3. Left[i] > 0 => RestOf(i) \in Words
    BY <2>1, <2>2, <1>5, WordTypes
  <2>4. QED
    BY <2>3, WordTypes
<1>7. ASSUME Left[i] > 0, NEW d \in DOMAIN moved, NEW n \in 0 .. before[d].wosize, moved[d] + n = RestOf(i) PROVE FALSE
  <2>1. WellFormed(before) /\ d \in Heads(before) /\ Placed(before, alloc, moved, End)
    BY HeapFormed DEF PassInv, PlaceInv, Led
  <2>2. d < End /\ before[d].wosize \in Nat /\ Whsize(before, d) = before[d].wosize + 1
    BY <2>1, HeadsFrom, BlockFacts DEF Whsize
  <2>3. moved[d] \in Nat
    BY <2>1, <2>2 DEF Placed
  <2>4. PICK j \in ChunkNo : Packed(before, alloc, moved, End, d, j)
    BY <2>1, <2>2 DEF Placed
  <2>5. First(j) <= moved[d] /\ moved[d] + Whsize(before, d) <= First(j) + alloc[j]
    BY <2>4 DEF Packed
  <2>6. alloc[j] \in Nat /\ alloc[j] <= Size(j) /\ First(j) \in Nat /\ Size(j) \in Nat /\ Limit(j) = First(j) + Size(j)
    BY ChunkTypes DEF PassInv, ShapeInv
  <2> DEFINE c == moved[d] + n
  <2>7. c \in Int /\ First(j) <= c /\ c < First(j) + alloc[j] /\ c <= Limit(j)
    BY <2>2, <2>3, <2>5, <2>6
  <2>8. First(i) <= c /\ c <= Limit(i) /\ c = First(i) + alloc[i]
    BY <1>4, <1>5, <1>7
  <2>9. j = i
    <3> HIDE DEF c
    <3>1. QED
      BY <2>7, <2>8, SameChunk
  <2>10. QED
    BY <2>7, <2>8, <2>9, <1>1, <1>2
<1>8. QED
  BY <1>1, <1>3, <1>4, <1>5, <1>6, <1>7

LEMMA RebuildInv ==
  ASSUME PassInv, Rebuild PROVE PassInv'
<1>1. PICK i \in ChunkNo : p = First(i)
  BY DEF PassInv, ShapeInv, Rebuild
<1>2. ChunkOf(p) = i
  <2>1. First(i) \in Int /\ First(i) <= First(i) /\ First(i) < Limit(i)
    BY ChunkTypes
  <2>2. QED
    BY <1>1, <2>1, ChunkOfIs
<1>3. /\ pc = "rebuild" /\ UNCHANGED <<heap, alloc, compact_fl, trigger, before, moved>>
      /\ (pc' = "rebuild" /\ i < Len(Chunks) /\ p' = First(i + 1)) \/ (pc' = "done" /\ p' = 0)
      /\ mem' = mem \/ (Left[i] > 0 /\ \E hd : mem' = [mem EXCEPT ![RestOf(i)] = hd])
  <2>1. pc = "rebuild" /\ UNCHANGED <<heap, alloc, compact_fl, trigger, before, moved>>
    BY DEF Rebuild
  <2>2. (pc' = "rebuild" /\ i < Len(Chunks) /\ p' = First(i + 1)) \/ (pc' = "done" /\ p' = 0)
    BY <1>2, <2>1 DEF Rebuild
  <2>3. LinkedRest(Left[i]) <=> Left[i] > 1
    BY DEF LinkedRest
  <2>4. \/ mem' = [mem EXCEPT ![RestOf(i)] = Hd(Left[i] - 1, "scan", "blue")] /\ LinkedRest(Left[i])
        \/ mem' = [mem EXCEPT ![RestOf(i)] = Hd(Left[i] - 1, "scan", "white")] /\ Left[i] > 0
        \/ mem' = mem
    BY <1>2 DEF Rebuild
  <2>5. Left[i] \in Nat
    BY <2>1, RestFree DEF Settled
  <2>6. Left[i] > 1 => Left[i] > 0
    BY <2>5
  <2>7. QED
    BY <2>1, <2>2, <2>3, <2>4, <2>6
<1>4. Shifted(before, mem, moved, End) /\ pc \in Settled
  BY <1>3 DEF PassInv, MemoryInv, Settled
<1>5. Shifted(before, mem', moved, End)
  <2>1. CASE mem' = mem
    BY <1>4, <2>1
  <2>2. CASE Left[i] > 0 /\ \E hd : mem' = [mem EXCEPT ![RestOf(i)] = hd]
    <3>1. PICK hd : mem' = [mem EXCEPT ![RestOf(i)] = hd]
      BY <2>2
    <3> DEFINE a == RestOf(i)
    <3>2. a \in Words /\ a \notin Root /\ \A d \in DOMAIN moved : \A n \in 0 .. before[d].wosize : moved[d] + n # a
      BY <2>2, <1>4, RestFree
    <3> HIDE DEF a
    <3>3. mem = [c \in Cells |-> mem[c]]
      BY <1>4 DEF Shifted
    <3>4. mem' = [c \in Cells |-> mem'[c]] /\ \A c : c # a => mem'[c] = mem[c]
      BY <3>1, <3>3 DEF a
    <3>5. \A c \in Words : ~(c >= End)
      BY WordTypes
    <3>6. \A r \in Root : mem'[r] = New(before, moved, r)
      BY <3>2, <3>4, <1>4 DEF Shifted
    <3>7. \A d \in DOMAIN moved : d < End => \A n \in 0 .. before[d].wosize : mem'[moved[d] + n] = New(before, moved, d + n)
      BY <3>2, <3>4, <1>4 DEF Shifted
    <3>8. QED
      BY <3>4, <3>5, <3>6, <3>7 DEF Shifted
  <2>3. QED
    BY <1>3, <2>1, <2>2
<1>6. MemoryInv'
  BY <1>3, <1>5 DEF MemoryInv, Settled
<1>7. ShapeInv'
  <2>1. mem' = [c \in Cells |-> mem'[c]]
    BY <1>5 DEF Shifted
  <2>2. i < Len(Chunks) => i + 1 \in ChunkNo
    BY ChunkTypes DEF ChunkNo
  <2>3. QED
    BY <2>1, <2>2, <1>3 DEF ShapeInv, PassInv, Settled, Placing
<1>8. PlaceInv'
  BY <1>3 DEF PlaceInv, PassInv, Inverting, Placing, Settled
<1>9. QED
  BY <1>6, <1>7, <1>8 DEF PassInv

LEMMA FaultInv ==
  ASSUME PassInv, Fault PROVE PassInv'
<1>1. pc' = "fault" /\ UNCHANGED <<mem, heap, alloc, compact_fl, p, fl, fl_cur_size, trigger, before, moved>>
  BY DEF Fault
<1>2. QED
  BY <1>1 DEF PassInv, MemoryInv, ShapeInv, PlaceInv, Inverting, Placing, Settled

LEMMA InitInv == Init => PassInv
<1> SUFFICES ASSUME Init PROVE PassInv
  OBVIOUS
<1>1. /\ before \in Heaps /\ mem = before /\ alloc = [i \in ChunkNo |-> 0] /\ compact_fl = 1
      /\ pc = "encode" /\ p = First(1) /\ moved = [b \in {} |-> 0]
      /\ trigger # "overflow" => Swept(before)
  BY DEF Init, compact_heap_maybe, gc_compaction, check_heap_size
<1>2. WellFormed(before)
  BY <1>1, HeapsAssumption
<1>3. First(1) \in Heads(before) /\ First(1) # 0 /\ First(1) \in Int /\ 1 \in ChunkNo
  BY <1>2, FirstBlock
<1>4. before = [c \in Cells |-> before[c]]
  BY <1>2, BlockFacts
<1>5. EncodedTo(before, mem, First(1))
  <2>1. \A b \in Heads(before) : ~(b < First(1))
    BY <1>2, HeadsFrom
  <2>2. QED
    BY <2>1, <1>1, <1>4 DEF EncodedTo
<1>6. MemoryInv
  BY <1>1, <1>3, <1>5 DEF MemoryInv, Settled, Pos
<1>7. ShapeInv
  <2>1. alloc \in [ChunkNo -> Nat] /\ (\A j \in ChunkNo : alloc[j] <= Size(j)) /\ Passed(alloc, 1)
    BY <1>1, NothingTaken
  <2>2. QED
    BY <2>1, <1>1, <1>3, <1>4 DEF ShapeInv, Inverting, Placing
<1>8. PlaceInv
  BY <1>1 DEF PlaceInv, Inverting, Placing, Settled
<1>9. QED
  BY <1>6, <1>7, <1>8 DEF PassInv

LEMMA StepInv == PassInv /\ [Next]_vars => PassInv'
<1> SUFFICES ASSUME PassInv, [Next]_vars PROVE PassInv'
  OBVIOUS
<1>1. CASE NextPass
  BY <1>1, NextPassInv
<1>2. CASE Encode
  BY <1>2, EncodeInv
<1>3. CASE InvertRoot
  BY <1>3, InvertRootInv
<1>4. CASE InvertBlock
  BY <1>4, InvertBlockInv
<1>5. CASE Reallocate
  BY <1>5, ReallocateInv
<1>6. CASE Move
  BY <1>6, MoveInv
<1>7. CASE Shrink
  BY <1>7, ShrinkInv
<1>8. CASE Rebuild
  BY <1>8, RebuildInv
<1>9. CASE Fault
  BY <1>9, FaultInv
<1>10. CASE UNCHANGED vars
  BY <1>10 DEF vars, PassInv, MemoryInv, ShapeInv, PlaceInv, Pos
<1>11. QED
  BY <1>1, <1>2, <1>3, <1>4, <1>5, <1>6, <1>7, <1>8, <1>9, <1>10 DEF Next, compact_heap

\* In all passes of a compaction memory is what the blocks and the words so far make of it.
THEOREM PassesKept == Spec => []PassInv
<1>1. QED
  BY InitInv, StepInv, PTL DEF Spec

-----------------------------------------------------------------------------
(* Lists and places                                                        *)

LEMMA VisitedIs ==
  ASSUME PassInv, NEW b \in Heads(before)
  PROVE  /\ pc = "roots" => {c \in Visited : Leads(before, c, b)} = Leading(before, b, -p)
         /\ pc = "invert" => {c \in Visited : Leads(before, c, b)} = Leading(before, b, Pos)
         /\ pc = "realloc" => {c \in Visited : Leads(before, c, b)} = Leading(before, b, End)
<1>1. WellFormed(before)
  BY HeapFormed
<1>2. \A c \in Scanned(before) : c \in Cells /\ c \in Int /\ c < End /\ (c \in Root => c < 0) /\ (c \notin Root => 0 < c)
  <2> SUFFICES ASSUME NEW c \in Scanned(before)
               PROVE  c \in Cells /\ c \in Int /\ c < End /\ (c \in Root => c < 0) /\ (c \notin Root => 0 < c)
    OBVIOUS
  <2>1. c \in Cells /\ c \in Int /\ c < End
    BY <1>1, ScannedFacts, WordTypes
  <2>2. c \notin Root => c \in Words
    BY <2>1, WordTypes
  <2>3. c \in Words => 0 < c
    BY WordTypes
  <2>4. c \in Root => c < 0
    BY WordTypes
  <2>5. QED
    BY <2>1, <2>2, <2>3, <2>4
<1>3. Root \subseteq Scanned(before)
  BY <1>1, ScannedFacts
<1>4. ASSUME pc = "roots" PROVE {c \in Visited : Leads(before, c, b)} = Leading(before, b, -p)
  <2>1. Visited = {c \in Root : c < -p}
    BY <1>4 DEF Visited
  <2>2. p \in Nat
    BY <1>4, SizesAssumption DEF PassInv, ShapeInv
  <2>3. \A c \in Scanned(before) : c < -p => c \in Root
    BY <2>2, <1>2
  <2>4. QED
    BY <2>1, <2>3, <1>3 DEF Leading
<1>5. ASSUME pc = "invert" PROVE {c \in Visited : Leads(before, c, b)} = Leading(before, b, Pos)
  <2>1. Visited = {c \in Scanned(before) : c \in Root \/ p = 0 \/ c < p}
    BY <1>5 DEF Visited
  <2>2. p = 0 \/ p \in Heads(before)
    BY <1>5 DEF PassInv, ShapeInv
  <2>3. p # 0 => p \in Nat \ {0} /\ Pos = p
    BY <1>1, <2>2, BlockFacts DEF Pos
  <2>4. p = 0 => Pos = End
    BY DEF Pos
  <2>5. \A c \in Scanned(before) : (c \in Root \/ p = 0 \/ c < p) <=> c < Pos
    BY <2>3, <2>4, <1>2
  <2>6. QED
    BY <2>1, <2>5 DEF Leading
<1>6. ASSUME pc = "realloc" PROVE {c \in Visited : Leads(before, c, b)} = Leading(before, b, End)
  <2>1. Visited = Scanned(before)
    BY <1>6 DEF Visited
  <2>2. QED
    BY <2>1, <1>2 DEF Leading
<1>7. QED
  BY <1>4, <1>5, <1>6

LEMMA PassTypes == PassInv => TypeOK
<1> SUFFICES ASSUME PassInv PROVE TypeOK
  OBVIOUS
<1>1. WellFormed(before)
  BY HeapFormed
<1>2. pc \in {Passes[n] : n \in 1 .. Len(Passes)} \cup {"rebuild", "done", "fault"}
  <2>1. Len(Passes) = 6 /\ Passes[1] = "encode" /\ Passes[2] = "roots" /\ Passes[3] = "invert"
        /\ Passes[4] = "realloc" /\ Passes[5] = "move" /\ Passes[6] = "shrink"
    BY DEF Passes
  <2>2. \A n \in 1 .. 6 : Passes[n] \in {Passes[k] : k \in 1 .. Len(Passes)}
    BY <2>1
  <2>3. pc \in {"encode", "roots", "invert", "realloc", "move", "shrink", "rebuild", "done", "fault"}
    BY DEF PassInv, ShapeInv, Inverting, Placing, Settled
  <2>4. 1 \in 1 .. 6 /\ 2 \in 1 .. 6 /\ 3 \in 1 .. 6 /\ 4 \in 1 .. 6 /\ 5 \in 1 .. 6 /\ 6 \in 1 .. 6
    OBVIOUS
  <2>5. {"encode", "roots", "invert", "realloc", "move", "shrink"} \subseteq {Passes[k] : k \in 1 .. Len(Passes)}
    BY <2>1, <2>2, <2>4
  <2>6. QED
    BY <2>3, <2>5
<1>3. DOMAIN mem = Cells /\ compact_fl \in ChunkNo
  BY DEF PassInv, ShapeInv
<1>4. \A i \in ChunkNo : alloc[i] \in 0 .. Size(i)
  BY ChunkTypes DEF PassInv, ShapeInv
<1>5. \A b : Encoded(before, b).kind = "ehd"
  BY DEF Encoded, Ehd
<1>6. ASSUME p # 0, pc = "encode" PROVE mem[p].kind = "hd"
  <2>1. p \in Heads(before) /\ EncodedTo(before, mem, p)
    BY <1>6 DEF PassInv, ShapeInv, MemoryInv, Pos
  <2>2. QED
    BY <2>1, <1>1, EncodeStep
<1>7. ASSUME p # 0, pc = "invert" PROVE Original(mem, p).kind = "ehd"
  <2>1. p \in Heads(before) /\ Threaded(before, mem, p)
    BY <1>7 DEF PassInv, ShapeInv, MemoryInv, Pos
  <2>2. QED
    BY <2>1, <1>1, <1>5, InvertStep
<1>8. ASSUME p # 0, pc = "realloc" PROVE Original(mem, p).kind = "ehd"
  <2>1. p \in Heads(before) /\ Renewed(before, mem, moved, p)
    BY <1>8 DEF PassInv, ShapeInv, MemoryInv, Pos, Placing
  <2>2. QED
    BY <2>1, <1>1, <1>5, RenewFinds
<1>9. ASSUME p # 0, pc = "move" PROVE mem[p].kind = "hd"
  <2>1. p \in Heads(before) /\ Shifted(before, mem, moved, p)
    BY <1>9 DEF PassInv, ShapeInv, MemoryInv, Pos, Placing
  <2>2. QED
    BY <2>1, <1>1, ShiftFinds
<1>10. QED
  BY <1>2, <1>3, <1>4, <1>6, <1>7, <1>8, <1>9 DEF TypeOK

\* Pointers reversed: the list of a block has at any time just the words that led to it, and
\* its header comes last, whatever the heap looked like.
THEOREM ListsThreaded == Spec => []ListsSound
<1>1. PassInv => ListsSound
  <2> SUFFICES ASSUME PassInv PROVE ListsSound
    OBVIOUS
  <2>1. WellFormed(before)
    BY HeapFormed
  <2>2. ASSUME NEW b \in Heads(before)
        PROVE  LET leading == {c \in Visited : Leads(before, c, b)}
               IN /\ pc \in {"roots", "invert"} \/ (pc = "realloc" /\ p # 0 /\ b >= p) =>
                       /\ Listed(mem, b) = leading
                       /\ Original(mem, b) = Ehd(before[b].wosize, EncodedTag(before[b]))
                  /\ pc = "realloc" /\ p # 0 /\ b < p => (b \in DOMAIN moved <=> leading # {})
    <3> DEFINE leading == {c \in Visited : Leads(before, c, b)}
    <3>1. b \in Int /\ End \in Int
      BY <2>1, HeadsFrom
    <3>2. Encoded(before, b) = Ehd(before[b].wosize, EncodedTag(before[b]))
      BY DEF Encoded
    <3>3. (pc = "roots" => leading = Leading(before, b, -p)) /\ (pc = "invert" => leading = Leading(before, b, Pos))
          /\ (pc = "realloc" => leading = Leading(before, b, End))
      BY VisitedIs
    <3> HIDE DEF leading
    <3>4. ASSUME pc = "roots" PROVE Listed(mem, b) = leading /\ Original(mem, b) = Encoded(before, b)
      <4>1. Threaded(before, mem, -p) /\ -p \in Int
        BY <3>4, SizesAssumption DEF PassInv, MemoryInv, ShapeInv
      <4>2. Hung(before, mem, b, -p)
        BY <4>1 DEF Threaded
      <4>3. QED
        BY <4>1, <4>2, <2>1, <3>3, <3>4, ListIs
    <3>5. ASSUME pc = "invert" PROVE Listed(mem, b) = leading /\ Original(mem, b) = Encoded(before, b)
      <4>1. Threaded(before, mem, Pos) /\ Pos \in Int
        BY <3>1, <3>5, <2>1, HeadsFrom DEF PassInv, MemoryInv, ShapeInv, Pos
      <4>2. Hung(before, mem, b, Pos)
        BY <4>1 DEF Threaded
      <4>3. QED
        BY <4>1, <4>2, <2>1, <3>3, <3>5, ListIs
    <3>6. ASSUME pc = "realloc", p # 0 PROVE p \in Heads(before) /\ p \in Int /\ Renewed(before, mem, moved, p) /\ DOMAIN moved = Led(before, p)
      <4>1. p \in Heads(before) /\ Renewed(before, mem, moved, p) /\ DOMAIN moved = Led(before, p)
        BY <3>6 DEF PassInv, ShapeInv, MemoryInv, PlaceInv, Pos, Placing
      <4>2. QED
        BY <4>1, <2>1, HeadsFrom
    <3>7. ASSUME pc = "realloc", p # 0, b >= p PROVE Listed(mem, b) = leading /\ Original(mem, b) = Encoded(before, b)
      <4>1. ~(b < p)
        BY <3>1, <3>6, <3>7
      <4>2. Hung(before, mem, b, End)
        BY <4>1, <3>6, <3>7 DEF Renewed
      <4>3. QED
        BY <4>2, <2>1, <3>1, <3>3, <3>7, ListIs
    <3>8. ASSUME pc = "realloc", p # 0, b < p PROVE b \in DOMAIN moved <=> leading # {}
      BY <3>3, <3>6, <3>8 DEF Led
    <3>9. QED
      BY <3>2, <3>4, <3>5, <3>7, <3>8 DEF leading
  <2>3. QED
    BY <2>2, PassTypes DEF ListsSound
<1>2. QED
  BY <1>1, PassesKept, PTL

\* The Assert in compact_heap, in any heap: no block is moved up, and it goes to the place that
\* the third pass gave it.
THEOREM NothingOvertaken == Spec => []NeverOvertakes
<1>1. PassInv => NeverOvertakes
  <2> SUFFICES ASSUME PassInv, pc = "move", p # 0, mem[p].color = "white", Roomy(mem[p].wosize + 1) # 0
               PROVE  LET to == Address(mem[p].wosize + 1) IN to <= p /\ to = moved[p]
    BY DEF NeverOvertakes
  <2> DEFINE n == Whsize(before, p)
             r == Room(alloc, n)
  <2>1. WellFormed(before) /\ p \in Heads(before) /\ Pos = p
    BY HeapFormed DEF PassInv, ShapeInv, Pos, Placing
  <2>2. /\ Shifted(before, mem, moved, p) /\ DOMAIN moved = Led(before, End)
        /\ Placed(before, alloc, moved, p) /\ \A b \in DOMAIN moved : Replayed(before, moved, b)
    BY <2>1 DEF PassInv, MemoryInv, PlaceInv, Placing
  <2>3. mem[p].wosize + 1 = n /\ p \in DOMAIN moved
    BY <2>1, <2>2, ShiftFinds DEF Whsize
  <2>4. DOMAIN moved \subseteq Heads(before)
    BY <2>2 DEF Led
  <2>5. Roomy(n) = r /\ r # 0
    BY <2>3, RoomyIs DEF PassInv, ShapeInv
  <2>6. First(r) + alloc[r] <= p
    BY <2>1, <2>2, <2>5, NoHigher
  <2>7. moved[p] = First(r) + alloc[r]
    <3>1. PICK al : LET s == Room(al, n) IN Placed(before, al, moved, p) /\ s # 0 /\ moved[p] = First(s) + al[s]
      BY <2>2, <2>3 DEF Replayed
    <3>2. \A j \in ChunkNo : al[j] <= alloc[j] /\ alloc[j] <= al[j]
      BY <2>1, <2>2, <2>4, <3>1, PlacedOnce
    <3>3. al \in [ChunkNo -> Nat] /\ alloc \in [ChunkNo -> Nat]
      BY <2>2, <3>1 DEF Placed
    <3>4. \A j \in ChunkNo : al[j] = alloc[j]
      BY <3>2, <3>3
    <3>5. al = alloc
      BY <3>3, <3>4
    <3>6. QED
      BY <3>1, <3>5
  <2> HIDE DEF r, n
  <2>8. QED
    BY <2>3, <2>5, <2>6, <2>7 DEF Address
<1>2. QED
  BY <1>1, PassesKept, PTL

-----------------------------------------------------------------------------
(* The graph                                                               *)

\* What is found from the roots, and from the blocks of S.
Rooted(B)   == {b \in Live(B) : \E r \in Root : Leads(B, r, b)}
Grown(B, S) == S \cup {b \in Live(B) : \E s \in S : B[s].tag = "scan" /\ \E c \in Fields(B, s) : Leads(B, c, b)}

IsReach(f, B) ==
  f = [n \in 0 .. Cardinality(Live(B)) |-> IF n = 0 THEN Rooted(B) ELSE Grown(B, f[n - 1])]

LEMMA LiveCount ==
  ASSUME NEW B, WellFormed(B) PROVE Cardinality(Live(B)) \in Nat
<1>1. Live(B) \subseteq 0 .. End
  <2>1. \A b \in Live(B) : b \in Words
    BY ScannedFacts, BlockFacts
  <2>2. QED
    BY <2>1, WordTypes
<1>2. IsFiniteSet(0 .. End)
  BY WordTypes, FS_Interval
<1>3. QED
  BY <1>1, <1>2, FS_Subset, FS_CardinalityType

LEMMA ReachExists ==
  ASSUME NEW B, WellFormed(B)
  PROVE  \E f : IsReach(f, B) /\ Reached(B) = f[Cardinality(Live(B))]
<1> DEFINE N == Cardinality(Live(B))
           V == SUBSET Live(B)
           g == [n \in Nat |-> [S \in V |-> Grown(B, S)]]
<1>1. N \in Nat
  BY LiveCount
<1>2. Rooted(B) \in V /\ \A S \in V : Grown(B, S) \in V
  BY DEF Rooted, Grown
<1>3. g \in [Nat -> [V -> V]]
  <2> HIDE DEF V
  <2>1. QED
    BY <1>2
<1> HIDE DEF N
<1>4. PICK f \in [0 .. N -> V] : Recurses(f, N, Rooted(B), g)
  <2> HIDE DEF V, g
  <2>1. QED
    BY <1>1, <1>2, <1>3, RecursionExists
<1>5. \A n \in 0 .. N : f[n] = IF n = 0 THEN Rooted(B) ELSE Grown(B, f[n - 1])
  <2> SUFFICES ASSUME NEW n \in 0 .. N PROVE f[n] = IF n = 0 THEN Rooted(B) ELSE Grown(B, f[n - 1])
    OBVIOUS
  <2>1. f[n] = IF n = 0 THEN Rooted(B) ELSE g[n][f[n - 1]]
    <3> HIDE DEF V, g
    <3>1. QED
      BY <1>4 DEF Recurses
  <2>2. n # 0 => n \in Nat /\ f[n - 1] \in V
    <3>1. n # 0 => n \in Nat /\ n - 1 \in 0 .. N
      BY <1>1
    <3> HIDE DEF V, g
    <3>2. QED
      BY <3>1, <1>4
  <2>3. \A k \in Nat : \A S \in V : g[k][S] = Grown(B, S)
    <3> HIDE DEF V
    <3>1. QED
      OBVIOUS
  <2> HIDE DEF V, g
  <2>4. QED
    BY <2>1, <2>2, <2>3
<1>6. f = [n \in 0 .. N |-> f[n]]
  <2> HIDE DEF V, g
  <2>1. QED
    BY <1>4
<1>7. IsReach(f, B)
  <2> HIDE DEF V, g
  <2>1. QED
    BY <1>5, <1>6 DEF IsReach, N
<1> DEFINE h == CHOOSE l : IsReach(l, B)
<1>8. IsReach(h, B)
  <2> HIDE DEF V, g
  <2>1. QED
    BY <1>7
<1>9. Reached(B) = h[N]
  BY DEF Reached, IsReach, Rooted, Grown, N
<1>10. QED
  <2> HIDE DEF h
  <2>1. QED
    BY <1>8, <1>9 DEF N

\* A pointer leads to all that can be reached.
LEMMA ReachedLed ==
  ASSUME NEW B, WellFormed(B)
  PROVE  Reached(B) \subseteq Led(B, End) /\ Led(B, End) \subseteq Live(B)
<1>1. PICK f : IsReach(f, B) /\ Reached(B) = f[Cardinality(Live(B))]
  BY ReachExists
<1> DEFINE N == Cardinality(Live(B))
           L == Led(B, End)
           G == {n \in 0 .. N : f[n] \subseteq L}
<1>2. N \in Nat /\ End \in Int
  BY LiveCount, WordTypes
<1>3. L \subseteq Live(B)
  <2> SUFFICES ASSUME NEW b \in L PROVE b \in Live(B)
    OBVIOUS
  <2>1. b \in Heads(B) /\ Leading(B, b, End) # {}
    BY DEF Led
  <2>2. PICK d \in Leading(B, b, End) : TRUE
    BY <2>1
  <2>3. d \in Scanned(B) /\ Leads(B, d, b)
    BY <2>1, <1>2, LeadingTypes
  <2>4. QED
    BY <2>1, <2>3, LeadsToOne
<1>4. ASSUME NEW b \in Live(B), NEW c \in Scanned(B), Leads(B, c, b) PROVE b \in L
  <2>1. b \in Heads(B)
    BY ScannedFacts
  <2>2. b < End /\ c < End
    BY <2>1, HeadsFrom, ScannedFacts, WordTypes
  <2>3. c \in Leading(B, b, End)
    BY <2>2, <1>4 DEF Leading
  <2>4. QED
    BY <2>1, <2>2, <2>3 DEF Led
<1>5. \A n \in 0 .. N : f[n] = IF n = 0 THEN Rooted(B) ELSE Grown(B, f[n - 1])
  BY <1>1 DEF IsReach
<1> HIDE DEF L
<1>6. 0 \in G
  <2>1. f[0] = Rooted(B)
    BY <1>2, <1>5
  <2>2. Rooted(B) \subseteq L
    <3>1. Root \subseteq Scanned(B)
      BY ScannedFacts
    <3>2. QED
      BY <3>1, <1>4 DEF Rooted
  <2>3. QED
    BY <2>1, <2>2, <1>2
<1>7. ASSUME NEW n \in 0 .. N, n < N, n \in G PROVE n + 1 \in G
  <2>1. n + 1 \in 0 .. N /\ n + 1 # 0 /\ (n + 1) - 1 = n
    BY <1>2, <1>7
  <2>2. f[n + 1] = Grown(B, f[n]) /\ f[n] \subseteq L
    BY <2>1, <1>5, <1>7
  <2>3. ASSUME NEW b \in Live(B), NEW s \in f[n], B[s].tag = "scan", NEW c \in Fields(B, s), Leads(B, c, b)
        PROVE  b \in L
    <3>1. s \in Live(B) /\ s \in Heads(B)
      BY <2>2, <1>3, ScannedFacts
    <3>2. s \in Nat /\ B[s].wosize \in Nat /\ Whsize(B, s) = B[s].wosize + 1
      BY <3>1, BlockFacts DEF Whsize
    <3>3. c \in Int /\ s < c /\ c < s + Whsize(B, s)
      BY <3>2 DEF Fields
    <3>4. c \in Scanned(B)
      BY <3>1, <3>3, <2>3, ScannedFacts
    <3>5. QED
      BY <3>4, <2>3, <1>4
  <2>4. Grown(B, f[n]) \subseteq L
    BY <2>2, <2>3 DEF Grown
  <2>5. QED
    BY <2>1, <2>2, <2>4
<1>8. N \in G
  <2>1. \A n \in 0 .. N : n < N /\ n \in G => n + 1 \in G
    BY <1>7
  <2>2. \A n \in 0 .. N : n \in G
    <3> HIDE DEF N, G
    <3>1. QED
      BY <1>2, <1>6, <2>1, CountUp
  <2>3. QED
    BY <2>2, <1>2
<1>9. QED
  BY <1>1, <1>3, <1>8 DEF L

\* What a word that is scanned becomes, seen from the word.
LEMMA NewIs ==
  ASSUME NEW B, WellFormed(B), NEW mv, NEW c \in Scanned(B)
  PROVE  New(B, mv, c) = IF B[c].kind = "ptr" /\ B[c].a \in Words THEN Ptr(mv[B[c].a - 1] + 1) ELSE B[c]
<1>1. c \notin Heads(B)
  BY ScannedFacts
<1>2. CASE \E b \in Heads(B) : Leads(B, c, b)
  <2>1. B[c].kind = "ptr" /\ B[c].a \in Words
    BY <1>2, LeadsToOne
  <2>2. QED
    BY <1>1, <1>2, <2>1 DEF New
<1>3. CASE ~\E b \in Heads(B) : Leads(B, c, b)
  <2>1. ASSUME B[c].kind = "ptr", B[c].a \in Words PROVE FALSE
    <3>1. \A i \in ChunkNo : B[c].a \notin First(i) .. Limit(i)
      BY <2>1, <1>3, ScannedFacts
    <3>2. PICK i \in ChunkNo : First(i) <= B[c].a /\ B[c].a < Limit(i)
      BY <2>1, WordTypes
    <3>3. B[c].a \in Int /\ First(i) \in Int /\ Limit(i) \in Int
      BY <2>1, WordTypes, ChunkTypes
    <3>4. QED
      BY <3>1, <3>2, <3>3
  <2>2. QED
    BY <2>1, <1>1, <1>3 DEF New
<1>4. QED
  BY <1>2, <1>3

LEMMA GraphStays ==
  ASSUME PassInv, pc = "done" PROVE GraphKept
<1>1. WellFormed(before) /\ Shifted(before, mem, moved, End) /\ DOMAIN moved = Led(before, End)
      /\ (trigger # "overflow" => Swept(before))
  BY HeapFormed DEF PassInv, MemoryInv, PlaceInv, ShapeInv, Settled
<1>2. Reached(before) \subseteq DOMAIN moved /\ DOMAIN moved \subseteq Live(before)
  BY <1>1, ReachedLed
<1>3. trigger # "overflow" => DOMAIN moved = Live(before)
  BY <1>1, <1>2 DEF Swept
<1> DEFINE image(w) == IF w.kind = "ptr" /\ w.a \in Words THEN Ptr(moved[w.a - 1] + 1) ELSE w
<1>4. \A c \in Scanned(before) : New(before, moved, c) = image(before[c])
  BY <1>1, NewIs
<1>5. \A r \in Root : mem[r] = image(before[r])
  <2>1. \A r \in Root : mem[r] = New(before, moved, r) /\ r \in Scanned(before)
    BY <1>1, ScannedFacts DEF Shifted
  <2>2. QED
    BY <2>1, <1>4
<1>6. ASSUME NEW b \in DOMAIN moved
      PROVE  /\ mem[moved[b]] = before[b]
             /\ \A n \in 1 .. before[b].wosize :
                  mem[moved[b] + n] = IF before[b].tag = "scan" THEN image(before[b + n]) ELSE before[b + n]
  <2>1. b \in Live(before) /\ b \in Heads(before) /\ b < End
    BY <1>1, <1>2, HeadsFrom DEF Led
  <2>2. b \in Nat /\ before[b].wosize \in Nat /\ IsHead(before[b]) /\ Whsize(before, b) = before[b].wosize + 1
    BY <1>1, <2>1, BlockFacts DEF Whsize
  <2>3. \A n \in 0 .. before[b].wosize : mem[moved[b] + n] = New(before, moved, b + n)
    BY <1>1, <2>1 DEF Shifted
  <2>4. mem[moved[b]] = before[b]
    <3>1. moved[b] \in Nat
      BY <1>1, <2>1 DEF PassInv, PlaceInv, Settled, Placed
    <3>2. 0 \in 0 .. before[b].wosize /\ moved[b] + 0 = moved[b] /\ b + 0 = b
      BY <2>2, <3>1
    <3>3. mem[moved[b]] = New(before, moved, b)
      BY <2>3, <3>2
    <3>4. before[b].color = "white"
      BY <2>1 DEF Live
    <3>5. EncodedTag(before[b]) = before[b].tag
      BY <3>4 DEF EncodedTag
    <3>6. New(before, moved, b) = Hd(before[b].wosize, before[b].tag, "white")
      BY <2>1, <3>5 DEF New
    <3>7. before[b] = Hd(before[b].wosize, before[b].tag, before[b].color)
      BY <2>2 DEF IsHead
    <3>8. QED
      BY <3>3, <3>4, <3>6, <3>7
  <2>5. ASSUME NEW n \in 1 .. before[b].wosize
        PROVE  mem[moved[b] + n] = IF before[b].tag = "scan" THEN image(before[b + n]) ELSE before[b + n]
    <3>1. mem[moved[b] + n] = New(before, moved, b + n)
      <4>1. n \in 0 .. before[b].wosize
        BY <2>2
      <4>2. QED
        BY <4>1, <2>3
    <3>2. b + n \in Int /\ b < b + n /\ b + n < b + Whsize(before, b)
      BY <2>2
    <3>3. b + n \in Scanned(before) <=> before[b].tag = "scan"
      BY <3>2, <2>1, <1>1, ScannedFacts
    <3>4. b + n \notin Heads(before)
      BY <3>2, <2>1, <1>1, ScannedFacts
    <3>5. CASE before[b].tag = "scan"
      BY <3>1, <3>3, <3>5, <1>4
    <3>6. CASE before[b].tag # "scan"
      BY <3>1, <3>3, <3>4, <3>6 DEF New
    <3>7. QED
      BY <3>5, <3>6
  <2>6. QED
    BY <2>4, <2>5
<1>7. QED
  BY <1>2, <1>3, <1>5, <1>6 DEF GraphKept

-----------------------------------------------------------------------------
(* The free list                                                           *)

LEMMA SumOnIs ==
  ASSUME NEW S, NEW f PROVE SumFunctionOnSet(f, S) = SumOf(f, S)
  BY DEF SumFunctionOnSet, FoldFunctionOnSet, MapThenFoldSet, SumOf, Some

LEMMA SumIs ==
  ASSUME NEW f PROVE SumFunction(f) = SumOf(f, DOMAIN f)
  BY SumOnIs DEF SumFunction

\* The chunk that the free list is built for next.
Reach == IF pc = "done" THEN Last + 1 ELSE ChunkOf(p)

\* The chunks before it with a rest for the list, and the head of what is left of a chunk.
Freed(x)    == {j \in heap : j < x /\ Left[j] > 1}
RestHead(j) == Hd(Left[j] - 1, "scan", IF Left[j] > 1 THEN "blue" ELSE "white")

ListInv ==
  /\ \A j \in heap : j < Reach /\ Left[j] > 0 => mem[RestOf(j)] = RestHead(j)
  /\ fl \in Seq(Nat) /\ Range(fl) = {RestOf(j) : j \in Freed(Reach)}
  /\ \A m, n \in DOMAIN fl : m < n => fl[m] < fl[n]
  /\ fl_cur_size = SumFunction([b \in Range(fl) |-> mem[b].wosize + 1])

FreeInv ==
  /\ pc \notin {"rebuild", "done", "fault"} => heap = ChunkNo /\ fl = <<>> /\ fl_cur_size = 0
  /\ pc = "shrink" => p = First(1)
  /\ pc \in {"rebuild", "done"} => heap \subseteq ChunkNo /\ ReserveKept /\ ListInv

LEMMA LeftTypes ==
  ASSUME PassInv PROVE (\A i \in ChunkNo : Left[i] \in Nat) /\ IsFiniteSet(ChunkNo) /\ Wanted \in Int
<1>1. \A i \in ChunkNo : alloc[i] \in Nat /\ alloc[i] <= Size(i) /\ Size(i) \in Nat
  BY ChunkTypes DEF PassInv, ShapeInv
<1>2. \A i \in ChunkNo : Left[i] \in Nat
  BY <1>1 DEF Left
<1>3. IsFiniteSet(ChunkNo)
  <2>1. Len(Chunks) \in Int
    BY ChunkTypes DEF Last
  <2>2. QED
    BY <2>1, FS_Interval DEF ChunkNo
<1>4. SumFunction(alloc) \in Int
  <2>1. DOMAIN alloc = ChunkNo
    BY DEF PassInv, ShapeInv
  <2>2. SumFunction(alloc) = SumOf(alloc, ChunkNo)
    BY <2>1, SumIs
  <2>3. \A i \in ChunkNo : alloc[i] \in Int
    BY <1>1
  <2>4. QED
    BY <2>2, <2>3, <1>3, SumOfType
<1>5. Wanted \in Int
  <2>1. percent_free \in Nat /\ Hundred \in Nat \ {0}
    BY SizesAssumption
  <2> DEFINE u == SumFunction(alloc) \div Hundred
  <2>2. u \in Int
    BY <1>4, <2>1
  <2> HIDE DEF u
  <2>3. percent_free * (u + 1) \in Int
    BY <2>1, <2>2
  <2>4. QED
    BY <2>3 DEF Wanted, u
<1>6. QED
  BY <1>2, <1>3, <1>5

\* Enough is left without the chunks that go.
LEMMA ShrinkKeeps ==
  ASSUME PassInv, Shrink PROVE ReserveKept'
<1>1. alloc' = alloc /\ heap' = {i \in ChunkNo : i = 1 \/ i \notin Emptied \/ Spare(i) < Wanted}
  BY DEF Shrink
<1>2. Left' = Left /\ Wanted' = Wanted
  BY <1>1 DEF Left, Wanted
<1>3. (\A i \in ChunkNo : Left[i] \in Nat) /\ IsFiniteSet(ChunkNo) /\ Wanted \in Int
  BY LeftTypes
<1>4. \A i \in ChunkNo \ heap' : i \in Emptied /\ ~(Spare(i) < Wanted)
  BY <1>1
<1>5. \A i \in ChunkNo \ heap' : alloc'[i] = 0
  BY <1>1, <1>4 DEF Emptied
<1>6. ASSUME heap' # ChunkNo PROVE SumFunctionOnSet(Left, heap') >= Wanted
  <2> DEFINE R == ChunkNo \ heap'
             H == heap'
  <2>1. R # {} /\ R \in SUBSET ChunkNo
    BY <1>1, <1>6
  <2>2. Min(R) \in R /\ \A j \in R : Min(R) <= j
    <3> HIDE DEF R
    <3>1. QED
      BY <2>1, SmallestOf
  <2> DEFINE i == Min(R)
             A == (ChunkNo \ Emptied) \cup {j \in Emptied : j < i}
  <2>3. i \in ChunkNo /\ i \in Nat /\ i \in Emptied /\ ~(Spare(i) < Wanted) /\ \A j \in ChunkNo : j < i => j \notin R
    <3>1. i \in ChunkNo /\ i \in Emptied /\ ~(Spare(i) < Wanted)
      <4> HIDE DEF i
      <4>1. QED
        BY <2>2, <1>4 DEF i
    <3>2. \A j \in ChunkNo : j \in Nat
      BY ChunkTypes
    <3> HIDE DEF R
    <3>3. QED
      BY <3>1, <3>2, <2>2
  <2> HIDE DEF i
  <2>4. A \in SUBSET H
    <3>1. \A j \in Emptied : j \in ChunkNo
      BY DEF Emptied
    <3>2. \A j \in ChunkNo \ Emptied : j \in H
      BY <1>1
    <3>3. \A j \in Emptied : j < i => j \in H
      BY <2>3, <3>1
    <3> HIDE DEF H
    <3>4. QED
      BY <3>2, <3>3
  <2>5. IsFiniteSet(H) /\ \A j \in H : Left[j] \in Nat
    <3>1. H \subseteq ChunkNo
      BY <1>1
    <3> HIDE DEF H
    <3>2. QED
      BY <3>1, <1>3, FS_Subset
  <2>6. Spare(i) = SumOf(Left, A)
    BY SumOnIs DEF Spare
  <2> HIDE DEF A, H
  <2>7. SumOf(Left, A) <= SumOf(Left, H)
    BY <2>4, <2>5, SumOfMore
  <2>8. SumOf(Left, A) \in Int /\ SumOf(Left, H) \in Int
    <3>1. IsFiniteSet(A) /\ (\A j \in A : Left[j] \in Int) /\ \A j \in H : Left[j] \in Int
      BY <2>4, <2>5, FS_Subset
    <3>2. QED
      BY <3>1, <2>5, SumOfType
  <2>9. SumFunctionOnSet(Left, H) = SumOf(Left, H)
    BY SumOnIs
  <2>10. SumFunctionOnSet(Left, H) >= Wanted
    BY <2>3, <2>6, <2>7, <2>8, <2>9, <1>3
  <2>11. QED
    BY <2>10 DEF H
<1>7. QED
  BY <1>2, <1>5, <1>6 DEF ReserveKept

LEMMA ChunkAt ==
  ASSUME NEW i \in ChunkNo PROVE ChunkOf(First(i)) = i
<1>1. First(i) \in Int /\ First(i) <= First(i) /\ First(i) < Limit(i)
  BY ChunkTypes
<1>2. QED
  BY <1>1, ChunkOfIs

LEMMA ShrinkFree ==
  ASSUME PassInv, FreeInv, Shrink PROVE FreeInv'
<1>1. /\ pc = "shrink" /\ pc' = "rebuild" /\ UNCHANGED <<mem, alloc, compact_fl, p, fl, fl_cur_size, trigger, before, moved>>
      /\ heap' \subseteq ChunkNo
  BY DEF Shrink
<1>2. ReserveKept'
  BY ShrinkKeeps
<1>3. fl = <<>> /\ fl_cur_size = 0 /\ p = First(1)
  BY <1>1 DEF FreeInv
<1>4. Reach' = 1
  BY <1>1, <1>3, ChunkAt, ChunkTypes DEF Reach
<1>5. \A j \in heap' : ~(j < 1)
  BY <1>1, ChunkTypes
<1>6. Freed(Reach)' = {}
  BY <1>4, <1>5 DEF Freed
<1>7. fl' = <<>> /\ fl' \in Seq(Nat) /\ DOMAIN fl' = {} /\ Range(fl') = {}
  BY <1>1, <1>3 DEF Range
<1>8. fl_cur_size' = SumFunction([b \in Range(fl') |-> mem'[b].wosize + 1])
  <2> DEFINE f == [b \in Range(fl') |-> mem'[b].wosize + 1]
  <2>1. DOMAIN f = {}
    BY <1>7
  <2> HIDE DEF f
  <2>2. SumFunction(f) = 0
    BY <2>1, SumIs, SumOfNone
  <2>3. QED
    BY <2>2, <1>1, <1>3 DEF f
<1>9. ListInv'
  BY <1>4, <1>5, <1>6, <1>7, <1>8 DEF ListInv
<1>10. QED
  BY <1>1, <1>2, <1>9 DEF FreeInv

\* The rests of two chunks are apart.
LEMMA RestsApart ==
  ASSUME PassInv, pc \in Settled, NEW i \in ChunkNo, NEW j \in ChunkNo, j < i
  PROVE  RestOf(j) < RestOf(i)
<1>1. RestOf(j) \in Nat /\ RestOf(j) <= Limit(j) /\ RestOf(i) \in Nat /\ First(i) <= RestOf(i)
  BY RestFree
<1>2. Limit(j) < First(i)
  BY ChunkOrder
<1>3. Limit(j) \in Nat /\ First(i) \in Nat
  BY ChunkTypes
<1>4. QED
  BY <1>1, <1>2, <1>3

\* One block more in the list.
LEMMA ListGrows ==
  ASSUME NEW l \in Seq(Nat), NEW b \in Nat, \A c \in Range(l) : c < b,
         \A m, n \in DOMAIN l : m < n => l[m] < l[n]
  PROVE  LET k == Append(l, b)
         IN /\ k \in Seq(Nat) /\ Range(k) = Range(l) \cup {b}
            /\ \A m, n \in DOMAIN k : m < n => k[m] < k[n]
<1> DEFINE k == Append(l, b)
           N == Len(l)
<1>1. N \in Nat /\ DOMAIN l = 1 .. N /\ \A n \in 1 .. N : l[n] \in Nat /\ l[n] \in Range(l)
  BY DEF Range
<1>2. k \in Seq(Nat) /\ DOMAIN k = 1 .. N + 1 /\ (\A n \in 1 .. N : k[n] = l[n]) /\ k[N + 1] = b
  OBVIOUS
<1> HIDE DEF k, N
<1>3. Range(k) = Range(l) \cup {b}
  <2>1. \A c : c \in Range(k) <=> \E n \in 1 .. N + 1 : c = k[n]
    BY <1>2 DEF Range
  <2>2. \A c : c \in Range(l) <=> \E n \in 1 .. N : c = l[n]
    BY <1>1 DEF Range
  <2>3. \A n : n \in 1 .. N + 1 <=> n \in 1 .. N \/ n = N + 1
    BY <1>1
  <2>4. ASSUME NEW c \in Range(k) PROVE c \in Range(l) \cup {b}
    <3>1. PICK n \in 1 .. N + 1 : c = k[n]
      BY <2>1
    <3>2. CASE n = N + 1
      BY <3>1, <3>2, <1>2
    <3>3. CASE n \in 1 .. N
      BY <3>1, <3>3, <1>1, <1>2
    <3>4. QED
      BY <2>3, <3>2, <3>3
  <2>5. ASSUME NEW c \in Range(l) PROVE c \in Range(k)
    <3>1. PICK n \in 1 .. N : c = l[n]
      BY <2>2
    <3>2. n \in 1 .. N + 1 /\ c = k[n]
      BY <3>1, <2>3, <1>2
    <3>3. QED
      BY <3>2, <2>1
  <2>6. b \in Range(k)
    <3>1. N + 1 \in 1 .. N + 1
      BY <1>1
    <3>2. QED
      BY <3>1, <2>1, <1>2
  <2>7. QED
    BY <2>4, <2>5, <2>6
<1>4. \A m, n \in DOMAIN k : m < n => k[m] < k[n]
  <2> SUFFICES ASSUME NEW m \in 1 .. N + 1, NEW n \in 1 .. N + 1, m < n PROVE k[m] < k[n]
    BY <1>2
  <2>1. m \in 1 .. N /\ (n \in 1 .. N \/ n = N + 1)
    BY <1>1
  <2>2. CASE n \in 1 .. N
    BY <2>1, <2>2, <1>1, <1>2
  <2>3. CASE n = N + 1
    BY <2>1, <2>3, <1>1, <1>2
  <2>4. QED
    BY <2>1, <2>2, <2>3
<1>5. QED
  BY <1>2, <1>3, <1>4 DEF k

\* What the blocks S take up.
Sizes(m, S) == [b \in S |-> m[b].wosize + 1]

\* The sizes add up with one free block more.
GrownBy(m, S, k, b) ==
  /\ IsFiniteSet(S) /\ b \notin S
  /\ \A c \in S : m[c].wosize \in Int /\ k[c] = m[c]
  /\ k[b].wosize \in Int

LEMMA SumGrows ==
  ASSUME NEW m, NEW S, NEW k, NEW b, GrownBy(m, S, k, b)
  PROVE  SumFunction(Sizes(k, S \cup {b})) = SumFunction(Sizes(m, S)) + (k[b].wosize + 1)
<1> DEFINE R == S \cup {b}
           f == Sizes(k, R)
           g == Sizes(m, S)
<1>1. DOMAIN f = R /\ DOMAIN g = S
  BY DEF Sizes
<1>2. IsFiniteSet(R) /\ b \in R /\ R \ {b} = S
  BY FS_AddElement DEF GrownBy
<1>3. (\A c \in R : f[c] \in Int) /\ (\A c \in S : f[c] = g[c] /\ g[c] \in Int) /\ f[b] = k[b].wosize + 1
  BY <1>2 DEF Sizes, GrownBy
<1> HIDE DEF f, g, R
<1>4. SumOf(f, R) = f[b] + SumOf(f, S) /\ SumOf(f, S) \in Int
  BY <1>2, <1>3, SumOfTakes
<1>5. SumOf(f, S) = SumOf(g, S)
  BY <1>3, SumOfAgrees DEF GrownBy
<1>6. SumFunction(f) = SumOf(f, R) /\ SumFunction(g) = SumOf(g, S)
  BY <1>1, SumIs
<1>7. f[b] \in Int
  BY <1>2, <1>3
<1>8. QED
  BY <1>3, <1>4, <1>5, <1>6, <1>7 DEF f, g, R

LEMMA RebuildFree ==
  ASSUME PassInv, FreeInv, Rebuild PROVE FreeInv'
<1>1. PICK i \in ChunkNo : p = First(i)
  BY DEF PassInv, ShapeInv, Rebuild
<1>2. ChunkOf(p) = i
  BY <1>1, ChunkAt
<1>3. pc = "rebuild" /\ UNCHANGED <<heap, alloc, compact_fl, trigger, before, moved>> /\ pc \in Settled
  BY DEF Rebuild, Settled
<1>4. heap \subseteq ChunkNo /\ ReserveKept /\ ListInv
  BY <1>3 DEF FreeInv
<1>5. Left' = Left /\ Wanted' = Wanted /\ \A j : RestOf(j)' = RestOf(j) /\ RestHead(j)' = RestHead(j)
  BY <1>3 DEF Left, Wanted, RestOf, RestHead
<1>6. ReserveKept'
  BY <1>3, <1>4, <1>5 DEF ReserveKept
<1>7. Last \in Nat /\ i \in Nat /\ i <= Last /\ Last = Len(Chunks) /\ \A j \in heap : j \in Nat /\ j \in ChunkNo
  BY <1>4, ChunkTypes DEF Last
<1>8. Reach = i /\ Reach' = i + 1 /\ pc' \in {"rebuild", "done"}
  <2>1. Reach = i
    BY <1>2, <1>3 DEF Reach
  <2>2. CASE i < Last
    <3>1. p' = First(i + 1) /\ pc' = "rebuild"
      BY <2>2, <1>2, <1>3, <1>7 DEF Rebuild
    <3>2. i + 1 \in ChunkNo
      BY <2>2, <1>7 DEF ChunkNo
    <3>3. ChunkOf(p') = i + 1
      BY <3>1, <3>2, ChunkAt
    <3>4. QED
      BY <2>1, <3>1, <3>3 DEF Reach
  <2>3. CASE ~(i < Last)
    <3>1. pc' = "done"
      BY <2>3, <1>2, <1>3, <1>7 DEF Rebuild
    <3>2. i = Last
      BY <2>3, <1>7
    <3>3. QED
      BY <2>1, <3>1, <3>2 DEF Reach
  <2>4. QED
    BY <2>2, <2>3
<1>9. /\ \A j \in heap : j < i /\ Left[j] > 0 => mem[RestOf(j)] = RestHead(j)
      /\ fl \in Seq(Nat) /\ Range(fl) = {RestOf(j) : j \in Freed(i)}
      /\ \A m, n \in DOMAIN fl : m < n => fl[m] < fl[n]
      /\ fl_cur_size = SumFunction([b \in Range(fl) |-> mem[b].wosize + 1])
  BY <1>4, <1>8 DEF ListInv
<1> DEFINE a == RestOf(i)
<1>10. Left[i] \in Nat /\ a \in Nat /\ (Left[i] > 0 => a \in Words) /\ \A j \in heap : j < i => RestOf(j) < a /\ RestOf(j) \in Nat /\ Left[j] \in Nat
  BY <1>3, <1>7, RestFree, RestsApart
<1>11. mem = [c \in Cells |-> mem[c]] /\ Words \subseteq Cells
  BY WordTypes DEF PassInv, ShapeInv
<1>12. \A x : Freed(x)' = Freed(x)
  BY <1>3, <1>5 DEF Freed
<1>13. \A j \in heap : j < i + 1 <=> j < i \/ j = i
  BY <1>7
<1>14. \A b \in Range(fl) : b < a /\ b \in Nat
  BY <1>9, <1>10 DEF Freed
<1>15. i \in heap /\ Left[i] > 0 => \E col : mem' = [mem EXCEPT ![a] = Hd(Left[i] - 1, "scan", col)] /\ mem'[a] = RestHead(i)
  <2>1. ASSUME i \in heap, Left[i] > 0, LinkedRest(Left[i])
        PROVE  mem' = [mem EXCEPT ![a] = Hd(Left[i] - 1, "scan", "blue")] /\ Left[i] > 1
    BY <2>1, <1>2 DEF Rebuild, LinkedRest
  <2>2. ASSUME i \in heap, Left[i] > 0, ~LinkedRest(Left[i])
        PROVE  mem' = [mem EXCEPT ![a] = Hd(Left[i] - 1, "scan", "white")] /\ ~(Left[i] > 1)
    <3>1. Left[i] # 0
      BY <2>2, <1>10
    <3>2. QED
      BY <3>1, <2>2, <1>2 DEF Rebuild, LinkedRest
  <2> HIDE DEF a
  <2>3. Left[i] > 0 => a \in DOMAIN mem
    BY <1>10, <1>11
  <2>4. QED
    BY <2>1, <2>2, <2>3 DEF RestHead
<1>16. (i \notin heap \/ Left[i] = 0) => mem' = mem
  <2>1. ~(0 > 1) /\ ~(0 > 0)
    OBVIOUS
  <2>2. QED
    BY <2>1, <1>2 DEF Rebuild, LinkedRest
<1>17. i \in heap /\ Left[i] > 1 => fl' = Append(fl, a) /\ fl_cur_size' = fl_cur_size + Left[i]
  <2>1. Left[i] > 1 => Left[i] # 0
    BY <1>10
  <2>2. QED
    BY <2>1, <1>2 DEF Rebuild, LinkedRest
<1>18. ~(i \in heap /\ Left[i] > 1) => fl' = fl /\ fl_cur_size' = fl_cur_size
  BY <1>2 DEF Rebuild, LinkedRest
<1>19. \A c : c # a => mem'[c] = mem[c]
  <2>1. CASE i \in heap /\ Left[i] > 0
    <3>1. PICK col : mem' = [mem EXCEPT ![a] = Hd(Left[i] - 1, "scan", col)]
      BY <2>1, <1>15
    <3> HIDE DEF a
    <3>2. QED
      BY <3>1, <1>11
  <2>2. CASE ~(i \in heap /\ Left[i] > 0)
    <3>1. i \notin heap \/ Left[i] = 0
      BY <2>2, <1>10
    <3>2. QED
      BY <3>1, <1>16
  <2>3. QED
    BY <2>1, <2>2
<1> HIDE DEF a
<1>20. \A j \in heap : j < i + 1 /\ Left[j] > 0 => mem'[RestOf(j)] = RestHead(j)
  <2> SUFFICES ASSUME NEW j \in heap, j < i + 1, Left[j] > 0 PROVE mem'[RestOf(j)] = RestHead(j)
    OBVIOUS
  <2>1. CASE j = i
    BY <2>1, <1>15 DEF a
  <2>2. CASE j # i
    <3>1. j < i
      BY <2>2, <1>13
    <3>2. RestOf(j) # a
      BY <3>1, <1>10
    <3>3. QED
      BY <3>1, <3>2, <1>9, <1>19
  <2>3. QED
    BY <2>1, <2>2
<1>21. ListInv'
  <2>1. CASE i \in heap /\ Left[i] > 1
    <3>1. \A c \in Range(fl) : c < a
      BY <1>14
    <3>2. /\ fl' \in Seq(Nat) /\ Range(fl') = Range(fl) \cup {a}
          /\ \A m, n \in DOMAIN fl' : m < n => fl'[m] < fl'[n]
      BY <2>1, <3>1, <1>9, <1>10, <1>17, ListGrows
    <3>3. \A j : j \in Freed(i + 1) <=> j \in Freed(i) \/ j = i
      BY <2>1, <1>13 DEF Freed
    <3>4. Range(fl') = {RestOf(j) : j \in Freed(i + 1)}
      BY <3>2, <3>3, <1>9 DEF a
    <3>5. IsFiniteSet(Range(fl))
      <4>1. IsFiniteSet(0 .. a)
        BY <1>10, FS_Interval
      <4>2. Range(fl) \subseteq 0 .. a
        BY <1>14, <1>10
      <4>3. QED
        BY <4>1, <4>2, FS_Subset
    <3>6. \A c \in Range(fl) : mem[c].wosize \in Int
      <4> SUFFICES ASSUME NEW c \in Range(fl) PROVE mem[c].wosize \in Int
        OBVIOUS
      <4>1. PICK j \in Freed(i) : c = RestOf(j)
        BY <1>9
      <4>2. j \in heap /\ j < i /\ Left[j] > 1
        BY <4>1 DEF Freed
      <4>3. Left[j] \in Nat /\ Left[j] > 0
        BY <4>2, <1>10
      <4>4. mem[c] = RestHead(j)
        BY <4>1, <4>2, <4>3, <1>9
      <4>5. mem[c].wosize = Left[j] - 1
        BY <4>4 DEF RestHead, Hd
      <4>6. QED
        BY <4>3, <4>5
    <3>7. a \notin Range(fl) /\ \A c \in Range(fl) : mem'[c] = mem[c]
      <4>1. a \notin Range(fl)
        BY <1>14, <1>10
      <4>2. QED
        BY <4>1, <1>19
    <3>8. mem'[a].wosize = Left[i] - 1 /\ Left[i] - 1 \in Int /\ (Left[i] - 1) + 1 = Left[i]
      <4>1. Left[i] > 0
        BY <2>1, <1>10
      <4>2. mem'[a] = RestHead(i)
        BY <4>1, <2>1, <1>15
      <4>3. QED
        BY <4>2, <1>10 DEF RestHead, Hd
    <3> DEFINE S == Range(fl)
               k == mem'
    <3>9. fl_cur_size' = SumFunction([b \in Range(fl') |-> mem'[b].wosize + 1])
      <4>1. IsFiniteSet(S) /\ (\A c \in S : mem[c].wosize \in Int) /\ a \notin S /\ (\A c \in S : k[c] = mem[c])
            /\ k[a].wosize = Left[i] - 1 /\ k[a].wosize \in Int
            /\ fl_cur_size' = SumFunction(Sizes(mem, S)) + Left[i]
        BY <3>5, <3>6, <3>7, <3>8, <2>1, <1>9, <1>17 DEF Sizes
      <4>2. Range(fl') = S \cup {a}
        BY <3>2
      <4> HIDE DEF S, k
      <4>3. SumFunction(Sizes(k, S \cup {a})) = SumFunction(Sizes(mem, S)) + (k[a].wosize + 1)
        <5>1. GrownBy(mem, S, k, a)
          BY <4>1 DEF GrownBy
        <5>2. QED
          BY <5>1, SumGrows
      <4>4. k[a].wosize + 1 = Left[i]
        BY <4>1, <3>8
      <4>5. QED
        BY <4>1, <4>2, <4>3, <4>4 DEF k, Sizes
    <3>10. QED
      BY <3>2, <3>4, <3>9, <1>3, <1>5, <1>8, <1>12, <1>20 DEF ListInv
  <2>2. CASE ~(i \in heap /\ Left[i] > 1)
    <3>1. \A j : j \in Freed(i + 1) <=> j \in Freed(i)
      BY <2>2, <1>13 DEF Freed
    <3>2. Freed(i + 1) = Freed(i)
      BY <3>1
    <3>3. \A c \in Range(fl) : mem'[c] = mem[c]
      BY <1>14, <1>10, <1>19
    <3>4. [b \in Range(fl) |-> mem'[b].wosize + 1] = [b \in Range(fl) |-> mem[b].wosize + 1]
      BY <3>3
    <3>5. fl' = fl /\ fl_cur_size' = fl_cur_size
      BY <2>2, <1>18
    <3>6. fl_cur_size' = SumFunction([b \in Range(fl') |-> mem'[b].wosize + 1])
      BY <3>4, <3>5, <1>9
    <3>7. QED
      BY <3>2, <3>5, <3>6, <1>3, <1>5, <1>8, <1>9, <1>12, <1>20 DEF ListInv
  <2>3. QED
    BY <2>1, <2>2
<1>22. QED
  BY <1>3, <1>4, <1>6, <1>8, <1>21 DEF FreeInv

LEMMA FreeKept ==
  ASSUME FreeInv, UNCHANGED <<heap, fl, fl_cur_size>>,
         pc \notin {"rebuild", "done", "fault"}, pc' \notin {"rebuild", "done", "fault"},
         pc' = "shrink" => p' = First(1)
  PROVE  FreeInv'
<1>1. heap' = ChunkNo /\ fl' = <<>> /\ fl_cur_size' = 0
  BY DEF FreeInv
<1>2. QED
  BY <1>1 DEF FreeInv

LEMMA FreeStart == Init => FreeInv
  BY DEF Init, FreeInv

LEMMA FreeStep == PassInv /\ FreeInv /\ [Next]_vars => FreeInv'
<1> SUFFICES ASSUME PassInv, FreeInv, [Next]_vars PROVE FreeInv'
  OBVIOUS
<1>1. CASE NextPass
  BY <1>1, PassEnds, FreeKept
<1>2. CASE Encode
  BY <1>2, FreeKept DEF Encode
<1>3. CASE InvertRoot
  BY <1>3, FreeKept DEF InvertRoot
<1>4. CASE InvertBlock
  BY <1>4, FreeKept DEF InvertBlock
<1>5. CASE Reallocate
  BY <1>5, FreeKept DEF Reallocate
<1>6. CASE Move
  BY <1>6, FreeKept DEF Move
<1>7. CASE Shrink
  BY <1>7, ShrinkFree
<1>8. CASE Rebuild
  BY <1>8, RebuildFree
<1>9. CASE Fault
  BY <1>9 DEF Fault, FreeInv
<1>10. CASE UNCHANGED vars
  <2>1. UNCHANGED <<mem, heap, alloc, pc, p, fl, fl_cur_size>>
    BY <1>10 DEF vars
  <2>2. Left' = Left /\ Wanted' = Wanted /\ Reach' = Reach /\ \A j : RestOf(j)' = RestOf(j) /\ RestHead(j)' = RestHead(j)
    BY <2>1 DEF Left, Wanted, Reach, RestOf, RestHead
  <2>3. \A x : Freed(x)' = Freed(x)
    BY <2>1, <2>2 DEF Freed
  <2>4. ListInv => ListInv'
    BY <2>1, <2>2, <2>3 DEF ListInv
  <2>5. ReserveKept => ReserveKept'
    BY <2>1, <2>2 DEF ReserveKept
  <2>6. QED
    BY <2>1, <2>4, <2>5 DEF FreeInv
<1>11. QED
  BY <1>1, <1>2, <1>3, <1>4, <1>5, <1>6, <1>7, <1>8, <1>9, <1>10 DEF Next, compact_heap

\* A block that has been moved: its head, and where it lies.
LEMMA MovedIs ==
  ASSUME PassInv, pc = "done", NEW d \in DOMAIN moved
  PROVE  /\ moved[d] \in Nat /\ mem[moved[d]] = before[d] /\ Whsize(before, d) = before[d].wosize + 1
         /\ before[d].kind = "hd" /\ before[d].color = "white" /\ before[d].wosize \in Nat /\ before[d].wosize > 0
         /\ \E j \in ChunkNo : Packed(before, alloc, moved, End, d, j)
         /\ \A e \in DOMAIN moved : e # d =>
              moved[d] + Whsize(before, d) <= moved[e] \/ moved[e] + Whsize(before, e) <= moved[d]
<1>1. WellFormed(before) /\ DOMAIN moved = Led(before, End) /\ Placed(before, alloc, moved, End)
  BY HeapFormed DEF PassInv, PlaceInv, Settled
<1>2. DOMAIN moved \subseteq Live(before)
  BY <1>1, ReachedLed
<1>3. \A e \in DOMAIN moved : e \in Heads(before) /\ e < End /\ e \in Int
  BY <1>1, HeadsFrom, BlockFacts DEF Led
<1>4. before[d].color = "white" /\ before[d].wosize > 0
  BY <1>2 DEF Live
<1>5. IsHead(before[d]) /\ before[d].wosize \in Nat
  BY <1>1, <1>3, BlockFacts
<1>6. before[d].kind = "hd"
  BY <1>5 DEF IsHead, Hd
<1>7. mem[moved[d]] = before[d]
  BY GraphStays DEF GraphKept
<1>8. moved[d] \in Nat /\ \E j \in ChunkNo : Packed(before, alloc, moved, End, d, j)
  BY <1>1, <1>3 DEF Placed
<1>9. ASSUME NEW e \in DOMAIN moved, e # d
      PROVE  moved[d] + Whsize(before, d) <= moved[e] \/ moved[e] + Whsize(before, e) <= moved[d]
  <2>1. d < e \/ e < d
    BY <1>3, <1>9
  <2>2. QED
    BY <2>1, <1>1, <1>3 DEF Placed
<1>10. QED
  BY <1>4, <1>5, <1>6, <1>7, <1>8, <1>9 DEF Whsize

\* The blocks that have been moved into chunk i, and the head of its rest.
MovedTo(i)   == {d \in DOMAIN moved : First(i) <= moved[d] /\ moved[d] < Limit(i)}
HeadsThen(i) == {moved[d] : d \in MovedTo(i)} \cup (IF Left[i] > 0 THEN {RestOf(i)} ELSE {})

LEMMA MovedInto ==
  ASSUME PassInv, pc = "done", NEW i \in ChunkNo, NEW d \in MovedTo(i)
  PROVE  Packed(before, alloc, moved, End, d, i)
<1>1. d \in DOMAIN moved /\ First(i) <= moved[d] /\ moved[d] < Limit(i)
  BY DEF MovedTo
<1>2. moved[d] \in Nat /\ before[d].wosize \in Nat /\ Whsize(before, d) = before[d].wosize + 1
  BY <1>1, MovedIs
<1>3. PICK j \in ChunkNo : Packed(before, alloc, moved, End, d, j)
  BY <1>1, MovedIs
<1>4. First(j) <= moved[d] /\ moved[d] + Whsize(before, d) <= First(j) + alloc[j]
  BY <1>3 DEF Packed
<1>5. alloc[j] \in Nat /\ alloc[j] <= Size(j) /\ First(j) \in Nat /\ Size(j) \in Nat /\ Limit(j) = First(j) + Size(j)
      /\ First(i) \in Nat /\ Limit(i) \in Nat
  BY ChunkTypes DEF PassInv, ShapeInv
<1>6. moved[d] \in Int /\ moved[d] <= Limit(j) /\ moved[d] <= Limit(i)
  BY <1>1, <1>2, <1>4, <1>5
<1>7. i = j
  BY <1>1, <1>4, <1>6, SameChunk
<1>8. QED
  BY <1>3, <1>7

LEMMA HeadsAfter ==
  ASSUME PassInv, FreeInv, pc = "done", NEW i \in heap PROVE i \in ChunkNo /\ HeadsOf(mem, i) = HeadsThen(i)
<1> DEFINE S == HeadsThen(i)
           r == RestOf(i)
<1>1. heap \subseteq ChunkNo /\ ListInv /\ i \in ChunkNo
  BY DEF FreeInv
<1>2. /\ Left[i] \in Nat /\ Left[i] = Size(i) - alloc[i] /\ r = First(i) + alloc[i] /\ r \in Nat
      /\ r + Left[i] = Limit(i) /\ First(i) <= r /\ r <= Limit(i) /\ alloc[i] \in Nat
  BY <1>1, RestFree DEF Settled
<1>3. First(i) \in Nat /\ Limit(i) \in Nat /\ Size(i) \in Nat /\ First(i) < Limit(i) /\ Limit(i) = First(i) + Size(i)
  BY <1>1, ChunkTypes
<1>4. Left[i] > 0 => mem[r] = RestHead(i)
  <2>1. Reach = Last + 1 /\ Last = Len(Chunks)
    BY DEF Reach, Last
  <2>2. Last \in Nat /\ i \in Nat /\ i <= Last
    BY <1>1, ChunkTypes DEF ChunkNo, Last
  <2>3. i < Reach
    BY <2>1, <2>2
  <2>4. QED
    BY <2>3, <1>1 DEF ListInv
<1>5. ASSUME NEW d \in MovedTo(i)
      PROVE  /\ moved[d] \in Nat /\ moved[d] \in S /\ mem[moved[d]] = before[d] /\ before[d].kind = "hd"
             /\ before[d].wosize \in Nat /\ Whsize(before, d) = before[d].wosize + 1
             /\ First(i) <= moved[d] /\ moved[d] < Limit(i) /\ moved[d] + Whsize(before, d) <= r
             /\ moved[d] + Whsize(before, d) = r \/ \E e \in DOMAIN moved : moved[e] = moved[d] + Whsize(before, d)
             /\ \A e \in MovedTo(i) : e # d =>
                  moved[d] + Whsize(before, d) <= moved[e] \/ moved[e] + Whsize(before, e) <= moved[d]
  <2>1. d \in DOMAIN moved /\ (\A e \in MovedTo(i) : e \in DOMAIN moved) /\ First(i) <= moved[d] /\ moved[d] < Limit(i)
    BY DEF MovedTo
  <2>2. Packed(before, alloc, moved, End, d, i)
    BY <1>1, <1>5, MovedInto
  <2>3. moved[d] \in S
    BY DEF HeadsThen
  <2> HIDE DEF S
  <2>4. QED
    BY <2>1, <2>2, <2>3, <1>2, MovedIs DEF Packed
<1>6. \A a : a \in S <=> (\E d \in MovedTo(i) : a = moved[d]) \/ (Left[i] > 0 /\ a = r)
  BY DEF HeadsThen
<1>7. First(i) \in S
  <2>1. CASE alloc[i] > 0
    <3>1. PICK d \in DOMAIN moved : moved[d] = First(i)
      BY <2>1, <1>1 DEF PassInv, PlaceInv, Settled, Placed
    <3>2. d \in MovedTo(i)
      BY <3>1, <1>3 DEF MovedTo
    <3>3. QED
      BY <3>1, <3>2, <1>5
  <2>2. CASE ~(alloc[i] > 0)
    <3>1. alloc[i] = 0 /\ r = First(i) /\ Left[i] > 0
      BY <2>2, <1>2, <1>3
    <3> HIDE DEF S
    <3>2. QED
      BY <3>1, <1>6
  <2>3. QED
    BY <2>1, <2>2
<1> HIDE DEF S, r
<1>8. ASSUME NEW a \in S
      PROVE  /\ Fits(mem, i, a)
             /\ NextHead(mem, a) \in S \/ NextHead(mem, a) = Limit(i)
             /\ \A b \in S : a < b => NextHead(mem, a) <= b
  <2>1. ASSUME NEW d \in MovedTo(i), a = moved[d]
        PROVE  /\ Fits(mem, i, a)
               /\ NextHead(mem, a) \in S \/ NextHead(mem, a) = Limit(i)
               /\ \A b \in S : a < b => NextHead(mem, a) <= b
    <3> DEFINE w == before[d].wosize
               n == moved[d] + Whsize(before, d)
    <3>1. /\ a \in Nat /\ mem[a].kind = "hd" /\ mem[a].wosize = w /\ w \in Nat /\ n = a + w + 1
          /\ First(i) <= a /\ a < Limit(i) /\ n <= r
      BY <2>1, <1>5
    <3>2. NextHead(mem, a) = n
      BY <3>1 DEF NextHead
    <3>3. n = r \/ \E e \in DOMAIN moved : moved[e] = n
      BY <1>5
    <3>4. \A e \in MovedTo(i) : e # d => n <= moved[e] \/ moved[e] + Whsize(before, e) <= a
      BY <2>1, <1>5
    <3> HIDE DEF w, n
    <3>5. Fits(mem, i, a)
      <4>1. a \in First(i) .. Limit(i) - 1
        BY <3>1, <1>3
      <4>2. w \in 0 .. Limit(i) - a - 1
        BY <3>1, <1>2, <1>3
      <4>3. QED
        BY <4>1, <4>2, <3>1 DEF Fits
    <3>6. n \in S \/ n = Limit(i)
      <4>1. CASE n = r
        <5>1. Left[i] > 0 \/ r = Limit(i)
          BY <1>2
        <5>2. QED
          BY <4>1, <5>1, <1>6
      <4>2. CASE n # r
        <5>1. PICK e \in DOMAIN moved : moved[e] = n
          BY <3>3, <4>2
        <5>2. n \in Nat /\ First(i) <= n /\ n < Limit(i)
          BY <4>2, <3>1, <1>2, <1>3
        <5>3. e \in MovedTo(i)
          BY <5>1, <5>2 DEF MovedTo
        <5>4. QED
          BY <5>1, <5>3, <1>5
      <4>3. QED
        BY <4>1, <4>2
    <3>7. ASSUME NEW b \in S, a < b PROVE n <= b
      <4>1. CASE b = r
        BY <4>1, <3>1
      <4>2. CASE \E e \in MovedTo(i) : b = moved[e]
        <5>1. PICK e \in MovedTo(i) : b = moved[e]
          BY <4>2
        <5>2. e # d
          BY <5>1, <3>1, <3>7, <2>1
        <5>3. moved[e] \in Nat /\ Whsize(before, e) = before[e].wosize + 1 /\ before[e].wosize \in Nat
          BY <1>5
        <5>4. ~(moved[e] + Whsize(before, e) <= a)
          BY <5>1, <5>3, <3>1, <3>7
        <5>5. QED
          BY <5>1, <5>2, <5>4, <3>4
      <4>3. QED
        BY <4>1, <4>2, <1>6
    <3>8. QED
      BY <3>2, <3>5, <3>6, <3>7
  <2>2. ASSUME Left[i] > 0, a = r
        PROVE  /\ Fits(mem, i, a)
               /\ NextHead(mem, a) = Limit(i)
               /\ \A b \in S : ~(a < b)
    <3>1. mem[a].kind = "hd" /\ mem[a].wosize = Left[i] - 1
      BY <2>2, <1>4 DEF RestHead, Hd
    <3>2. a \in First(i) .. Limit(i) - 1 /\ Left[i] - 1 \in 0 .. Limit(i) - a - 1 /\ a + (Left[i] - 1) + 1 = Limit(i)
      BY <2>2, <1>2, <1>3
    <3>3. ASSUME NEW b \in S PROVE ~(a < b)
      <4>1. CASE b = r
        BY <4>1, <2>2, <1>2
      <4>2. CASE \E e \in MovedTo(i) : b = moved[e]
        <5>1. PICK e \in MovedTo(i) : b = moved[e]
          BY <4>2
        <5>2. moved[e] \in Nat /\ Whsize(before, e) \in Nat /\ moved[e] + Whsize(before, e) <= r
          BY <1>5
        <5>3. QED
          BY <5>1, <5>2, <2>2, <1>2
      <4>3. QED
        BY <4>1, <4>2, <1>6
    <3>4. QED
      BY <3>1, <3>2, <3>3 DEF Fits, NextHead
  <2>3. QED
    BY <2>1, <2>2, <1>6
<1>9. HeadsOf(mem, i) = S
  BY <1>1, <1>7, <1>8, HeadsAre
<1>10. QED
  BY <1>1, <1>9 DEF S

LEMMA ListRebuilt ==
  ASSUME PassInv, FreeInv, pc = "done" PROVE HeapRebuilt
<1> DEFINE heads == UNION {HeadsOf(mem, i) : i \in heap}
           free  == Range(fl)
<1>1. heap \subseteq ChunkNo /\ ReserveKept /\ ListInv
  BY DEF FreeInv
<1>2. Reach = Last + 1 /\ \A j \in heap : j < Reach
  <2>1. Reach = Last + 1 /\ Last = Len(Chunks)
    BY DEF Reach, Last
  <2>2. Last \in Nat /\ \A j \in ChunkNo : j \in Nat /\ j <= Last
    BY ChunkTypes DEF ChunkNo, Last
  <2>3. QED
    BY <2>1, <2>2, <1>1
<1>3. \A j \in heap : Left[j] \in Nat /\ (Left[j] > 0 => mem[RestOf(j)] = RestHead(j))
  BY <1>1, <1>2, LeftTypes DEF ListInv
<1>4. \A d \in DOMAIN moved : mem[moved[d]].color = "white" /\ mem[moved[d]].wosize > 0
  BY MovedIs
<1>5. \A j \in heap : Left[j] > 1 => mem[RestOf(j)].color = "blue" /\ mem[RestOf(j)].wosize > 0
  <2> SUFFICES ASSUME NEW j \in heap, Left[j] > 1 PROVE mem[RestOf(j)].color = "blue" /\ mem[RestOf(j)].wosize > 0
    OBVIOUS
  <2>1. Left[j] \in Nat /\ mem[RestOf(j)] = RestHead(j)
    BY <1>3
  <2>2. RestHead(j).color = "blue" /\ RestHead(j).wosize = Left[j] - 1
    BY DEF RestHead, Hd
  <2>3. QED
    BY <2>1, <2>2
<1>6. \A j \in heap : Left[j] > 0 /\ ~(Left[j] > 1) => mem[RestOf(j)].color = "white" /\ ~(mem[RestOf(j)].wosize > 0)
  <2> SUFFICES ASSUME NEW j \in heap, Left[j] > 0, ~(Left[j] > 1)
               PROVE  mem[RestOf(j)].color = "white" /\ ~(mem[RestOf(j)].wosize > 0)
    OBVIOUS
  <2>1. Left[j] \in Nat /\ mem[RestOf(j)] = RestHead(j)
    BY <1>3
  <2>2. RestHead(j).color = "white" /\ RestHead(j).wosize = Left[j] - 1
    BY DEF RestHead, Hd
  <2>3. QED
    BY <2>1, <2>2
<1>7. \A c : c \in free <=> \E j \in heap : Left[j] > 1 /\ c = RestOf(j)
  BY <1>1, <1>2 DEF ListInv, Freed
<1>8. \A c : c \in heads <=> \E i \in heap : c \in HeadsThen(i)
  BY HeadsAfter
<1>9. ASSUME NEW c \in heads PROVE (\E d \in DOMAIN moved : c = moved[d]) \/ \E j \in heap : Left[j] > 0 /\ c = RestOf(j)
  BY <1>8, <1>9 DEF HeadsThen, MovedTo
<1>10. ASSUME NEW j \in heap, Left[j] > 0 PROVE RestOf(j) \in heads
  <2>1. RestOf(j) \in HeadsThen(j)
    BY <1>10 DEF HeadsThen
  <2>2. QED
    BY <2>1, <1>8
<1>11. ASSUME NEW d \in DOMAIN moved PROVE moved[d] \in heads
  <2>1. PICK j \in ChunkNo : Packed(before, alloc, moved, End, d, j)
    BY MovedIs
  <2>2. moved[d] \in Nat /\ before[d].wosize \in Nat /\ Whsize(before, d) = before[d].wosize + 1
    BY MovedIs
  <2>3. First(j) <= moved[d] /\ moved[d] + Whsize(before, d) <= First(j) + alloc[j]
    BY <2>1 DEF Packed
  <2>4. alloc[j] \in Nat /\ alloc[j] <= Size(j) /\ First(j) \in Nat /\ Size(j) \in Nat /\ Limit(j) = First(j) + Size(j)
    BY ChunkTypes DEF PassInv, ShapeInv
  <2>5. alloc[j] # 0 /\ moved[d] < Limit(j)
    BY <2>2, <2>3, <2>4
  <2>6. j \in heap
    BY <2>5, <1>1 DEF ReserveKept
  <2>7. moved[d] \in HeadsThen(j)
    BY <2>3, <2>5 DEF HeadsThen, MovedTo
  <2> HIDE DEF heads
  <2>8. QED
    BY <2>6, <2>7, <1>8
<1> HIDE DEF heads, free
<1>12. \A b \in free : mem[b].wosize > 0
  BY <1>5, <1>7
<1>13. {b \in heads : mem[b].color = "blue"} = free
  <2>1. \A b \in free : b \in heads /\ mem[b].color = "blue"
    <3>1. ASSUME NEW b \in free PROVE b \in heads /\ mem[b].color = "blue"
      <4>1. PICK j \in heap : Left[j] > 1 /\ b = RestOf(j)
        BY <1>7
      <4>2. Left[j] > 0
        BY <4>1, <1>3
      <4>3. QED
        BY <4>1, <4>2, <1>5, <1>10
    <3>2. QED
      BY <3>1
  <2>2. \A b \in heads : mem[b].color = "blue" => b \in free
    BY <1>4, <1>6, <1>7, <1>9
  <2>3. QED
    BY <2>1, <2>2
<1>14. {b \in heads : mem[b].color = "white" /\ mem[b].wosize > 0} = {moved[b] : b \in DOMAIN moved}
  <2>1. \A d \in DOMAIN moved : moved[d] \in heads /\ mem[moved[d]].color = "white" /\ mem[moved[d]].wosize > 0
    BY <1>4, <1>11
  <2>2. \A b \in heads : mem[b].color = "white" /\ mem[b].wosize > 0 => \E d \in DOMAIN moved : b = moved[d]
    BY <1>5, <1>6, <1>9
  <2>3. QED
    BY <2>1, <2>2
<1>15. /\ \A m, n \in DOMAIN fl : m < n => fl[m] < fl[n]
       /\ fl_cur_size = SumFunction([b \in free |-> mem[b].wosize + 1])
  BY <1>1 DEF ListInv, free
<1>16. QED
  BY <1>12, <1>13, <1>14, <1>15 DEF HeapRebuilt, heads, free

\* After a compaction the program finds what it could reach, moved but as it was, all the
\* rest of the heap is in the free list, and enough of it is left.
THEOREM HeapCompacted == Spec => []CompactionSound
<1>1. PassInv /\ FreeInv => CompactionSound
  BY GraphStays, ListRebuilt DEF CompactionSound, FreeInv
<1>2. QED
  BY <1>1, InitInv, StepInv, FreeStart, FreeStep, PTL DEF Spec
=============================================================================

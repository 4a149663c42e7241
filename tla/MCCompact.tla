------------------------------ MODULE MCCompact ------------------------------
(***************************************************************************)
(* Heaps for the compactor: blocks of given sizes, at most two of which are *)
(* not scanned or not in use.  Their fields lead d blocks further, around   *)
(* the heap, or out of it.  A free block and a string hold words that only  *)
(* look like pointers.                                                      *)
(***************************************************************************)
EXTENDS Compact, SequencesExt

MCChunks == << [start |-> 2, size |-> 6], [start |-> 9, size |-> 4], [start |-> 14, size |-> 4] >>

\* where the blocks begin and the words they have, in order
Layouts == { << <<2, 2>>, <<4, 3>>, <<9, 4>>, <<14, 2>>, <<16, 2>> >>,
             << <<2, 3>>, <<5, 2>>, <<9, 2>>, <<11, 2>>, <<14, 4>> >> }
\* a value outside the heap
Static == Ptr(1)

\* the blocks of one word, which are fragments
Fragment == 7

Kinds == {"scan", "raw", "custom", "free"}
KindsOf(l) == {k \in [DOMAIN l -> Kinds] : /\ Cardinality({n \in DOMAIN l : k[n] # "scan"}) <= 2
                                           /\ Cardinality({n \in DOMAIN l : k[n] = "raw"}) <= 1}

\* layout l, kinds k, the distance d, whether fields behind the first point, too, and the roots
Memory(l, k, d, twice, r) ==
  LET val(n) == Ptr(l[n][1] + 1)
      to     == [n \in DOMAIN l |-> ((n + d - 1) % Len(l)) + 1]
      word   == [n \in DOMAIN l |-> IF k[to[n]] = "free" /\ k[n] = "scan" THEN Imm ELSE val(to[n])]
      owner  == [c \in Words \ {Fragment} |-> CHOOSE n \in DOMAIN l : c - l[n][1] \in 0 .. l[n][2] - 1]
  IN [c \in Words \cup Root |->
        IF c \in Root THEN (IF r[c] = 0 THEN Imm ELSE val(r[c]))
        ELSE IF c \notin DOMAIN owner THEN Hd(0, "scan", "white")
        ELSE LET n == owner[c]
             IN IF c = l[n][1]
                THEN IF k[n] = "free" THEN Hd(l[n][2] - 1, "scan", "blue")
                     ELSE Hd(l[n][2] - 1, k[n], "white")
                ELSE IF c = l[n][1] + 1 \/ twice THEN word[n] ELSE Static]

MCHeaps ==
  UNION {{Memory(l, k, d, twice, r) :
            d \in {0, 3}, twice \in BOOLEAN,
            r \in [Root -> {0} \cup {n \in DOMAIN l : k[n] # "free"}]}
         : <<l, k>> \in UNION {{l} \X KindsOf(l) : l \in Layouts}}
=============================================================================

------------------------------ MODULE Allocator ------------------------------
(***************************************************************************)
(* What the major heap promises to its users: an allocated block keeps its *)
(* words until the program has dropped it, and nobody else gets them.      *)
(***************************************************************************)
EXTENDS Integers

CONSTANT Words  \* the addresses that the heap can ever have

VARIABLE held   \* for each block in use, by its address, the words after its header

Extent(hp, wosize) == hp .. hp + wosize

Taken == UNION {Extent(b, held[b]) : b \in DOMAIN held}

Init == held = [b \in {} |-> 0]

\* a block of fresh words, a header and at least one more
Alloc ==
  \E hp, last \in Words :
    /\ hp < last
    /\ hp .. last \subseteq Words \ Taken
    /\ held' = [b \in DOMAIN held \cup {hp} |-> IF b = hp THEN last - hp ELSE held[b]]

\* some blocks are given back
Free == \E kept \in SUBSET DOMAIN held : held' = [b \in kept |-> held[b]]

\* a block gives back some of its last words
Shorten ==
  \E b \in DOMAIN held : \E wosize \in 1 .. held[b] :
    held' = [held EXCEPT ![b] = wosize]

Next == Alloc \/ Free \/ Shorten

Spec == Init /\ [][Next]_held
=============================================================================

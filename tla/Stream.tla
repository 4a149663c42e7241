------------------------------- MODULE Stream --------------------------------
(***************************************************************************)
(* What a buffered output channel (prim/primio.c) promises to a program:  *)
(* the bytes that it has accepted reach the file in their order, each of  *)
(* them once, with at most a buffer of them on the way, and all of them   *)
(* before the channel is closed or its block finalised.                   *)
(***************************************************************************)
EXTENDS Integers, Sequences

CONSTANTS
  Outs,          \* the channels
  Size           \* the capacity of a buffer

VARIABLES
  accepted,      \* for every channel, the bytes taken from the program
  delivered,     \* the bytes that have reached the file
  closed         \* whether the channel takes no more

vars == <<accepted, delivered, closed>>

Leads(s, t) == Len(s) <= Len(t) /\ \A i \in 1 .. Len(s) : s[i] = t[i]

\* what both may have in front: a file that existed is appended to
Init ==
  /\ \A c \in Outs : accepted[c] = delivered[c]
  /\ closed = [c \in Outs |-> FALSE]

Move(c) ==
  /\ ~closed[c]
  /\ Leads(accepted[c], accepted'[c])
  /\ Leads(delivered[c], delivered'[c])
  /\ Leads(delivered'[c], accepted'[c])
  /\ Len(accepted'[c]) - Len(delivered'[c]) <= Size
  /\ UNCHANGED closed

Close(c) ==
  /\ ~closed[c]
  /\ delivered[c] = accepted[c]
  /\ closed' = [closed EXCEPT ![c] = TRUE]
  /\ UNCHANGED <<accepted, delivered>>

Next ==
  \E c \in Outs :
    /\ Move(c) \/ Close(c)
    /\ \A o \in Outs \ {c} : accepted'[o] = accepted[o] /\ delivered'[o] = delivered[o]

Spec == Init /\ [][Next]_vars
=============================================================================

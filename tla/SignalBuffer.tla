---------------------------- MODULE SignalBuffer ----------------------------
(***************************************************************************)
(* What the pending-signal queue of core/signals.c promises to the        *)
(* scheduler: a first-in first-out buffer into which any thread or signal *)
(* handler puts a signal and from which only the scheduler takes one.     *)
(* Nothing is said of a capacity: the comments of push_pending_signal     *)
(* promise that a full buffer records the loss, and the index arithmetic  *)
(* of the code never reaches that branch (see InBounds of SignalQueue).   *)
(***************************************************************************)
EXTENDS Sequences

CONSTANTS
  Signal,        \* the signals that can be queued
  NoSignal       \* what has been taken before the first one

VARIABLES
  buf,           \* the signals that wait, oldest first
  taken          \* the signal taken last

Init == buf = <<>> /\ taken = NoSignal

Put(s) == buf' = Append(buf, s) /\ taken' = taken

Take == /\ buf # <<>>
        /\ taken' = Head(buf)
        /\ buf' = Tail(buf)

Next == Take \/ \E s \in Signal : Put(s)

Spec == Init /\ [][Next]_<<buf, taken>>
=============================================================================

---------------------------- MODULE MCSignalQueue ----------------------------
(***************************************************************************)
(* The pending-signal queue for model checking.  Handler activations are  *)
(* interchangeable, and so are the operating system's signals, as long as *)
(* no liveness property is checked.                                        *)
(***************************************************************************)
EXTENDS SignalQueue, TLC

Symmetry == Permutations(Handlers) \cup Permutations(OsSignals)
=============================================================================

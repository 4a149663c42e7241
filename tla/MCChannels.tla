----------------------------- MODULE MCChannels ------------------------------
(***************************************************************************)
(* Instances of Channels: buffers of two bytes, files of up to four, one   *)
(* descriptor.  A behaviour is one of output, in which an input channel    *)
(* may have the descriptor for a while, or one of input.                   *)
(***************************************************************************)
EXTENDS Channels

CONSTANTS a, nl,     \* two bytes
          i, o       \* the channels

VARIABLE part        \* "output" or "input"

MCRequests == {<<nl, a, nl>>, <<a, nl>>}
MCSources  == {<<a, nl, a, nl>>, <<a, a, a, nl>>, <<nl, a>>}
MCContents == {<<a>>} \cup MCSources

MCInit ==
  /\ Init /\ part \in {"output", "input"}
  /\ file[o] = <<a>>
  /\ part = "input" <=> file[i] \in MCSources

MCNext ==
  /\ Next /\ UNCHANGED part
  /\ part = "output" => call'.op \notin ReadOps
  /\ part = "input" => status'[o] = "new"

MCSpec == MCInit /\ [][MCNext]_<<vars, part>>
=============================================================================

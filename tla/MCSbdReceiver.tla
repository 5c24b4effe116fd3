--------------------------- MODULE MCSbdReceiver ---------------------------
(* Receivers with a few streams, for TLC. *)
EXTENDS SbdReceiver

\* A message with a byte to spare, and a wrong header.
MCStreams ==
  {[empty |-> 0, proto |-> TRUE, length |-> 1, body |-> "mo", sent |-> 5],
   [empty |-> 0, proto |-> FALSE, length |-> 1, body |-> "mo", sent |-> 4]}
=============================================================================

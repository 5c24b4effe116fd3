------------------------------ MODULE MtOutbox ------------------------------
(***************************************************************************)
(* What SbdTransmitter promises to its client: an outbox from which the    *)
(* messages are delivered to the gateway one by one in the order in which  *)
(* they were posted, each once, and which the client may empty at any time *)
(* except for a message that is being transmitted.                         *)
(***************************************************************************)
EXTENDS Naturals, Sequences

CONSTANT Messages

VARIABLES outbox,       \* accepted and not yet delivered, in posting order
          delivered     \* those whose positive confirmation was reported

Init == /\ outbox = <<>>
        /\ delivered = {}

Waiting == {outbox[i] : i \in 1 .. Len(outbox)}

Post == \E m \in Messages \ (delivered \union Waiting) :
           /\ outbox' = Append(outbox, m)
           /\ UNCHANGED delivered

Deliver == /\ outbox # <<>>
           /\ delivered' = delivered \union {Head(outbox)}
           /\ outbox' = Tail(outbox)

Drop == /\ outbox # <<>>
        /\ outbox' \in {<<>>, <<Head(outbox)>>}
        /\ UNCHANGED delivered

Next == Post \/ Deliver \/ Drop

Spec == Init /\ [][Next]_<<outbox, delivered>>
=============================================================================

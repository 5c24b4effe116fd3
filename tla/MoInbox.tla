------------------------------ MODULE MoInbox ------------------------------
(***************************************************************************)
(* What the receiving side promises to its client: the stream of bytes of  *)
(* each connection is answered at most once, and what the answer is        *)
(* depends on the stream alone, not on how it was cut up on its way.       *)
(*                                                                         *)
(* A stream opens with a number of headers that announce nothing, usually  *)
(* none; then comes the header of a message, the message, and anything.    *)
(*   empty    headers announcing no bytes                                  *)
(*   proto    whether the message's header has the right protocol number   *)
(*   length   what it announces                                            *)
(*   body     the message: MO, of another category, or unparsable          *)
(*   sent     number of bytes the peer sends before it closes              *)
(***************************************************************************)
EXTENDS Naturals, Sequences

CONSTANTS Connections, HeaderSize

VARIABLES stream,       \* the stream of each connection
          answer        \* the signals emitted for each connection

MessageEnd(s) == HeaderSize * (s.empty + 1) + s.length

HasMessage(s) == s.proto /\ s.body = "mo" /\ s.sent >= MessageEnd(s)

\* The client is told what follows a message only if it came along with it;
\* a stream that opens with an empty header may be given up.
Answers(s) ==
  {a \in {<<"message">>, <<"message", "error">>, <<"error">>} :
     /\ Head(a) = "message" => HasMessage(s)
     /\ a = <<"error">> => ~ HasMessage(s) \/ s.empty > 0
     /\ a = <<"message", "error">> => s.sent > MessageEnd(s)}

Init == answer = [c \in Connections |-> <<>>]

Answer(c) == /\ answer[c] = <<>>
             /\ \E a \in Answers(stream[c]) : answer' = [answer EXCEPT ![c] = a]

Next == /\ \E c \in Connections : Answer(c)
        /\ UNCHANGED stream

Spec == Init /\ [][Next]_<<stream, answer>>
=============================================================================

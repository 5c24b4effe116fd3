------------------------ MODULE IncomingSbdSession -------------------------
(***************************************************************************)
(* IncomingSbdSession: receives one MO message from the gateway over a     *)
(* connection that SbdReceiver accepted (src/IncomingSbdSession.cpp).      *)
(* There is a session for each connection; each is a chain of reads whose  *)
(* handler, onRead(), runs on the one thread of the io_service, so that a  *)
(* handler is a step.  The bytes of a connection may be cut into chunks    *)
(* anywhere.  MoInbox describes the streams.                               *)
(***************************************************************************)
EXTENDS Integers, Sequences

CONSTANTS Connections,
          Streams,              \* what peers may send
          MaxMessageSize        \* MoMessage::MaxMessageSize

HeaderSize == 3                 \* sizeof(MessageHeader)

StreamType == [empty : Nat, proto : BOOLEAN, length : Nat \ {0},
               body : {"mo", "other", "unparsable"}, sent : Nat]

ASSUME SessionAssumption == /\ Streams \subseteq StreamType
                            /\ MaxMessageSize \in Nat \ {0}

VARIABLES
  stream,               \* what the peer of each connection sends
  session,              \* "none", "reading" or "ended"
  m_inBuf,              \* number of bytes in the buffer
  offset,               \* number of bytes consumed
  m_messageLength,
  receiver,             \* m_receiver has not expired
  reports               \* the signals emitted for each connection

buffer == <<m_inBuf, offset, m_messageLength>>
sessionVars == <<stream, session, buffer, receiver, reports>>

SessionInit ==
  /\ stream \in [Connections -> Streams]
  /\ session = [c \in Connections |-> "none"]
  /\ m_inBuf = [c \in Connections |-> 0]
  /\ offset = [c \in Connections |-> 0]
  /\ m_messageLength = [c \in Connections |-> 0]
  /\ receiver = TRUE
  /\ reports = [c \in Connections |-> <<>>]

run(c) == /\ session[c] = "none"
          /\ session' = [session EXCEPT ![c] = "reading"]

-----------------------------------------------------------------------------
(* The stream as the handler finds it.                                     *)

Received(c) == offset[c] + m_inBuf[c]

\* The sizes of the buffers given to the first read and to later ones.
Prepared(c) == IF Received(c) = 0 THEN MaxMessageSize + HeaderSize ELSE MaxMessageSize

\* The sizes a chunk may have.
Chunks(c) == {n \in 1 .. Prepared(c) : Received(c) + n <= stream[c].sent}

HeaderAt(c) == IF offset[c] < HeaderSize * stream[c].empty
               THEN [proto |-> TRUE, length |-> 0]
               ELSE [proto |-> stream[c].proto, length |-> stream[c].length]

\* With n more bytes the header can be read, if it was not read before.  A
\* header that announced no bytes counts as not read.
HeaderComes(c, n) == m_messageLength[c] = 0 /\ m_inBuf[c] + n >= HeaderSize

\* Faulty variant: the header stays in the buffer, and counts as message.
HeaderBytesKept(c, n) == 0

\* The header is taken off the buffer, which is then of size Size(c, n).
HeaderBytes(c, n) == IF HeaderComes(c, n) THEN HeaderSize ELSE 0

Size(c, n) == m_inBuf[c] + n - HeaderBytes(c, n)

Length(c, n) == IF HeaderComes(c, n) THEN HeaderAt(c).length ELSE m_messageLength[c]

Accepted(c, n) == HeaderComes(c, n) => HeaderAt(c).proto

\* Faulty variant: asks for one byte beyond the message.
CompleteWithSurplus(c, n) == Length(c, n) > 0 /\ Size(c, n) > Length(c, n)

Complete(c, n) == Length(c, n) > 0 /\ Size(c, n) >= Length(c, n)

-----------------------------------------------------------------------------
(* The handler of a read.                                                  *)

\* Nobody is told when the receiver is gone.
Report(c, signals) ==
  reports' = IF receiver THEN [reports EXCEPT ![c] = @ \o signals] ELSE reports

End(c) == session' = [session EXCEPT ![c] = "ended"]

Consume(c, n, rest) ==
  /\ m_inBuf' = [m_inBuf EXCEPT ![c] = rest]
  /\ offset' = [offset EXCEPT ![c] = Received(c) + n - rest]

\* Faulty variant: reads again after a failure.
ReadAgain(c) ==
  /\ session[c] = "reading"
  /\ Received(c) = stream[c].sent
  /\ UNCHANGED <<session, stream, buffer, receiver, reports>>

\* The peer closed the connection, or it broke.
ReadFails(c) ==
  /\ session[c] = "reading"
  /\ Received(c) = stream[c].sent
  /\ Report(c, <<"error">>)
  /\ End(c)
  /\ UNCHANGED <<stream, buffer, receiver>>

HeaderRefused(c, n) ==
  /\ ~ Accepted(c, n)
  /\ Consume(c, n, Size(c, n))
  /\ Report(c, <<"error">>)
  /\ End(c)
  /\ UNCHANGED m_messageLength

ReadOn(c, n) ==
  /\ Accepted(c, n) /\ ~ Complete(c, n)
  /\ Consume(c, n, Size(c, n))
  /\ m_messageLength' = [m_messageLength EXCEPT ![c] = Length(c, n)]
  /\ UNCHANGED <<session, reports>>

\* Not an MO message, or one that cannot be parsed.
MessageRefused(c, n) ==
  /\ Accepted(c, n) /\ Complete(c, n) /\ stream[c].body # "mo"
  /\ Consume(c, n, Size(c, n))
  /\ m_messageLength' = [m_messageLength EXCEPT ![c] = Length(c, n)]
  /\ Report(c, <<"error">>)
  /\ End(c)

\* Bytes beyond the message are an error, which comes after it.
MessageReported(c, n) ==
  LET surplus == Size(c, n) - Length(c, n)
  IN  /\ Accepted(c, n) /\ Complete(c, n) /\ stream[c].body = "mo"
      /\ Consume(c, n, surplus)
      /\ m_messageLength' = [m_messageLength EXCEPT ![c] = Length(c, n)]
      /\ Report(c, IF surplus > 0 THEN <<"message", "error">> ELSE <<"message">>)
      /\ End(c)

BytesReceived(c) ==
  /\ session[c] = "reading"
  /\ \E n \in Chunks(c) : \/ HeaderRefused(c, n) \/ ReadOn(c, n)
                          \/ MessageRefused(c, n) \/ MessageReported(c, n)
  /\ UNCHANGED <<stream, receiver>>

onRead(c) == ReadFails(c) \/ BytesReceived(c)

-----------------------------------------------------------------------------
(* Sessions by themselves: SbdReceiver starts them, and may go.            *)

Begin(c) == run(c) /\ UNCHANGED <<stream, buffer, receiver, reports>>

ReceiverGoes == /\ receiver
                /\ receiver' = FALSE
                /\ UNCHANGED <<stream, session, buffer, reports>>

SessionNext == \/ ReceiverGoes
               \/ \E c \in Connections : Begin(c) \/ onRead(c)

SessionSpec == SessionInit /\ [][SessionNext]_sessionVars

\* Peers go on: they send what they have to send, and close the connection.
SessionLiveSpec == SessionSpec /\ \A c \in Connections : WF_sessionVars(onRead(c))

-----------------------------------------------------------------------------
Inbox == INSTANCE MoInbox WITH answer <- reports

\* onRead(): however the bytes of a connection are cut into chunks, it is
\* reported once, as a message exactly if there is one in its stream.
ImplementsInbox == Inbox!Spec

\* onRead(), "continue read": a session does not wait for bytes beyond its
\* message, or for any after a wrong header; not so after an empty header,
\* which is looked at again only when further bytes come.
Prompt ==
  \A c \in Connections :
    session[c] = "reading" /\ stream[c].empty = 0 =>
      Received(c) < IF stream[c].proto THEN Inbox!MessageEnd(stream[c]) ELSE HeaderSize

\* Every session comes to its end, and as long as there is a receiver none ends
\* without an answer.
Answered ==
  \A c \in Connections :
    session[c] = "reading" ~> (session[c] = "ended" /\ (receiver => reports[c] # <<>>))
=============================================================================

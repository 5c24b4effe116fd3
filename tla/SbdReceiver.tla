---------------------------- MODULE SbdReceiver ----------------------------
(***************************************************************************)
(* SbdReceiver: accepts the gateway's connections and starts a session for *)
(* each (src/SbdReceiver.cpp).  Its client calls start(), stop() and the   *)
(* destructor on the thread of the io_service or before it runs, as        *)
(* examples/directip/receiver does, so that calls and handlers are steps.  *)
(***************************************************************************)
EXTENDS IncomingSbdSession

CONSTANTS NoConnection,         \* of a socket that is not open
          MaxStops              \* bound: calls of stop()

ASSUME ReceiverAssumption == /\ NoConnection \notin Connections
                             /\ MaxStops \in Nat

VARIABLES
  m_acceptor,           \* is it open?
  m_sentinel,           \* is there one?
  m_socket,             \* the connection accepted last, until its handler runs
  accepts,              \* number of async_accept under way
  ready,                \* results of ended ones, whose handlers wait to run
  arrived, backlog,     \* connections that were made; those not yet accepted
  lost,                 \* those that were closed before they had a session
  stops                 \* counter: calls of stop()

accepting == <<m_socket, accepts, ready>>
network == <<arrived, backlog, lost>>
vars == <<sessionVars, m_acceptor, m_sentinel, accepting, network, stops>>

Init == /\ SessionInit
        /\ m_acceptor = FALSE /\ m_sentinel = FALSE
        /\ m_socket = NoConnection
        /\ accepts = 0 /\ ready = <<>>
        /\ arrived = {} /\ backlog = <<>> /\ lost = {}
        /\ stops = 0

Elements(seq) == {seq[i] : i \in DOMAIN seq}

\* x occurs once at most.
Once(seq, x) == \A i, j \in DOMAIN seq : seq[i] = x /\ seq[j] = x => i = j

-----------------------------------------------------------------------------
(* The network, and boost::asio (as of 1.62, which the build asks for).    *)

\* A peer connects; a connection to a port that nobody listens on fails.
Connect(c) ==
  /\ m_acceptor
  /\ c \notin arrived
  /\ arrived' = arrived \union {c}
  /\ backlog' = Append(backlog, c)
  /\ UNCHANGED <<sessionVars, m_acceptor, m_sentinel, accepting, lost, stops>>

\* The connection goes to m_socket; if that is open already, the connection is
\* closed and the operation fails.
AcceptEnds ==
  /\ accepts > 0 /\ backlog # <<>>
  /\ accepts' = accepts - 1
  /\ backlog' = Tail(backlog)
  /\ IF m_socket = NoConnection
     THEN /\ m_socket' = Head(backlog)
          /\ ready' = Append(ready, "accepted")
          /\ UNCHANGED lost
     ELSE /\ ready' = Append(ready, "failed")
          /\ lost' = lost \union {Head(backlog)}
          /\ UNCHANGED m_socket
  /\ UNCHANGED <<sessionVars, m_acceptor, m_sentinel, arrived, stops>>

\* The process is short of descriptors or memory.
AcceptFails ==
  /\ accepts > 0 /\ backlog # <<>>
  /\ accepts' = accepts - 1
  /\ ready' = Append(ready, "failed")
  /\ UNCHANGED <<sessionVars, m_acceptor, m_sentinel, m_socket, network, stops>>

\* async_accept, with the acceptor and m_socket as given: on a closed acceptor,
\* or into an open socket, it fails at once.  Handlers waiting are those of rest.
AsyncAccept(open, socket, rest) ==
  IF open /\ socket = NoConnection
  THEN accepts' = accepts + 1 /\ ready' = rest
  ELSE ready' = Append(rest, "failed") /\ UNCHANGED accepts

-----------------------------------------------------------------------------
(* The handler of an accept, and the calls.                                *)

HandlerOf(result) == ready # <<>> /\ Head(ready) = result

\* Faulty variant: does not accept again.
ConnectionAcceptedLast ==
  /\ HandlerOf("accepted")
  /\ run(m_socket)
  /\ m_socket' = NoConnection
  /\ ready' = Tail(ready)
  /\ UNCHANGED <<stream, buffer, receiver, reports, m_acceptor, m_sentinel, accepts,
                 network, stops>>

\* Faulty variant: accepts where it starts the session, and at the end.
ConnectionAcceptedTwice ==
  /\ HandlerOf("accepted")
  /\ run(m_socket)
  /\ m_socket' = NoConnection
  /\ m_acceptor
  /\ accepts' = accepts + 2
  /\ ready' = Tail(ready)
  /\ UNCHANGED <<stream, buffer, receiver, reports, m_acceptor, m_sentinel, network,
                 stops>>

\* Faulty variant: the session works on a copy of the socket.
ConnectionAcceptedKept ==
  /\ HandlerOf("accepted")
  /\ run(m_socket)
  /\ AsyncAccept(m_acceptor, m_socket, Tail(ready))
  /\ UNCHANGED <<stream, buffer, receiver, reports, m_acceptor, m_sentinel, m_socket,
                 network, stops>>

ConnectionAccepted ==
  /\ HandlerOf("accepted")
  /\ run(m_socket)
  /\ m_socket' = NoConnection
  /\ AsyncAccept(m_acceptor, NoConnection, Tail(ready))
  /\ UNCHANGED <<stream, buffer, receiver, reports, m_acceptor, m_sentinel, network,
                 stops>>

\* Faulty variant: only a success is followed by another accept.
AcceptFailedEnds ==
  /\ HandlerOf("failed")
  /\ ready' = Tail(ready)
  /\ UNCHANGED <<sessionVars, m_acceptor, m_sentinel, m_socket, accepts, network, stops>>

\* Any error but operation_aborted: accept again.  On a closed acceptor this
\* goes round without end.
AcceptFailed ==
  /\ HandlerOf("failed")
  /\ AsyncAccept(m_acceptor, m_socket, Tail(ready))
  /\ UNCHANGED <<sessionVars, m_acceptor, m_sentinel, m_socket, network, stops>>

AcceptHandler == ConnectionAccepted \/ AcceptFailed

\* A start() that cannot listen throws and leaves everything as it was.
start ==
  /\ receiver /\ ~ m_acceptor
  /\ m_acceptor' = TRUE
  /\ m_sentinel' = TRUE
  /\ AsyncAccept(TRUE, m_socket, ready)
  /\ UNCHANGED <<sessionVars, m_socket, network, stops>>

\* Closing the acceptor resets the connections not yet accepted and aborts the
\* operations under way, whose handlers return at once: they are simply gone.
CloseAcceptor ==
  /\ m_acceptor' = FALSE
  /\ m_sentinel' = FALSE
  /\ accepts' = 0
  /\ backlog' = <<>>

stop ==
  /\ receiver /\ m_acceptor
  /\ stops < MaxStops
  /\ stops' = stops + 1
  /\ CloseAcceptor
  /\ lost' = lost \union Elements(backlog)
  /\ UNCHANGED <<sessionVars, m_socket, ready, arrived>>

\* ~SbdReceiver().  A handler that runs after it has nothing to work on, so the
\* client sees to it that none is queued.
Destroy ==
  /\ receiver /\ ready = <<>> /\ stops < MaxStops
  /\ receiver' = FALSE
  /\ CloseAcceptor
  /\ lost' = lost \union Elements(backlog)
  /\ UNCHANGED <<stream, session, buffer, reports, m_socket, ready, arrived, stops>>

SessionReads ==
  /\ \E c \in Connections : onRead(c)
  /\ UNCHANGED <<m_acceptor, m_sentinel, accepting, network, stops>>

Next == \/ start \/ stop \/ Destroy
        \/ AcceptHandler \/ SessionReads
        \/ AcceptEnds \/ AcceptFails
        \/ \E c \in Connections : Connect(c)

Spec == Init /\ [][Next]_vars

-----------------------------------------------------------------------------
\* The io_service runs handlers, peers go on with what they send, and of what
\* the system is asked to accept again and again, it accepts something.
Fairness ==
  /\ WF_vars(AcceptHandler)
  /\ SF_vars(AcceptEnds)
  /\ \A c \in Connections :
       WF_vars(onRead(c) /\ UNCHANGED <<m_acceptor, m_sentinel, accepting, network, stops>>)

LiveSpec == Spec /\ Fairness

-----------------------------------------------------------------------------
(* Properties.                                                             *)

Activities == accepts + Len(ready)

\* doAccept(): a receiver that was never stopped waits for one connection at a
\* time, and loses none.
OneAccept == stops = 0 /\ m_acceptor => Activities = 1 /\ lost = {}

\* stop(): what a stopped run leaves behind goes on in the next one, and each
\* stop leaves one chain of accepts at most.
ChainPerStop == Activities <= stops + 1

\* m_socket is open exactly while a handler waits to move it to its session:
\* no connection is overwritten, and no handler starts a session without one.
SocketAwaited ==
  /\ m_socket # NoConnection <=> "accepted" \in Elements(ready)
  /\ Once(ready, "accepted")
  /\ m_socket # NoConnection => session[m_socket] = "none" /\ m_socket \in arrived

\* doAccept() and onRead(): every connection is answered unless it was closed
\* before it had a session; stop() does not take sessions with it, though the
\* end of the receiver makes them end in silence.
Served ==
  \A c \in Connections :
    c \in arrived ~> (reports[c] # <<>> \/ c \in lost \/ ~ receiver)

\* "m_sentinel: points out that there are unfinished actions": when stop() has
\* reset it, the receiver's own actions come to an end.
SentinelTells == ~ m_sentinel ~> (m_sentinel \/ Activities = 0)
=============================================================================

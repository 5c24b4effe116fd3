------------------------ MODULE SbdReceiver_proofs -------------------------
(***************************************************************************)
(* However often a receiver is stopped and started again, it answers each  *)
(* connection as MoInbox says, overwrites none, and runs no more chains of *)
(* accepts than it was stopped.                                            *)
(***************************************************************************)
EXTENDS SbdReceiver, IncomingSbdSession_proofs

Results == {"accepted", "failed"}

ReceiverTypeOK ==
  /\ session \in [Connections -> {"none", "reading", "ended"}]
  /\ receiver \in BOOLEAN
  /\ m_acceptor \in BOOLEAN
  /\ m_socket \in Connections \union {NoConnection}
  /\ accepts \in Nat
  /\ ready \in Seq(Results)
  /\ arrived \subseteq Connections
  /\ backlog \in Seq(Connections)
  /\ stops \in Nat

\* A closed acceptor has one chain less, since its operations were aborted.
Chains == accepts + Len(ready) <= stops + (IF m_acceptor THEN 1 ELSE 0)

\* Before the first stop.
FirstRun ==
  /\ m_acceptor => receiver
  /\ stops = 0 /\ receiver =>
       /\ accepts + Len(ready) = IF m_acceptor THEN 1 ELSE 0
       /\ lost = {}

\* A connection is in the backlog, in m_socket or in a session.
Places ==
  /\ \A c \in Connections :
       /\ Once(backlog, c)
       /\ c \in Elements(backlog) => c \in arrived /\ session[c] = "none" /\ c # m_socket
       /\ c \notin arrived => session[c] = "none"

ReceiverInv == ReceiverTypeOK /\ Chains /\ FirstRun /\ Places /\ SocketAwaited

USE SessionAssumption, ReceiverAssumption

-----------------------------------------------------------------------------
(* Queues.                                                                 *)

\* What Append adds.
LEMMA Appended ==
  ASSUME NEW S, NEW seq \in Seq(S), NEW x \in S
  PROVE  /\ Append(seq, x) \in Seq(S)
         /\ Len(Append(seq, x)) = Len(seq) + 1
         /\ Elements(Append(seq, x)) = Elements(seq) \union {x}
         /\ \A y : Once(seq, y) /\ (y # x \/ y \notin Elements(seq)) => Once(Append(seq, x), y)
  <1>1. /\ Append(seq, x) \in Seq(S) /\ Len(Append(seq, x)) = Len(seq) + 1
        /\ \A i \in 1 .. Len(seq) : Append(seq, x)[i] = seq[i]
        /\ Append(seq, x)[Len(seq) + 1] = x
    BY AppendProperties
  <1>2. /\ DOMAIN seq = 1 .. Len(seq) /\ Len(seq) \in Nat
        /\ DOMAIN Append(seq, x) = 1 .. Len(seq) + 1
    BY <1>1, LenProperties
  <1>3. Elements(Append(seq, x)) = Elements(seq) \union {x}
    BY <1>1, <1>2 DEF Elements
  <1>4. ASSUME NEW y, Once(seq, y), y # x \/ y \notin Elements(seq)
        PROVE  Once(Append(seq, x), y)
    <2> SUFFICES ASSUME NEW i \in DOMAIN Append(seq, x), NEW j \in DOMAIN Append(seq, x),
                        Append(seq, x)[i] = y, Append(seq, x)[j] = y
                 PROVE  i = j
      BY DEF Once
    <2>1. CASE i \in 1 .. Len(seq) /\ j \in 1 .. Len(seq)
      BY <2>1, <1>1, <1>2, <1>4 DEF Once
    <2>2. CASE i = Len(seq) + 1 /\ j = Len(seq) + 1
      BY <2>2
    <2>3. CASE ~ (i \in 1 .. Len(seq) <=> j \in 1 .. Len(seq))
      <3>1. y = x
        BY <2>3, <1>1, <1>2
      <3>2. y \in Elements(seq)
        BY <2>3, <1>1, <1>2 DEF Elements
      <3> QED
        BY <3>1, <3>2, <1>4
    <2> QED
      BY <2>1, <2>2, <2>3, <1>2
  <1> QED
    BY <1>1, <1>3, <1>4

\* What Tail leaves.
LEMMA Removed ==
  ASSUME NEW S, NEW seq \in Seq(S), seq # <<>>
  PROVE  /\ Head(seq) \in S /\ Tail(seq) \in Seq(S)
         /\ Len(seq) \in Nat /\ Len(Tail(seq)) = Len(seq) - 1
         /\ Elements(seq) = {Head(seq)} \union Elements(Tail(seq))
         /\ \A y : Once(seq, y) => /\ Once(Tail(seq), y)
                                   /\ Head(seq) = y => y \notin Elements(Tail(seq))
  <1>1. /\ Head(seq) \in S /\ Tail(seq) \in Seq(S) /\ Head(seq) = seq[1]
        /\ Len(seq) \in Nat /\ Len(seq) > 0 /\ Len(Tail(seq)) = Len(seq) - 1
        /\ \A i \in 1 .. Len(Tail(seq)) : Tail(seq)[i] = seq[i + 1]
    BY HeadTailProperties, EmptySeq, LenProperties
  <1>2. /\ DOMAIN seq = 1 .. Len(seq)
        /\ DOMAIN Tail(seq) = 1 .. Len(seq) - 1
    BY <1>1, LenProperties
  <1>3. Elements(seq) = {Head(seq)} \union Elements(Tail(seq))
    <2>1. ASSUME NEW i \in DOMAIN seq
          PROVE  seq[i] \in {Head(seq)} \union Elements(Tail(seq))
      <3>1. CASE i = 1
        BY <3>1, <1>1
      <3>2. CASE i # 1
        <4>1. i - 1 \in 1 .. Len(seq) - 1 /\ seq[i] = Tail(seq)[i - 1]
          BY <3>2, <1>1, <1>2
        <4> QED
          BY <4>1, <1>2 DEF Elements
      <3> QED
        BY <3>1, <3>2
    <2>2. ASSUME NEW i \in DOMAIN Tail(seq)
          PROVE  Tail(seq)[i] \in Elements(seq)
      <3>1. i + 1 \in DOMAIN seq /\ Tail(seq)[i] = seq[i + 1]
        BY <1>1, <1>2
      <3> QED
        BY <3>1 DEF Elements
    <2>3. Head(seq) \in Elements(seq)
      BY <1>1, <1>2 DEF Elements
    <2> QED
      BY <2>1, <2>2, <2>3 DEF Elements
  <1>4. ASSUME NEW y, Once(seq, y)
        PROVE  Once(Tail(seq), y) /\ (Head(seq) = y => y \notin Elements(Tail(seq)))
    <2>1. ASSUME NEW i \in DOMAIN Tail(seq), Tail(seq)[i] = y
          PROVE  i + 1 \in DOMAIN seq /\ seq[i + 1] = y /\ i + 1 # 1
      BY <2>1, <1>1, <1>2
    <2>2. Once(Tail(seq), y)
      <3> SUFFICES ASSUME NEW i \in DOMAIN Tail(seq), NEW j \in DOMAIN Tail(seq),
                          Tail(seq)[i] = y, Tail(seq)[j] = y
                   PROVE  i = j
        BY DEF Once
      <3>1. i + 1 = j + 1
        BY <2>1, <1>4 DEF Once
      <3> QED
        BY <3>1, <1>2
    <2>3. Head(seq) = y => y \notin Elements(Tail(seq))
      <3>1. 1 \in DOMAIN seq
        BY <1>1, <1>2
      <3> QED
        BY <3>1, <2>1, <1>1, <1>4 DEF Once, Elements
    <2> QED
      BY <2>2, <2>3
  <1> QED
    BY <1>1, <1>3, <1>4

\* A queue without length is empty.
LEMMA Emptiness ==
  ASSUME NEW S, NEW seq \in Seq(S)
  PROVE  Len(seq) \in Nat /\ (Len(seq) = 0 => seq = <<>>)
  BY EmptySeq, LenProperties

\* An empty queue has no elements.
LEMMA EmptyQueue == /\ Elements(<<>>) = {} /\ Len(<<>>) = 0
                    /\ \A y : Once(<<>>, y)
                    /\ <<>> \in Seq(Results) /\ <<>> \in Seq(Connections)
  BY DEF Elements, Once

\* async_accept adds an operation or a failure, and no connection.
LEMMA Accepting ==
  ASSUME accepts \in Nat, NEW open \in BOOLEAN, NEW socket, NEW rest \in Seq(Results),
         AsyncAccept(open, socket, rest)
  PROVE  /\ accepts' \in Nat /\ ready' \in Seq(Results)
         /\ accepts' + Len(ready') = accepts + Len(rest) + 1
         /\ "accepted" \in Elements(ready') <=> "accepted" \in Elements(rest)
         /\ Once(rest, "accepted") => Once(ready', "accepted")
  <1>1. Len(rest) \in Nat
    BY Emptiness
  <1>2. CASE open /\ socket = NoConnection
    BY <1>1, <1>2 DEF AsyncAccept
  <1>3. CASE ~ (open /\ socket = NoConnection)
    <2>1. ready' = Append(rest, "failed") /\ accepts' = accepts
      BY <1>3 DEF AsyncAccept
    <2>2. "failed" \in Results /\ "failed" # "accepted"
      BY DEF Results
    <2>3. /\ ready' \in Seq(Results) /\ Len(ready') = Len(rest) + 1
          /\ Elements(ready') = Elements(rest) \union {"failed"}
          /\ Once(rest, "accepted") => Once(ready', "accepted")
      BY <2>1, <2>2, Appended
    <2> QED
      BY <2>1, <2>2, <2>3, <1>1
  <1> QED
    BY <1>2, <1>3

-----------------------------------------------------------------------------
(* The steps.                                                              *)

LEMMA ReceiverInit == Init => ReceiverInv
  <1> SUFFICES ASSUME Init PROVE ReceiverInv
    OBVIOUS
  <1>1. ReceiverTypeOK
    BY EmptyQueue DEF Init, SessionInit, ReceiverTypeOK
  <1>2. Chains /\ FirstRun
    BY EmptyQueue DEF Init, SessionInit, Chains, FirstRun
  <1>3. Places
    BY EmptyQueue DEF Init, SessionInit, Places
  <1>4. SocketAwaited
    BY EmptyQueue DEF Init, SocketAwaited
  <1> QED
    BY <1>1, <1>2, <1>3, <1>4 DEF ReceiverInv

LEMMA InvConnect ==
  ASSUME ReceiverInv, NEW c \in Connections, Connect(c)
  PROVE  ReceiverInv'
  <1>1. /\ backlog' \in Seq(Connections)
        /\ Elements(backlog') = Elements(backlog) \union {c}
        /\ \A y : Once(backlog, y) /\ (y # c \/ y \notin Elements(backlog)) => Once(backlog', y)
    BY Appended DEF ReceiverInv, ReceiverTypeOK, Connect
  <1>2. c \notin Elements(backlog) /\ session[c] = "none" /\ c # m_socket
    BY DEF ReceiverInv, Places, SocketAwaited, Connect
  <1>3. ReceiverTypeOK'
    BY <1>1 DEF ReceiverInv, ReceiverTypeOK, Connect, sessionVars, accepting
  <1>4. Chains' /\ FirstRun'
    BY DEF ReceiverInv, Chains, FirstRun, Connect, sessionVars, accepting
  <1>5. Places'
    BY <1>1, <1>2 DEF ReceiverInv, Places, Connect, sessionVars, accepting
  <1>6. SocketAwaited'
    BY DEF ReceiverInv, SocketAwaited, Connect, sessionVars, accepting
  <1> QED
    BY <1>3, <1>4, <1>5, <1>6 DEF ReceiverInv

LEMMA InvAcceptEnds ==
  ASSUME ReceiverInv, AcceptEnds
  PROVE  ReceiverInv'
  <1>1. /\ Head(backlog) \in Connections /\ backlog' \in Seq(Connections)
        /\ Elements(backlog) = {Head(backlog)} \union Elements(backlog')
        /\ \A y : Once(backlog, y) => /\ Once(backlog', y)
                                      /\ Head(backlog) = y => y \notin Elements(backlog')
    BY Removed DEF ReceiverInv, ReceiverTypeOK, AcceptEnds
  <1>2. /\ Head(backlog) \in arrived /\ session[Head(backlog)] = "none"
        /\ Head(backlog) # m_socket /\ Head(backlog) \notin Elements(backlog')
    BY <1>1 DEF ReceiverInv, Places
  <1>3. /\ Len(ready) \in Nat /\ accepts \in Nat /\ accepts > 0 /\ accepts' = accepts - 1
        /\ ready \in Seq(Results) /\ "accepted" \in Results /\ "failed" \in Results
    BY Emptiness DEF ReceiverInv, ReceiverTypeOK, AcceptEnds, Results
  <1>4. CASE m_socket = NoConnection
    <2>1. m_socket' = Head(backlog) /\ ready' = Append(ready, "accepted") /\ lost' = lost
      BY <1>4 DEF AcceptEnds
    <2>2. "accepted" \notin Elements(ready)
      BY <1>4 DEF ReceiverInv, SocketAwaited
    <2>3. /\ ready' \in Seq(Results) /\ Len(ready') = Len(ready) + 1
          /\ Elements(ready') = Elements(ready) \union {"accepted"}
          /\ Once(ready, "accepted") => Once(ready', "accepted")
      BY <1>3, <2>1, <2>2, Appended
    <2>4. ReceiverTypeOK'
      BY <1>1, <1>3, <2>1, <2>3 DEF ReceiverInv, ReceiverTypeOK, AcceptEnds, sessionVars
    <2>5. Chains' /\ FirstRun'
      BY <1>3, <2>1, <2>3 DEF ReceiverInv, Chains, FirstRun, AcceptEnds, sessionVars
    <2>6. Places'
      BY <1>1, <1>2, <2>1 DEF ReceiverInv, Places, AcceptEnds, sessionVars
    <2>7. SocketAwaited'
      BY <1>1, <1>2, <2>1, <2>3 DEF ReceiverInv, SocketAwaited, AcceptEnds, sessionVars
    <2> QED
      BY <2>4, <2>5, <2>6, <2>7 DEF ReceiverInv
  <1>5. CASE m_socket # NoConnection
    <2>1. m_socket' = m_socket /\ ready' = Append(ready, "failed")
      BY <1>5 DEF AcceptEnds
    <2>2. /\ ready' \in Seq(Results) /\ Len(ready') = Len(ready) + 1
          /\ Elements(ready') = Elements(ready) \union {"failed"}
          /\ Once(ready, "accepted") => Once(ready', "accepted")
      BY <1>3, <2>1, Appended
    <2>3. Len(ready) > 0
      <3>1. "accepted" \in Elements(ready)
        BY <1>5 DEF ReceiverInv, SocketAwaited
      <3>2. ready # <<>>
        BY <3>1, EmptyQueue
      <3> QED
        BY <3>2, <1>3, Emptiness
    <2>4. ~ (stops = 0 /\ receiver)
      BY <2>3, <1>3 DEF ReceiverInv, FirstRun
    <2>5. ReceiverTypeOK'
      BY <1>1, <1>3, <2>1, <2>2 DEF ReceiverInv, ReceiverTypeOK, AcceptEnds, sessionVars
    <2>6. Chains' /\ FirstRun'
      BY <1>3, <2>1, <2>2, <2>4 DEF ReceiverInv, Chains, FirstRun, AcceptEnds, sessionVars
    <2>7. Places'
      BY <1>1, <1>2, <2>1 DEF ReceiverInv, Places, AcceptEnds, sessionVars
    <2>8. SocketAwaited'
      BY <1>2, <2>1, <2>2 DEF ReceiverInv, SocketAwaited, AcceptEnds, sessionVars
    <2> QED
      BY <2>5, <2>6, <2>7, <2>8 DEF ReceiverInv
  <1> QED
    BY <1>4, <1>5

LEMMA InvAcceptFails ==
  ASSUME ReceiverInv, AcceptFails
  PROVE  ReceiverInv'
  <1>1. /\ Len(ready) \in Nat /\ accepts \in Nat /\ accepts' = accepts - 1 /\ accepts > 0
        /\ ready \in Seq(Results) /\ "failed" \in Results
    BY Emptiness DEF ReceiverInv, ReceiverTypeOK, AcceptFails, Results
  <1>2. /\ ready' \in Seq(Results) /\ Len(ready') = Len(ready) + 1
        /\ Elements(ready') = Elements(ready) \union {"failed"}
        /\ Once(ready, "accepted") => Once(ready', "accepted")
    BY <1>1, Appended DEF AcceptFails
  <1>3. ReceiverTypeOK'
    BY <1>1, <1>2 DEF ReceiverInv, ReceiverTypeOK, AcceptFails, sessionVars, network
  <1>4. Chains' /\ FirstRun'
    BY <1>1, <1>2 DEF ReceiverInv, Chains, FirstRun, AcceptFails, sessionVars, network
  <1>5. Places' /\ SocketAwaited'
    BY <1>2 DEF ReceiverInv, Places, SocketAwaited, AcceptFails, sessionVars, network
  <1> QED
    BY <1>3, <1>4, <1>5 DEF ReceiverInv

LEMMA InvConnectionAccepted ==
  ASSUME ReceiverInv, ConnectionAccepted
  PROVE  ReceiverInv' /\ m_socket \in Connections
  <1>1. /\ accepts \in Nat /\ m_acceptor \in BOOLEAN /\ ready \in Seq(Results) /\ ready # <<>>
    BY DEF ReceiverInv, ReceiverTypeOK, ConnectionAccepted, HandlerOf
  <1>2. /\ Tail(ready) \in Seq(Results) /\ Len(Tail(ready)) = Len(ready) - 1
        /\ Len(ready) \in Nat
        /\ "accepted" \in Elements(ready)
        /\ "accepted" \notin Elements(Tail(ready)) /\ Once(Tail(ready), "accepted")
    BY <1>1, Removed DEF ReceiverInv, SocketAwaited, ConnectionAccepted, HandlerOf
  <1>3. /\ accepts' \in Nat /\ ready' \in Seq(Results)
        /\ accepts' + Len(ready') = accepts + Len(ready)
        /\ "accepted" \notin Elements(ready') /\ Once(ready', "accepted")
    <2>1. AsyncAccept(m_acceptor, NoConnection, Tail(ready))
      BY DEF ConnectionAccepted
    <2>2. /\ accepts' \in Nat /\ ready' \in Seq(Results)
          /\ accepts' + Len(ready') = accepts + Len(Tail(ready)) + 1
          /\ "accepted" \in Elements(ready') <=> "accepted" \in Elements(Tail(ready))
          /\ Once(Tail(ready), "accepted") => Once(ready', "accepted")
      BY <1>1, <1>2, <2>1, Accepting
    <2> QED
      BY <1>1, <1>2, <2>2
  <1>4. m_socket \in Connections /\ m_socket \in arrived
    BY <1>2 DEF ReceiverInv, ReceiverTypeOK, SocketAwaited
  <1>5. ReceiverTypeOK'
    BY <1>3, <1>4 DEF ReceiverInv, ReceiverTypeOK, ConnectionAccepted, run, network
  <1>6. Chains' /\ FirstRun'
    BY <1>3 DEF ReceiverInv, Chains, FirstRun, ConnectionAccepted, network
  <1>7. Places'
    <2>1. session \in [Connections -> {"none", "reading", "ended"}]
      BY DEF ReceiverInv, ReceiverTypeOK
    <2>2. \A d \in Connections : d # m_socket => session'[d] = session[d]
      BY <2>1 DEF ConnectionAccepted, run
    <2>3. UNCHANGED <<arrived, backlog>> /\ m_socket' = NoConnection
      BY DEF ConnectionAccepted, network
    <2> QED
      BY <1>4, <2>2, <2>3 DEF ReceiverInv, Places
  <1>8. SocketAwaited'
    BY <1>3 DEF SocketAwaited, ConnectionAccepted
  <1> QED
    BY <1>4, <1>5, <1>6, <1>7, <1>8 DEF ReceiverInv

LEMMA InvAcceptFailed ==
  ASSUME ReceiverInv, AcceptFailed
  PROVE  ReceiverInv'
  <1>1. /\ accepts \in Nat /\ m_acceptor \in BOOLEAN /\ ready \in Seq(Results) /\ ready # <<>>
        /\ Head(ready) # "accepted"
    BY DEF ReceiverInv, ReceiverTypeOK, AcceptFailed, HandlerOf
  <1>2. /\ Tail(ready) \in Seq(Results) /\ Len(Tail(ready)) = Len(ready) - 1
        /\ Len(ready) \in Nat
        /\ "accepted" \in Elements(ready) <=> "accepted" \in Elements(Tail(ready))
        /\ Once(Tail(ready), "accepted")
    BY <1>1, Removed DEF ReceiverInv, SocketAwaited
  <1>3. /\ accepts' \in Nat /\ ready' \in Seq(Results)
        /\ accepts' + Len(ready') = accepts + Len(ready)
        /\ "accepted" \in Elements(ready) <=> "accepted" \in Elements(ready')
        /\ Once(ready', "accepted")
    <2>1. AsyncAccept(m_acceptor, m_socket, Tail(ready))
      BY DEF AcceptFailed
    <2>2. /\ accepts' \in Nat /\ ready' \in Seq(Results)
          /\ accepts' + Len(ready') = accepts + Len(Tail(ready)) + 1
          /\ "accepted" \in Elements(ready') <=> "accepted" \in Elements(Tail(ready))
          /\ Once(Tail(ready), "accepted") => Once(ready', "accepted")
      BY <1>1, <1>2, <2>1, Accepting
    <2> QED
      BY <1>1, <1>2, <2>2
  <1>4. ReceiverTypeOK'
    BY <1>3 DEF ReceiverInv, ReceiverTypeOK, AcceptFailed, sessionVars, network
  <1>5. Chains' /\ FirstRun'
    BY <1>3 DEF ReceiverInv, Chains, FirstRun, AcceptFailed, sessionVars, network
  <1>6. Places' /\ SocketAwaited'
    BY <1>3 DEF ReceiverInv, Places, SocketAwaited, AcceptFailed, sessionVars, network
  <1> QED
    BY <1>4, <1>5, <1>6 DEF ReceiverInv

LEMMA InvStart ==
  ASSUME ReceiverInv, start
  PROVE  ReceiverInv'
  <1>1. accepts \in Nat /\ ready \in Seq(Results) /\ Len(ready) \in Nat /\ stops \in Nat
    BY Emptiness DEF ReceiverInv, ReceiverTypeOK
  <1>2. /\ accepts' \in Nat /\ ready' \in Seq(Results)
        /\ accepts' + Len(ready') = accepts + Len(ready) + 1
        /\ "accepted" \in Elements(ready) <=> "accepted" \in Elements(ready')
        /\ Once(ready', "accepted")
    BY <1>1, Accepting DEF ReceiverInv, SocketAwaited, start
  <1>3. ReceiverTypeOK'
    BY <1>2 DEF ReceiverInv, ReceiverTypeOK, start, sessionVars, network
  <1>4. Chains' /\ FirstRun'
    BY <1>1, <1>2 DEF ReceiverInv, Chains, FirstRun, start, sessionVars, network
  <1>5. Places' /\ SocketAwaited'
    BY <1>2 DEF ReceiverInv, Places, SocketAwaited, start, sessionVars, network
  <1> QED
    BY <1>3, <1>4, <1>5 DEF ReceiverInv

\* stop() and the destructor: the acceptor's operations and backlog are gone.
LEMMA InvClose ==
  ASSUME ReceiverInv, CloseAcceptor,
         UNCHANGED <<session, m_socket, ready, arrived>>,
         \/ m_acceptor /\ stops' = stops + 1 /\ receiver' = receiver
         \/ ready = <<>> /\ stops' = stops /\ receiver' = FALSE
  PROVE  ReceiverInv'
  <1>1. accepts \in Nat /\ Len(ready) \in Nat /\ stops \in Nat /\ m_acceptor \in BOOLEAN
    BY Emptiness DEF ReceiverInv, ReceiverTypeOK
  <1>2. Elements(<<>>) = {} /\ <<>> \in Seq(Connections) /\ \A y : Once(<<>>, y)
    BY EmptyQueue
  <1>3. ReceiverTypeOK'
    <2>1. receiver' \in BOOLEAN /\ stops' \in Nat
      <3>1. receiver \in BOOLEAN
        BY DEF ReceiverInv, ReceiverTypeOK
      <3>2. receiver' = receiver \/ receiver' = FALSE
        OBVIOUS
      <3>3. receiver' \in BOOLEAN
        BY <3>1, <3>2, Zenon
      <3>4. stops' = stops \/ stops' = stops + 1
        BY Zenon
      <3> QED
        BY <3>3, <3>4, <1>1
    <2>2. /\ accepts' = 0 /\ m_acceptor' = FALSE
          /\ backlog' = <<>> /\ backlog' \in Seq(Connections)
      BY <1>2 DEF CloseAcceptor
    <2> QED
      BY <2>1, <2>2 DEF ReceiverInv, ReceiverTypeOK
  <1>4. Chains'
    <2>1. accepts' + Len(ready') <= accepts + Len(ready)
      BY <1>1 DEF CloseAcceptor
    <2>2. CASE m_acceptor /\ stops' = stops + 1
      BY <1>1, <2>1, <2>2 DEF ReceiverInv, Chains, CloseAcceptor
    <2>3. CASE ready = <<>> /\ stops' = stops
      BY <1>1, <2>3, EmptyQueue DEF Chains, CloseAcceptor
    <2> QED
      BY <2>2, <2>3
  <1>5. FirstRun'
    BY <1>1 DEF FirstRun, CloseAcceptor
  <1>6. Places'
    BY <1>2 DEF ReceiverInv, Places, CloseAcceptor
  <1>7. SocketAwaited'
    BY DEF ReceiverInv, SocketAwaited, CloseAcceptor
  <1> QED
    BY <1>3, <1>4, <1>5, <1>6, <1>7 DEF ReceiverInv

LEMMA InvSessionReads ==
  ASSUME ReceiverInv, SessionReads
  PROVE  ReceiverInv'
  <1>1. PICK c \in Connections : onRead(c)
    BY DEF SessionReads
  <1>2. /\ session[c] = "reading" /\ receiver' = receiver
        /\ session' = session \/ session' = [session EXCEPT ![c] = "ended"]
    BY <1>1 DEF onRead, ReadFails, BytesReceived, HeaderRefused, ReadOn, MessageRefused,
               MessageReported, End
  <1>3. session \in [Connections -> {"none", "reading", "ended"}]
    BY DEF ReceiverInv, ReceiverTypeOK
  <1>4. /\ session' \in [Connections -> {"none", "reading", "ended"}]
        /\ \A d \in Connections : session[d] = "none" => session'[d] = "none"
    BY <1>2, <1>3
  <1>5. UNCHANGED <<m_acceptor, m_sentinel, accepting, network, stops>>
    BY DEF SessionReads
  <1>6. ReceiverTypeOK'
    BY <1>2, <1>4, <1>5 DEF ReceiverInv, ReceiverTypeOK, accepting, network
  <1>7. Chains' /\ FirstRun'
    BY <1>2, <1>5 DEF ReceiverInv, Chains, FirstRun, accepting, network
  <1>8. Places'
    BY <1>4, <1>5 DEF ReceiverInv, Places, accepting, network
  <1>9. SocketAwaited'
    BY <1>4, <1>5 DEF ReceiverInv, ReceiverTypeOK, SocketAwaited, accepting, network
  <1> QED
    BY <1>6, <1>7, <1>8, <1>9 DEF ReceiverInv

LEMMA ReceiverInvNext == ReceiverInv /\ [Next]_vars => ReceiverInv'
  <1> SUFFICES ASSUME ReceiverInv, [Next]_vars PROVE ReceiverInv'
    OBVIOUS
  <1>1. CASE start
    BY <1>1, InvStart
  <1>2. CASE stop
    BY <1>2, InvClose DEF stop, sessionVars
  <1>3. CASE Destroy
    BY <1>3, InvClose DEF Destroy
  <1>4. CASE AcceptHandler
    BY <1>4, InvConnectionAccepted, InvAcceptFailed DEF AcceptHandler
  <1>5. CASE SessionReads
    BY <1>5, InvSessionReads
  <1>6. CASE AcceptEnds
    BY <1>6, InvAcceptEnds
  <1>7. CASE AcceptFails
    BY <1>7, InvAcceptFails
  <1>8. CASE \E c \in Connections : Connect(c)
    BY <1>8, InvConnect
  <1>9. CASE UNCHANGED vars
    BY <1>9 DEF vars, sessionVars, accepting, network, ReceiverInv, ReceiverTypeOK, Chains,
                FirstRun, Places, SocketAwaited, Once, Elements
  <1> QED
    BY <1>1, <1>2, <1>3, <1>4, <1>5, <1>6, <1>7, <1>8, <1>9 DEF Next

LEMMA ReceiverInvariant == Spec => []ReceiverInv
  <1> QED
    BY ReceiverInit, ReceiverInvNext, PTL DEF Spec

-----------------------------------------------------------------------------
(* The theorems.                                                           *)

\* stop(), start() and doAccept(): however stopped and started runs follow each
\* other, each stop leaves one chain of accepts at most, and no more.
THEOREM ChainsBounded == Spec => []ChainPerStop
  <1>1. ReceiverInv => ChainPerStop
    <2> SUFFICES ASSUME ReceiverInv PROVE accepts + Len(ready) <= stops + 1
      BY DEF ChainPerStop, Activities
    <2>1. accepts \in Nat /\ Len(ready) \in Nat /\ stops \in Nat
      BY Emptiness DEF ReceiverInv, ReceiverTypeOK
    <2>2. accepts + Len(ready) <= stops + (IF m_acceptor THEN 1 ELSE 0)
      BY DEF ReceiverInv, Chains
    <2> QED
      BY <2>1, <2>2
  <1> QED
    BY <1>1, ReceiverInvariant, PTL

\* doAccept(): a receiver that was never stopped has one accept under way or
\* one handler of it waiting, and loses no connection.
THEOREM AcceptsOne == Spec => []OneAccept
  <1>1. ReceiverInv => OneAccept
    BY DEF ReceiverInv, ReceiverTypeOK, FirstRun, OneAccept, Activities
  <1> QED
    BY <1>1, ReceiverInvariant, PTL

\* doAccept(): a connection in m_socket is neither overwritten nor given to two
\* sessions, in whatever way chains of accepts overlap.
THEOREM SocketNotOverwritten == Spec => []SocketAwaited
  <1>1. ReceiverInv => SocketAwaited
    BY DEF ReceiverInv
  <1> QED
    BY <1>1, ReceiverInvariant, PTL

\* A receiver does to its sessions only what they expect.
LEMMA StepsOfSessions == ReceiverInv /\ [Next]_vars => [SessionNext]_sessionVars
  <1> SUFFICES ASSUME ReceiverInv, [Next]_vars
               PROVE  SessionNext \/ UNCHANGED sessionVars
    OBVIOUS
  <1>1. CASE start \/ stop \/ AcceptEnds \/ AcceptFails \/ AcceptFailed
    BY <1>1 DEF start, stop, AcceptEnds, AcceptFails, AcceptFailed
  <1>2. CASE Destroy
    BY <1>2 DEF Destroy, SessionNext, ReceiverGoes
  <1>3. CASE ConnectionAccepted
    <2>1. m_socket \in Connections /\ Begin(m_socket)
      BY <1>3, InvConnectionAccepted DEF ConnectionAccepted, Begin
    <2> QED
      BY <2>1 DEF SessionNext
  <1>4. CASE SessionReads
    BY <1>4 DEF SessionReads, SessionNext
  <1>5. CASE (\E c \in Connections : Connect(c)) \/ UNCHANGED vars
    BY <1>5 DEF Connect, vars
  <1> QED
    BY <1>1, <1>2, <1>3, <1>4, <1>5 DEF Next, AcceptHandler

\* SbdReceiver with its sessions: every connection, in whatever order they are
\* made, accepted and read from, is answered as its stream deserves, and once.
THEOREM ReceiverIsInbox == Spec => ImplementsInbox
  <1>1. Spec => SessionSpec
    <2>1. Init => SessionInit
      BY DEF Init
    <2> QED
      BY <2>1, ReceiverInvariant, StepsOfSessions, PTL DEF Spec, SessionSpec
  <1> QED
    BY <1>1, SessionIsInbox, PTL
=============================================================================

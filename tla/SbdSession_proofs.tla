-------------------------- MODULE SbdSession_proofs --------------------------
(***************************************************************************)
(* What holds of the sessions of SbdTransmitter for every value of the     *)
(* constants, as long as the worker and the io thread do not overtake each *)
(* other (SerialSpec).                                                     *)
(*                                                                         *)
(* Until stop() is called SessionInv is the inductive invariant: where the *)
(* threads stand and what is outstanding (Control), and from it where      *)
(* every message is (Accounted and Ordered, which are not inductive        *)
(* without it).                                                            *)
(*                                                                         *)
(* Through any number of stop() and start() StopInv is: where the threads  *)
(* may still stand (Stance), and from it what each stop() costs (Budget).  *)
(***************************************************************************)
EXTENDS SbdTransmitter_proofs, FiniteSetTheorems, SequenceTheorems

USE ConstantsAssumption DEF EmptyMessage, NoBuf, MaxReceived, State, Kinds, SocketOps,
  eNotConnected, eResolving, eConnecting, eSending, eReceivingHeader,
  eReceivingConfirmation, eProcessingConfirmation, eError, eSuccess

-----------------------------------------------------------------------------
(* Control.                                                                *)

Idle == (\A k \in Kinds : ops[k] = 0) /\ ready = <<>>

\* k is the one operation outstanding: under way, or with its handler queued.
Only(k) == \/ /\ ops[k] = 1 /\ \A j \in Kinds \ {k} : ops[j] = 0
              /\ ready = <<>>
           \/ /\ \A j \in Kinds : ops[j] = 0
              /\ ready = <<k>>

Awaited(k) == IF k = "delay" THEN eError ELSE Awaits[k]

\* The session goes from state s to state n in a handler or in StateMachine().
Moves(s, n) ==
  \/ s \in eResolving .. eProcessingConfirmation /\ n = eError
  \/ s \in eResolving .. eReceivingConfirmation /\ n = s + 1
  \/ s = eReceivingConfirmation /\ n = eReceivingConfirmation
  \/ s = eProcessingConfirmation /\ n = eSuccess
  \/ s \in {eError, eSuccess} /\ n = eNotConnected

\* No session: the worker is not started, looks at the queue or waits on it.
BetweenSessions == /\ pc["worker"] \in {"none", "init", "loop", "waiting"}
                   /\ pc["io"] = "run" /\ Idle
                   /\ m_state = eNotConnected

\* The worker is on its way to the resolver.
SessionBegins == /\ pc["io"] = "run" /\ Idle
                 /\ \/ /\ pc["worker"] = "assign" /\ target["worker"] = eResolving
                       /\ m_state = eNotConnected
                    \/ pc["worker"] = "dispatch" /\ m_state = eResolving

\* The session waits for one operation.
SessionWaits == /\ pc["worker"] = "loop"
                /\ pc["io"] = "run"
                /\ m_sentinel
                /\ \E k \in Kinds :
                     /\ Only(k) /\ m_state = Awaited(k)
                     /\ k \in SocketOps \ {"connect"} => m_buf # NoBuf

\* The io thread is inside a handler, which moves the session on.
SessionMoves ==
  /\ pc["worker"] = "loop"
  /\ m_sentinel /\ Idle
  /\ \/ /\ pc["io"] = "assign" /\ Moves(m_state, target["io"])
        /\ target["io"] \in {eReceivingConfirmation, eProcessingConfirmation}
             => m_buf # NoBuf
     \/ /\ pc["io"] = "dispatch" /\ Moves(m_prevState, m_state)
        /\ m_state \in {eReceivingConfirmation, eProcessingConfirmation}
             => m_buf # NoBuf
     \/ pc["io"] = "reset" /\ m_state = eNotConnected

Control == /\ ~ m_shutdown
           /\ client \in {"idle", "notify"}
           /\ m_running <=> pc["worker"] # "none"
           /\ BetweenSessions \/ SessionBegins \/ SessionWaits \/ SessionMoves

-----------------------------------------------------------------------------
\* The client does not disturb a session, as long as it does not stop it.
LEMMA ControlClient ==
  ASSUME TypeOK, Control, Client, stops' = stops
  PROVE  Control'
<1> USE DEF TypeOK, ThreadTypeOK
<1>1. CASE start
  <2>1. pc["worker"] = "none" /\ BetweenSessions
    BY <1>1 DEF start, Control, BetweenSessions, SessionBegins, SessionWaits, SessionMoves
  <2>2. BetweenSessions'
    BY <1>1, <2>1 DEF start, BetweenSessions, Idle, service, machine, Threads
  <2>3. (m_running <=> pc["worker"] # "none")'
    BY <1>1 DEF start, Threads
  <2>4. QED  BY <1>1, <2>2, <2>3 DEF start, Control
<1>2. CASE stop
  BY <1>2 DEF stop, HistoryTypeOK
<1>3. CASE StopCancelsTimer \/ StopCancelsSocket \/ StopJoins
  BY <1>3 DEF StopCancelsTimer, StopCancelsSocket, StopJoins, StopCancels, ClientGoes, Control
<1>4. CASE post \/ PostNotifies \/ dropMessages
  <2>1. /\ UNCHANGED <<pc, target, ops, ready, m_prevState, m_state, m_buf>>
        /\ UNCHANGED <<m_sentinel, m_running, m_shutdown>>
        /\ client' \in {"idle", "notify"}
    BY <1>4 DEF post, PostNotifies, dropMessages, ClientGoes, service, machine, receive,
                flags, threads, Control
  <2>2. /\ BetweenSessions => BetweenSessions'
        /\ SessionBegins => SessionBegins'
        /\ SessionWaits => SessionWaits'
        /\ SessionMoves => SessionMoves'
    BY <2>1 DEF BetweenSessions, SessionBegins, SessionWaits, SessionMoves, Idle, Only
  <2>3. QED  BY <2>1, <2>2 DEF Control
<1>5. QED  BY <1>1, <1>2, <1>3, <1>4 DEF Client

\* The operation that a session waits for ends.
LEMMA ControlCompletion ==
  ASSUME TypeOK, Control, Completion
  PROVE  Control'
<1> USE DEF TypeOK, ServiceTypeOK
<1>1. PICK k \in Kinds : /\ ops[k] > 0
                         /\ ops' = [ops EXCEPT ![k] = @ - 1]
                         /\ ready' = Append(ready, k)
  BY DEF Completion
<1>2. SessionWaits
  BY <1>1 DEF Control, BetweenSessions, SessionBegins, SessionMoves, Idle
<1>3. PICK j \in Kinds : /\ Only(j) /\ m_state = Awaited(j)
                         /\ j \in SocketOps \ {"connect"} => m_buf # NoBuf
  BY <1>2 DEF SessionWaits
<1>4. j = k /\ ready = <<>> /\ ops[k] = 1
  BY <1>1, <1>3 DEF Only
<1>5. Only(k)'
  BY <1>1, <1>3, <1>4 DEF Only
<1>6. SessionWaits'
  <2>1. UNCHANGED <<pc, m_sentinel, m_state, m_buf>>
    BY DEF Completion, threads, machine, receive
  <2>2. Awaited(k)' = Awaited(k)
    BY DEF Awaited, Awaits
  <2>3. QED  BY <1>2, <1>3, <1>4, <1>5, <2>1, <2>2 DEF SessionWaits
<1>7. QED  BY <1>6 DEF Control, Completion, flags, threads

\* The worker looks for messages between sessions, and begins sessions.
LEMMA WorkerSteps ==
  ASSUME TypeOK, Control, pc["io"] = "run", WorkerThread
  PROVE  \/ Worker /\ BetweenSessions /\ ~ WorkerExits
         \/ Assign("worker") /\ SessionBegins /\ target["worker"] = eResolving
         \/ Resolving("worker") /\ SessionBegins
<1> USE DEF TypeOK, ThreadTypeOK, Threads
<1>0. BetweenSessions \/ SessionBegins \/ SessionWaits
  BY DEF Control, SessionMoves
<1>1. CASE Worker
  <2>1. BetweenSessions
    BY <1>0, <1>1 DEF SessionBegins, SessionWaits, Awaited, Awaits, Worker, WorkerBegins,
                      Waits, MessageFound, WorkerBlocks, WorkerWakes, WaitTimesOut,
                      WorkerExits, Control
  <2>2. QED  BY <1>1, <2>1 DEF WorkerExits, Control
<1>2. CASE Assign("worker")
  BY <1>0, <1>2 DEF Assign, BetweenSessions, SessionBegins, SessionWaits
<1>3. CASE StateMachine("worker")
  <2>1. SessionBegins /\ pc["worker"] = "dispatch" /\ m_state = eResolving
    BY <1>0, <1>3 DEF BetweenSessions, SessionBegins, SessionWaits, StateMachine, Dispatches,
         NotConnected, Reset, Resolving, Connecting, Sending, ReceivingHeader,
         ReceivingConfirmation, ConfirmationRefused, ConfirmationParsed, Failing, Succeeding
  <2>2. Resolving("worker")
    BY <1>3, <2>1 DEF StateMachine, Dispatches,
         NotConnected, Reset, Resolving, Connecting, Sending, ReceivingHeader,
         ReceivingConfirmation, ConfirmationRefused, ConfirmationParsed, Failing, Succeeding
  <2>3. QED  BY <2>1, <2>2
<1>4. CASE NullBuffer("worker")
  BY <1>0, <1>4 DEF NullBuffer, BetweenSessions, SessionBegins, SessionWaits
<1>5. QED  BY <1>1, <1>2, <1>3, <1>4 DEF WorkerThread

\* The worker begins sessions, and only between sessions.
LEMMA ControlWorker ==
  ASSUME TypeOK, Control, pc["io"] = "run", WorkerThread
  PROVE  Control'
<1> USE DEF TypeOK, ThreadTypeOK, Threads
<1>1. CASE Worker /\ BetweenSessions /\ ~ WorkerExits
  <2>1. CASE WorkerBegins \/ WorkerBlocks \/ WaitTimesOut
    <3>1. BetweenSessions'
      BY <1>1, <2>1 DEF BetweenSessions, WorkerBegins, WorkerBlocks, Waits, WaitTimesOut,
                        Goto, Idle, service, machine
    <3>2. QED
      BY <2>1, <3>1 DEF Control, WorkerBegins, WorkerBlocks, Waits, WaitTimesOut, Goto, flags
  <2>2. CASE MessageFound \/ WorkerWakes
    <3>1. SessionBegins'
      BY <1>1, <2>2 DEF BetweenSessions, SessionBegins, MessageFound, WorkerWakes,
                        BeginSession, Aim, Idle, service, machine
    <3>2. QED
      BY <2>2, <3>1 DEF Control, MessageFound, Waits, WorkerWakes, BeginSession, Aim, flags
  <2>3. QED  BY <1>1, <2>1, <2>2 DEF Worker
<1>2. CASE Assign("worker") /\ SessionBegins /\ target["worker"] = eResolving
  <2>1. SessionBegins'
    BY <1>2 DEF SessionBegins, Assign, Goto, Idle, service
  <2>2. QED  BY <1>2, <2>1 DEF Control, Assign, Goto, flags
<1>3. CASE Resolving("worker") /\ SessionBegins
  <2>1. Only("resolve")'
    BY <1>3 DEF Resolving, StartOp, SessionBegins, Idle, Only, ServiceTypeOK
  <2>2. SessionWaits'
    <3>1. /\ pc'["worker"] = "loop" /\ pc'["io"] = "run"
          /\ m_sentinel' /\ m_state' = eResolving
      BY <1>3 DEF SessionBegins, Resolving, Dispatches, Return, Goto, machine
    <3>2. Awaited("resolve")' = eResolving
      BY DEF Awaited, Awaits
    <3>3. QED  BY <2>1, <3>1, <3>2 DEF SessionWaits
  <2>3. QED  BY <1>3, <2>2 DEF Control, Resolving, Dispatches, Return, Goto, flags
<1>4. QED  BY <1>1, <1>2, <1>3, WorkerSteps

\* A handler runs in the state that it expects, and leaves no operation behind.
LEMMA HandlerRuns ==
  ASSUME TypeOK, Control, NEW k, Completes(k)
  PROVE  /\ k \in Kinds /\ Idle'
         /\ m_state = Awaited(k)
         /\ k \in SocketOps \ {"connect"} => m_buf # NoBuf
         /\ k # "delay" => Expected(k)
         /\ pc["worker"] = "loop" /\ m_sentinel
<1> USE DEF TypeOK, ServiceTypeOK
<1>1. SessionWaits
  BY DEF Completes, Control, BetweenSessions, SessionBegins, SessionMoves, Idle
<1>2. PICK j \in Kinds : /\ Only(j) /\ m_state = Awaited(j)
                         /\ j \in SocketOps \ {"connect"} => m_buf # NoBuf
  BY <1>1 DEF SessionWaits
<1>3. j = k /\ Idle'
  BY <1>2 DEF Only, Completes, Idle
<1>4. k # "delay" => Expected(k)
  BY <1>2, <1>3 DEF Expected, Awaited, Control
<1>5. QED  BY <1>1, <1>2, <1>3, <1>4 DEF SessionWaits

\* A handler moves the session on from the state in which it ran.
LEMMA ControlHandler ==
  ASSUME TypeOK, Control, Handler
  PROVE  Control'
<1> USE DEF TypeOK, ThreadTypeOK, Threads
<1>0. ASSUME NEW k \in Kinds, Completes(k), NEW s \in State, Aim("io", s),
             Moves(m_state, s),
             s \in {eReceivingConfirmation, eProcessingConfirmation} => m_buf' # NoBuf,
             UNCHANGED <<machine, m_sentinel, flags>>
      PROVE  Control'
  <2>1. Idle' /\ pc["worker"] = "loop" /\ m_sentinel
    BY <1>0, HandlerRuns
  <2>2. SessionMoves'
    BY <1>0, <2>1 DEF SessionMoves, Aim, machine
  <2>3. QED  BY <1>0, <2>1, <2>2 DEF Control, Aim, flags
<1>1. CASE StaleCompletion
  BY <1>1, HandlerRuns DEF StaleCompletion
<1>2. CASE OperationFailed
  <2>1. PICK k \in Kinds \ {"delay"} : Completes(k) /\ Expected(k)
    BY <1>2 DEF OperationFailed
  <2>2. Moves(m_state, eError)
    BY <2>1 DEF Expected, Awaits, Moves
  <2>3. QED  BY <1>0, <1>2, <2>1, <2>2 DEF OperationFailed
<1>3. CASE Resolved
  <2>1. Moves(m_state, eConnecting)
    BY <1>3 DEF Resolved, OperationDone, Expected, Awaits, Moves
  <2>2. QED  BY <1>0, <1>3, <2>1 DEF Resolved, OperationDone
<1>4. CASE Connected
  <2>1. Moves(m_state, eSending)
    BY <1>4 DEF Connected, OperationDone, Expected, Awaits, Moves
  <2>2. QED  BY <1>0, <1>4, <2>1 DEF Connected, OperationDone
<1>5. CASE Written
  <2>1. Moves(m_state, eReceivingHeader)
    BY <1>5 DEF Written, OperationDone, Expected, Awaits, Moves
  <2>2. QED  BY <1>0, <1>5, <2>1 DEF Written, OperationDone
<1>6. CASE HeaderReceived
  <2>1. Moves(m_state, eReceivingConfirmation)
    BY <1>6 DEF HeaderReceived, Expected, Awaits, Moves
  <2>2. m_buf' # NoBuf
    BY <1>6 DEF HeaderReceived
  <2>3. QED  BY <1>0, <1>6, <2>1, <2>2 DEF HeaderReceived
<1>7. CASE ConfirmationReceived
  <2>1. Moves(m_state, eReceivingConfirmation)
    BY <1>7 DEF ConfirmationReceived, Expected, Awaits, Moves
  <2>2. m_buf' # NoBuf
    BY <1>7 DEF ConfirmationReceived, FieldTypeOK
  <2>3. QED  BY <1>0, <1>7, <2>1, <2>2 DEF ConfirmationReceived
<1>8. CASE DelayExpired
  <2>1. Moves(m_state, eNotConnected)
    BY <1>8, HandlerRuns DEF DelayExpired, Awaited, Moves
  <2>2. QED  BY <1>0, <1>8, <2>1 DEF DelayExpired
<1>9. QED  BY <1>1, <1>2, <1>3, <1>4, <1>5, <1>6, <1>7, <1>8 DEF Handler

\* StateMachine(), executed by the io thread, ends the session, starts the one
\* operation that the new state awaits, or moves on.
LEMMA ControlStateMachine ==
  ASSUME TypeOK, Control, StateMachine("io")
  PROVE  Control'
<1> USE DEF TypeOK, ThreadTypeOK, ServiceTypeOK, Threads
<1>0. SessionMoves /\ pc["worker"] = "loop" /\ m_sentinel /\ Idle
  BY DEF StateMachine, Dispatches, NotConnected, Reset, Resolving, Connecting, Sending,
         ReceivingHeader, ReceivingConfirmation, ConfirmationRefused, ConfirmationParsed,
         Failing, Succeeding, Control, BetweenSessions, SessionBegins, SessionWaits, SessionMoves
<1>1. ASSUME NEW k \in Kinds, Only(k)', m_state = Awaited(k), Return("io"),
             k \in SocketOps \ {"connect"} => m_buf' # NoBuf,
             UNCHANGED <<machine, m_sentinel, flags>>
      PROVE  Control'
  <2>1. pc'["io"] = "run" /\ pc'["worker"] = "loop" /\ client' = client
    BY <1>0, <1>1 DEF Return, Goto
  <2>2. m_state' = Awaited(k)' /\ m_sentinel'
    BY <1>0, <1>1 DEF Awaited, Awaits, machine
  <2>3. SessionWaits'
    BY <1>1, <2>1, <2>2 DEF SessionWaits
  <2>4. QED  BY <1>0, <1>1, <2>1, <2>3 DEF Control, flags
<1>2. ASSUME NEW s \in State, Aim("io", s), Moves(m_state, s),
             s \in {eReceivingConfirmation, eProcessingConfirmation} => m_buf' # NoBuf,
             Idle', UNCHANGED <<machine, m_sentinel, flags>>
      PROVE  Control'
  <2>1. SessionMoves'
    BY <1>0, <1>2 DEF SessionMoves, Aim, machine
  <2>2. QED  BY <1>0, <1>2, <2>1 DEF Control, Aim, flags
<1>3. ASSUME NEW k \in Kinds, StartOp(k) \/ \E K \in SUBSET Kinds : RestartOp(k, K)
      PROVE  Only(k)'
  BY <1>0, <1>3 DEF StartOp, RestartOp, Without, Idle, Only
<1>4. CASE NotConnected("io")
  <2>1. SessionMoves'
    BY <1>0, <1>4 DEF NotConnected, Dispatches, Goto, SessionMoves, Idle, service, machine
  <2>2. QED  BY <1>0, <1>4, <2>1 DEF NotConnected, Goto, Control, flags
<1>5. CASE Reset("io")
  <2>1. BetweenSessions'
    BY <1>0, <1>5 DEF Reset, Return, Goto, SessionMoves, BetweenSessions, Idle, service, machine
  <2>2. QED  BY <1>0, <1>5, <2>1 DEF Reset, Return, Goto, Control, flags
<1>6. CASE Resolving("io")
  BY <1>0, <1>6 DEF Resolving, Dispatches, SessionMoves, Moves
<1>7. CASE Connecting("io")
  BY <1>1, <1>3, <1>7 DEF Connecting, Dispatches, Awaited, Awaits
<1>8. CASE Sending("io")
  BY <1>1, <1>3, <1>8 DEF Sending, Dispatches, Awaited, Awaits
<1>9. CASE ReceivingHeader("io")
  BY <1>1, <1>3, <1>9 DEF ReceivingHeader, Dispatches, Awaited, Awaits
<1>10. CASE ReceivingConfirmation("io")
  <2>1. m_buf' # NoBuf /\ m_state = eReceivingConfirmation
    BY <1>10 DEF ReceivingConfirmation, Dispatches, receive
  <2>2. CASE StartOp("confirmation") /\ Return("io")
    BY <1>1, <1>3, <1>10, <2>1, <2>2 DEF ReceivingConfirmation, Awaited, Awaits
  <2>3. CASE Aim("io", eProcessingConfirmation) /\ UNCHANGED service
    BY <1>0, <1>2, <1>10, <2>1, <2>3 DEF ReceivingConfirmation, Moves, Idle, service
  <2>4. QED  BY <1>10, <2>2, <2>3 DEF ReceivingConfirmation
<1>11. CASE ConfirmationRefused("io")
  BY <1>0, <1>2, <1>11 DEF ConfirmationRefused, Dispatches, Moves, Idle, service
<1>12. CASE ConfirmationParsed("io")
  <2>1. PICK s \in {eError, eSuccess} : Aim("io", s)
    BY <1>12 DEF ConfirmationParsed
  <2>2. QED  BY <1>0, <1>2, <1>12, <2>1 DEF ConfirmationParsed, Dispatches, Moves, Idle, service
<1>13. CASE Failing("io")
  <2>1. PICK K \in SUBSET Kinds : RestartOp("delay", K)
    BY <1>13 DEF Failing, ClosedKinds
  <2>2. QED  BY <1>1, <1>3, <1>13, <2>1 DEF Failing, Dispatches, Awaited
<1>14. CASE Succeeding("io")
  <2>1. Idle'
    BY <1>0, <1>14 DEF Succeeding, CancelOps, Without, Idle
  <2>2. QED  BY <1>2, <1>14, <2>1 DEF Succeeding, Dispatches, Moves
<1>15. QED  BY <1>4, <1>5, <1>6, <1>7, <1>8, <1>9, <1>10, <1>11, <1>12, <1>13, <1>14
            DEF StateMachine

\* The other steps of the io thread; no buffer is missed in a session.
LEMMA ControlIo ==
  ASSUME TypeOK, Control, IoThread
  PROVE  Control'
<1> USE DEF TypeOK, ThreadTypeOK, Threads
<1>1. CASE Assign("io")
  <2>1. SessionMoves /\ Moves(m_state, target["io"])
    BY <1>1 DEF Assign, Control, BetweenSessions, SessionBegins, SessionWaits, SessionMoves
  <2>2. SessionMoves'
    BY <1>1, <2>1 DEF Assign, Goto, SessionMoves, Idle, service, receive
  <2>3. QED  BY <1>1, <2>1, <2>2 DEF Assign, Goto, Control, SessionMoves, flags
<1>2. CASE NullBuffer("io")
  <2>1. CASE pc["io"] = "dispatch"
    BY <1>2, <2>1 DEF NullBuffer, Completes, Control, BetweenSessions, SessionBegins,
                      SessionWaits, SessionMoves
  <2>2. CASE \E k \in {"header", "confirmation"} : Completes(k)
    BY <1>2, <2>2, HandlerRuns DEF NullBuffer
  <2>3. QED  BY <1>2, <2>1, <2>2 DEF NullBuffer
<1>3. QED  BY <1>1, <1>2, ControlHandler, ControlStateMachine DEF IoThread

-----------------------------------------------------------------------------
(* The messages.                                                           *)

Increasing(s) == \A i, j \in 1 .. Len(s) : i < j => s[i] < s[j]

\* Range, as it is needed of a queue.
LEMMA RangeOfSequence ==
  ASSUME NEW s \in Seq(Nat)
  PROVE  \A x : x \in Range(s) <=> \E i \in 1 .. Len(s) : x = s[i]
BY DEF Range

\* put(), unget() and get() add one message to the queue or take one off.
LEMMA RangeOfOperations ==
  ASSUME NEW s \in Seq(Nat), NEW m \in Nat
  PROVE  /\ Range(Append(s, m)) = Range(s) \union {m}
         /\ Range(<<m>> \o s) = Range(s) \union {m}
         /\ s # <<>> => Range(s) = Range(Tail(s)) \union {Head(s)}
<1>1. Range(Append(s, m)) = Range(s) \union {m}
  <2>1. Len(Append(s, m)) = Len(s) + 1 /\ Append(s, m)[Len(s) + 1] = m
    OBVIOUS
  <2>2. \A i \in 1 .. Len(s) : Append(s, m)[i] = s[i]
    OBVIOUS
  <2>3. QED  BY <2>1, <2>2 DEF Range
<1>2. Range(<<m>> \o s) = Range(s) \union {m}
  <2>1. Len(<<m>> \o s) = Len(s) + 1 /\ (<<m>> \o s)[1] = m
    OBVIOUS
  <2>2. \A i \in 1 .. Len(s) : (<<m>> \o s)[i + 1] = s[i]
    OBVIOUS
  <2>3. ASSUME NEW i \in 1 .. Len(s) + 1 PROVE (<<m>> \o s)[i] \in Range(s) \union {m}
    <3>1. CASE i = 1
      BY <3>1, <2>1
    <3>2. CASE i - 1 \in 1 .. Len(s)
      BY <3>2, <2>2 DEF Range
    <3>3. QED  BY <3>1, <3>2
  <2>4. ASSUME NEW x \in Range(s) \union {m} PROVE x \in Range(<<m>> \o s)
    <3>0. <<m>> \o s \in Seq(Nat)
      OBVIOUS
    <3>1. CASE x = m
      <4>1. 1 \in 1 .. Len(<<m>> \o s) /\ x = (<<m>> \o s)[1]
        BY <3>1, <2>1
      <4>2. QED  BY <3>0, <4>1, RangeOfSequence
    <3>2. CASE x \in Range(s)
      <4>1. PICK i \in 1 .. Len(s) : x = s[i]
        BY <3>2, RangeOfSequence
      <4>2. i + 1 \in 1 .. Len(<<m>> \o s) /\ x = (<<m>> \o s)[i + 1]
        BY <4>1, <2>1, <2>2
      <4>3. QED  BY <3>0, <4>2, RangeOfSequence
    <3>3. QED  BY <3>1, <3>2
  <2>5. \A x \in Range(<<m>> \o s) : x \in Range(s) \union {m}
    BY <2>1, <2>3 DEF Range
  <2>6. QED  BY <2>4, <2>5
<1>3. ASSUME s # <<>> PROVE Range(s) = Range(Tail(s)) \union {Head(s)}
  <2>1. Len(Tail(s)) = Len(s) - 1 /\ Head(s) = s[1] /\ 1 \in 1 .. Len(s)
    BY <1>3
  <2>2. \A i \in 1 .. Len(s) - 1 : Tail(s)[i] = s[i + 1]
    BY <1>3
  <2>3. ASSUME NEW i \in 1 .. Len(s) PROVE s[i] \in Range(Tail(s)) \union {Head(s)}
    <3>1. CASE i = 1
      BY <2>1, <3>1
    <3>2. CASE i - 1 \in 1 .. Len(s) - 1
      <4>1. s[i] = Tail(s)[i - 1] /\ Tail(s) \in Seq(Nat)
        BY <1>3, <2>2, <3>2
      <4>2. QED  BY <2>1, <3>2, <4>1, RangeOfSequence
    <3>3. QED  BY <3>1, <3>2
  <2>4. ASSUME NEW x \in Range(Tail(s)) PROVE x \in Range(s)
    <3>1. Tail(s) \in Seq(Nat)
      BY <1>3
    <3>2. PICK i \in 1 .. Len(Tail(s)) : x = Tail(s)[i]
      BY <3>1, RangeOfSequence
    <3>3. i + 1 \in 1 .. Len(s) /\ x = s[i + 1]
      BY <2>1, <2>2, <3>2
    <3>4. QED  BY <3>3, RangeOfSequence
  <2>5. Head(s) \in Range(s)
    BY <2>1, RangeOfSequence
  <2>6. \A x \in Range(s) : x \in Range(Tail(s)) \union {Head(s)}
    BY <2>3, RangeOfSequence
  <2>7. QED  BY <2>4, <2>5, <2>6
<1>4. QED  BY <1>1, <1>2, <1>3

\* They keep the queue in posting order, if the message goes where it belongs.
LEMMA OrderOfOperations ==
  ASSUME NEW s \in Seq(Nat), NEW m \in Nat, Increasing(s)
  PROVE  /\ (\A x \in Range(s) : x < m) => Increasing(Append(s, m))
         /\ (\A x \in Range(s) : m < x) => Increasing(<<m>> \o s)
         /\ s # <<>> => Increasing(Tail(s)) /\ \A x \in Range(Tail(s)) : Head(s) < x
<1>1. ASSUME \A x \in Range(s) : x < m PROVE Increasing(Append(s, m))
  <2>1. Len(Append(s, m)) = Len(s) + 1 /\ Append(s, m)[Len(s) + 1] = m
    OBVIOUS
  <2>2. \A i \in 1 .. Len(s) : Append(s, m)[i] = s[i] /\ s[i] < m
    BY <1>1 DEF Range
  <2>3. QED  BY <2>1, <2>2 DEF Increasing
<1>2. ASSUME \A x \in Range(s) : m < x PROVE Increasing(<<m>> \o s)
  <2>1. Len(<<m>> \o s) = Len(s) + 1 /\ (<<m>> \o s)[1] = m
    OBVIOUS
  <2>2. \A i \in 2 .. Len(s) + 1 : /\ i - 1 \in 1 .. Len(s)
                                   /\ (<<m>> \o s)[i] = s[i - 1] /\ m < s[i - 1]
    BY <1>2 DEF Range
  <2>3. ASSUME NEW i \in 2 .. Len(s) + 1, NEW j \in 2 .. Len(s) + 1, i < j
        PROVE  s[i - 1] < s[j - 1]
    <3>1. i - 1 \in 1 .. Len(s) /\ j - 1 \in 1 .. Len(s) /\ i - 1 < j - 1
      BY <2>3
    <3>2. QED  BY <3>1 DEF Increasing
  <2>4. QED  BY <2>1, <2>2, <2>3 DEF Increasing
<1>3. ASSUME s # <<>>
      PROVE  Increasing(Tail(s)) /\ \A x \in Range(Tail(s)) : Head(s) < x
  <2>1. Len(Tail(s)) = Len(s) - 1 /\ Head(s) = s[1] /\ 1 \in 1 .. Len(s)
    BY <1>3
  <2>2. \A i \in 1 .. Len(s) - 1 : Tail(s)[i] = s[i + 1] /\ i + 1 \in 1 .. Len(s) /\ 1 < i + 1
    BY <1>3
  <2>3. Increasing(Tail(s))
    BY <2>1, <2>2 DEF Increasing
  <2>4. \A i \in 1 .. Len(s) - 1 : Head(s) < Tail(s)[i]
    BY <2>1, <2>2 DEF Increasing
  <2>5. QED  BY <2>1, <2>3, <2>4 DEF Range
<1>4. QED  BY <1>1, <1>2, <1>3

Placed == Accounted /\ Ordered

\* What the client of an outbox sees of a step.
OutboxStep == [Outbox!Next]_<<Undelivered, confirmed>>

\* A step that moves no message keeps every message where it is.
LEMMA PlacedFrame ==
  ASSUME Placed, UNCHANGED <<jobs, posted, confirmed, dropped, m_sendingMessage>>,
         HoldsMessage' <=> HoldsMessage
  PROVE  Placed' /\ OutboxStep
<1>1. Queued' = Queued /\ InTransit' = InTransit
  BY DEF Queued, Range, InTransit
<1>2. Accounted'
  BY <1>1 DEF Placed, Accounted
<1>3. Ordered'
  BY <1>1 DEF Placed, Ordered
<1>4. UNCHANGED <<Undelivered, confirmed>>
  BY DEF Undelivered, InOrder
<1>5. QED  BY <1>2, <1>3, <1>4 DEF Placed, OutboxStep

\* What is in the queue was posted, or is an empty message.
LEMMA QueuePosted ==
  ASSUME TypeOK, Placed
  PROVE  /\ jobs \in Seq(Nat) /\ posted \in Nat /\ m_sendingMessage \in Nat
         /\ Increasing(jobs)
         /\ \A x \in Range(jobs) : x \in Nat /\ x < posted + 1
         /\ HoldsMessage => \A x \in Range(jobs) : m_sendingMessage < x
<1>1. jobs \in Seq(Nat) /\ posted \in Nat /\ m_sendingMessage \in Nat
  BY DEF TypeOK, m_messageQueue!TypeOK, HistoryTypeOK, FieldTypeOK
<1>2. Increasing(jobs)
  BY DEF Placed, Ordered, Increasing
<1>3. \A x \in Range(jobs) : x = 0 \/ x \in 1 .. posted
  BY DEF Placed, Accounted, Queued
<1>4. HoldsMessage => \A x \in Range(jobs) : m_sendingMessage < x
  BY DEF Placed, Ordered, Range
<1>5. QED  BY <1>1, <1>2, <1>3, <1>4

WithoutEmpty(s) == IF s # <<>> /\ Head(s) = EmptyMessage THEN Tail(s) ELSE s

\* The queue, and the queue behind the message in transit, are in order, and
\* the first may be the empty message.
LEMMA InOrderIncreasing ==
  ASSUME TypeOK, Placed
  PROVE  InOrder \in Seq(Nat) /\ Increasing(InOrder) /\ Undelivered = WithoutEmpty(InOrder)
<1>1. InOrder \in Seq(Nat)
  BY QueuePosted DEF InOrder
<1>2. Increasing(InOrder)
  <2>1. CASE HoldsMessage
    BY <2>1, QueuePosted, OrderOfOperations DEF InOrder
  <2>2. CASE ~ HoldsMessage
    BY <2>2, QueuePosted DEF InOrder
  <2>3. QED  BY <2>1, <2>2
<1>3. QED  BY <1>1, <1>2 DEF Undelivered, WithoutEmpty

\* What is in the outbox is what is queued or in transit.
LEMMA WaitingIsPlaced ==
  ASSUME TypeOK, Placed
  PROVE  Range(Undelivered) = Queued \union InTransit
<1> DEFINE s == InOrder
<1>1. s \in Seq(Nat) /\ Increasing(s) /\ Undelivered = WithoutEmpty(s)
  BY InOrderIncreasing
<1>2. Range(s) = Range(jobs) \union (IF HoldsMessage THEN {m_sendingMessage} ELSE {})
  <2>1. CASE HoldsMessage
    BY <2>1, QueuePosted, RangeOfOperations DEF InOrder
  <2>2. CASE ~ HoldsMessage
    BY <2>2 DEF InOrder
  <2>3. QED  BY <2>1, <2>2
<1>3. Range(s) \ {EmptyMessage} = Queued \union InTransit
  BY <1>2 DEF Queued, InTransit
<1>4. Range(WithoutEmpty(s)) = Range(s) \ {EmptyMessage}
  <2> HIDE DEF s
  <2>1. CASE s = <<>>
    BY <2>1 DEF WithoutEmpty, Range
  <2>2. CASE s # <<>>
    <3>1. Range(s) = Range(Tail(s)) \union {Head(s)}
      BY <1>1, <2>2, 0 \in Nat, RangeOfOperations
    <3>2. \A x \in Range(Tail(s)) : Head(s) < x
      BY <1>1, <2>2, 0 \in Nat, OrderOfOperations
    <3>3. Head(s) \in Nat
      BY <1>1, <2>2
    <3>4. EmptyMessage \notin Range(Tail(s))
      BY <3>2, <3>3
    <3>5. QED  BY <2>2, <3>1, <3>4 DEF WithoutEmpty
  <2>3. QED  BY <2>1, <2>2
<1>5. QED  BY <1>1, <1>3, <1>4

\* What is put behind a queue is behind what goes before the queue.
LEMMA AppendedBehind ==
  ASSUME NEW m \in Nat, NEW s \in Seq(Nat), NEW x \in Nat
  PROVE  <<m>> \o Append(s, x) = Append(<<m>> \o s, x)
<1>1. <<m>> \in Seq(Nat) /\ <<x>> \in Seq(Nat)
  OBVIOUS
<1>2. <<m>> \o s \in Seq(Nat)
  BY <1>1, ConcatProperties
<1>3. Append(s, x) = s \o <<x>>
  BY AppendIsConcat
<1>4. Append(<<m>> \o s, x) = (<<m>> \o s) \o <<x>>
  BY <1>2, AppendIsConcat
<1>5. (<<m>> \o s) \o <<x>> = <<m>> \o (s \o <<x>>)
  BY <1>1, ConcatAssociative
<1>6. QED  BY <1>3, <1>4, <1>5

\* post(): the message goes behind all others, wherever they are.
LEMMA PlacedPost ==
  ASSUME TypeOK, Placed, post
  PROVE  Placed' /\ OutboxStep
<1>1. UNCHANGED <<confirmed, dropped, m_sendingMessage>> /\ (HoldsMessage' <=> HoldsMessage)
  BY DEF post, ClientGoes, settled, machine, HoldsMessage
<1>2. posted' = posted + 1 /\ jobs' = Append(jobs, posted + 1)
  BY DEF post, m_messageQueue!put
<1>3. Range(jobs') = Range(jobs) \union {posted + 1} /\ Increasing(jobs')
  <2>1. /\ jobs \in Seq(Nat) /\ posted + 1 \in Nat
        /\ Increasing(jobs) /\ \A x \in Range(jobs) : x < posted + 1
    BY QueuePosted
  <2>2. Range(Append(jobs, posted + 1)) = Range(jobs) \union {posted + 1}
    BY <2>1, RangeOfOperations
  <2>3. Increasing(Append(jobs, posted + 1))
    BY <2>1, OrderOfOperations
  <2>4. QED  BY <1>2, <2>2, <2>3
<1>4. Queued' = Queued \union {posted + 1} /\ InTransit' = InTransit
  <2>1. posted + 1 # 0
    BY QueuePosted
  <2>2. Range(jobs)' = Range(jobs')
    BY DEF Range
  <2>3. QED  BY <1>1, <1>3, <2>1, <2>2 DEF Queued, InTransit
<1>5. Queued \union InTransit \union confirmed \union dropped \subseteq 1 .. posted
  BY DEF Placed, Accounted
<1>6. Accounted'
  <2>1. 1 .. posted' = 1 .. posted \union {posted + 1} /\ posted + 1 \notin 1 .. posted
    BY <1>2, QueuePosted
  <2>2. QED  BY <1>1, <1>4, <1>5, <2>1 DEF Placed, Accounted
<1>7. Ordered'
  <2>1. HoldsMessage => m_sendingMessage < posted + 1
    BY <1>5, QueuePosted DEF InTransit
  <2>2. HoldsMessage => \A x \in Range(jobs') : m_sendingMessage < x
    BY <1>3, <2>1, QueuePosted
  <2>3. \A c \in confirmed : c < posted + 1
    BY <1>5, QueuePosted
  <2>4. \A c \in confirmed : \A m \in Queued \union InTransit : c < m
    BY DEF Placed, Ordered
  <2>5. \A c \in confirmed : \A m \in Queued' \union InTransit' : c < m
    BY <1>4, <2>3, <2>4
  <2>6. QED  BY <1>1, <1>3, <2>2, <2>5 DEF Ordered, Increasing, Range
<1>8. Outbox!Post
  <2>1. Undelivered' = Append(Undelivered, posted + 1)
    <3>1. InOrder' = Append(InOrder, posted + 1)
      <4>1. jobs \in Seq(Nat) /\ m_sendingMessage \in Nat /\ posted + 1 \in Nat
        BY QueuePosted
      <4>2. <<m_sendingMessage>> \o Append(jobs, posted + 1)
              = Append(<<m_sendingMessage>> \o jobs, posted + 1)
        BY <4>1, AppendedBehind
      <4>3. QED  BY <1>1, <1>2, <4>2, Zenon DEF InOrder
    <3>2. InOrder \in Seq(Nat) /\ posted + 1 \in Nat \ {0}
      BY QueuePosted, InOrderIncreasing
    <3>3. CASE InOrder = <<>>
      <4>1. InOrder' = <<posted + 1>> /\ Head(InOrder') # EmptyMessage
        BY <3>1, <3>2, <3>3
      <4>2. QED  BY <3>1, <3>3, <4>1 DEF Undelivered
    <3>4. CASE InOrder # <<>>
      <4>1. /\ InOrder' # <<>> /\ Head(InOrder') = Head(InOrder)
            /\ Tail(InOrder') = Append(Tail(InOrder), posted + 1)
        BY <3>1, <3>2, <3>4
      <4>2. QED  BY <3>1, <3>4, <4>1 DEF Undelivered
    <3>5. QED  BY <3>3, <3>4
  <2>2. posted + 1 \in Messages
    BY QueuePosted DEF Messages, post
  <2>3. posted + 1 \notin confirmed \union Outbox!Waiting
    <3>1. Outbox!Waiting = Queued \union InTransit
      BY WaitingIsPlaced DEF Outbox!Waiting, Range
    <3>2. posted + 1 \notin 1 .. posted
      BY QueuePosted
    <3>3. QED  BY <1>5, <3>1, <3>2
  <2>4. QED  BY <1>1, <2>1, <2>2, <2>3 DEF Outbox!Post
<1>9. QED  BY <1>6, <1>7, <1>8 DEF Placed, OutboxStep, Outbox!Next

\* dropMessages(): what is in the queue is dropped, what is in transit is not.
LEMMA PlacedDrop ==
  ASSUME TypeOK, Placed, dropMessages
  PROVE  Placed' /\ OutboxStep
<1>1. UNCHANGED <<posted, confirmed, m_sendingMessage>> /\ (HoldsMessage' <=> HoldsMessage)
  BY DEF dropMessages, threads, calls, machine, HoldsMessage
<1>2. jobs' = <<>> /\ dropped' = dropped \union Queued
  BY DEF dropMessages, m_messageQueue!clear, Queued
<1>3. Queued' = {} /\ InTransit' = InTransit
  BY <1>1, <1>2 DEF Queued, Range, InTransit
<1>4. Accounted'
  BY <1>1, <1>2, <1>3 DEF Placed, Accounted
<1>5. Ordered'
  BY <1>1, <1>2, <1>3 DEF Placed, Ordered
<1>6. OutboxStep
  <2>1. CASE ~ HoldsMessage
    <3>1. Undelivered' = <<>>
      BY <1>1, <1>2, <2>1 DEF Undelivered, InOrder
    <3>2. QED  BY <1>1, <3>1 DEF OutboxStep, Outbox!Next, Outbox!Drop
  <2>2. CASE HoldsMessage /\ m_sendingMessage = EmptyMessage
    <3>1. Undelivered' = <<>>
      BY <1>1, <1>2, <2>2 DEF Undelivered, InOrder
    <3>2. QED  BY <1>1, <3>1 DEF OutboxStep, Outbox!Next, Outbox!Drop
  <2>3. CASE HoldsMessage /\ m_sendingMessage # EmptyMessage
    <3>1. Undelivered = <<m_sendingMessage>> \o jobs
      BY <2>3, QueuePosted DEF Undelivered, InOrder
    <3>2. Undelivered' = <<m_sendingMessage>>
      BY <1>1, <1>2, <2>3, QueuePosted DEF Undelivered, InOrder
    <3>3. Undelivered # <<>> /\ Head(Undelivered) = m_sendingMessage
      BY <3>1, QueuePosted
    <3>4. QED  BY <1>1, <3>2, <3>3 DEF OutboxStep, Outbox!Next, Outbox!Drop
  <2>4. QED  BY <2>1, <2>2, <2>3
<1>7. QED  BY <1>4, <1>5, <1>6 DEF Placed

\* get(): the first message goes from the queue into the session.
LEMMA PlacedSending ==
  ASSUME TypeOK, Placed, Sending("io")
  PROVE  Placed' /\ OutboxStep
<1>1. UNCHANGED <<posted, confirmed, dropped>>
  BY DEF Sending, calls, settled
<1>2. ~ HoldsMessage /\ HoldsMessage'
  BY DEF Sending, Dispatches, Return, Goto, machine, HoldsMessage, TypeOK, ThreadTypeOK, Threads
<1>3. InTransit = {} /\ InTransit' = {m_sendingMessage'} \ {EmptyMessage}
  BY <1>2 DEF InTransit
<1>4. CASE jobs = <<>>
  <2>1. jobs' = <<>> /\ m_sendingMessage' = EmptyMessage
    BY <1>4 DEF Sending, m_messageQueue!get, m_messageQueue!front
  <2>2. Queued = {} /\ Queued' = {} /\ InTransit' = {}
    BY <1>3, <1>4, <2>1 DEF Queued, Range
  <2>3. Accounted'
    BY <1>1, <1>3, <2>2 DEF Placed, Accounted
  <2>4. Ordered'
    BY <1>1, <2>1, <2>2 DEF Ordered
  <2>5. Undelivered = <<>> /\ Undelivered' = <<>>
    BY <1>2, <1>4, <2>1 DEF Undelivered, InOrder
  <2>6. QED  BY <1>1, <2>3, <2>4, <2>5 DEF Placed, OutboxStep
<1>5. CASE jobs # <<>>
  <2>1. jobs' = Tail(jobs) /\ m_sendingMessage' = Head(jobs)
    BY <1>5 DEF Sending, m_messageQueue!get, m_messageQueue!front
  <2>2. /\ Range(jobs) = Range(jobs') \union {m_sendingMessage'}
        /\ Increasing(jobs')
        /\ \A x \in Range(jobs') : m_sendingMessage' < x
    BY <1>5, <2>1, QueuePosted, RangeOfOperations, OrderOfOperations
  <2>3. m_sendingMessage' \notin Range(jobs')
    BY <1>5, <2>1, <2>2, QueuePosted
  <2>4. /\ Queued = Queued' \union InTransit'
        /\ Queued' \intersect InTransit' = {}
    BY <1>3, <2>2, <2>3 DEF Queued, Range
  <2>5. Accounted'
    BY <1>1, <1>3, <2>4 DEF Placed, Accounted
  <2>6. Ordered'
    BY <1>1, <1>3, <2>2, <2>4 DEF Placed, Ordered, Increasing, Range
  <2>7. UNCHANGED Undelivered
    <3>1. <<m_sendingMessage'>> \o jobs' = jobs
      BY <1>5, <2>1, QueuePosted
    <3>2. InOrder = jobs /\ InOrder' = jobs
      BY <1>2, <3>1 DEF InOrder
    <3>3. QED  BY <3>2 DEF Undelivered
  <2>8. QED  BY <1>1, <2>5, <2>6, <2>7 DEF Placed, OutboxStep
<1>6. QED  BY <1>4, <1>5

\* A confirmation: the message in transit is delivered if the status is good.
LEMMA PlacedConfirmation ==
  ASSUME TypeOK, Placed, ConfirmationParsed("io")
  PROVE  Placed' /\ OutboxStep
<1>1. UNCHANGED <<jobs, posted, dropped, m_sendingMessage, m_state>> /\ HoldsMessage
  BY DEF ConfirmationParsed, Dispatches, HoldsMessage, queue, calls, machine
<1>2. CASE Aim("io", eError) /\ UNCHANGED confirmed
  <2>1. HoldsMessage'
    BY <1>1, <1>2 DEF ConfirmationParsed, Dispatches, Aim, HoldsMessage, TypeOK, ThreadTypeOK, Threads
  <2>2. QED  BY <1>1, <1>2, <2>1, PlacedFrame
<1>3. CASE Aim("io", eSuccess) /\ confirmed' = confirmed \union ({m_sendingMessage} \ {EmptyMessage})
  <2>1. ~ HoldsMessage'
    BY <1>1, <1>3 DEF ConfirmationParsed, Dispatches, Aim, HoldsMessage, TypeOK, ThreadTypeOK, Threads
  <2>2. /\ confirmed' = confirmed \union InTransit
        /\ InTransit' = {} /\ Queued' = Queued
    BY <1>1, <1>3, <2>1 DEF InTransit, Queued, Range
  <2>3. Accounted'
    BY <1>1, <2>2 DEF Placed, Accounted
  <2>4. Ordered'
    <3>1. \A m \in Queued : \A c \in InTransit : c < m
      BY <1>1, QueuePosted DEF InTransit, Queued
    <3>2. QED  BY <1>1, <2>1, <2>2, <3>1 DEF Placed, Ordered
  <2>5. OutboxStep
    <3>1. jobs # <<>> => Head(jobs) # EmptyMessage
      <4>1. jobs # <<>> => Head(jobs) \in Range(jobs)
        BY QueuePosted, RangeOfOperations
      <4>2. QED  BY <1>1, <4>1, QueuePosted
    <3>2. Undelivered' = jobs
      BY <1>1, <2>1, <3>1 DEF Undelivered, InOrder
    <3>3. /\ Head(<<m_sendingMessage>> \o jobs) = m_sendingMessage
          /\ Tail(<<m_sendingMessage>> \o jobs) = jobs
          /\ <<m_sendingMessage>> \o jobs # <<>>
      BY QueuePosted
    <3>4. CASE m_sendingMessage = EmptyMessage
      <4>1. Undelivered = jobs
        BY <1>1, <3>3, <3>4 DEF Undelivered, InOrder
      <4>2. QED  BY <1>3, <3>2, <3>4, <4>1 DEF OutboxStep
    <3>5. CASE m_sendingMessage # EmptyMessage
      <4>1. Undelivered = <<m_sendingMessage>> \o jobs
        BY <1>1, <3>3, <3>5 DEF Undelivered, InOrder
      <4>2. Outbox!Deliver
        BY <1>3, <3>2, <3>3, <3>5, <4>1 DEF Outbox!Deliver
      <4>3. QED  BY <4>2 DEF OutboxStep, Outbox!Next
    <3>6. QED  BY <3>4, <3>5
  <2>6. QED  BY <2>3, <2>4, <2>5 DEF Placed
<1>4. QED  BY <1>2, <1>3 DEF ConfirmationParsed

\* unget(): the message in transit, if the session had taken one, goes back in
\* front of the queue.
LEMMA PlacedFailing ==
  ASSUME TypeOK, Placed, Failing("io")
  PROVE  Placed' /\ OutboxStep
<1>1. UNCHANGED <<posted, confirmed, dropped, m_sendingMessage>> /\ ~ HoldsMessage'
  BY DEF Failing, Dispatches, Return, Goto, calls, settled, machine, HoldsMessage,
         TypeOK, ThreadTypeOK, Threads
<1>2. CASE m_prevState >= eSending
  <2>1. jobs' = <<m_sendingMessage>> \o jobs /\ HoldsMessage
    BY <1>2 DEF Failing, Dispatches, m_messageQueue!unget, HoldsMessage
  <2>2. Range(jobs') = Range(jobs) \union {m_sendingMessage} /\ Increasing(jobs')
    BY <2>1, QueuePosted, RangeOfOperations, OrderOfOperations
  <2>3. Queued' = Queued \union InTransit /\ InTransit' = {}
    BY <1>1, <2>1, <2>2 DEF Queued, InTransit, Range
  <2>4. Accounted'
    BY <1>1, <2>3 DEF Placed, Accounted
  <2>5. Ordered'
    BY <1>1, <2>2, <2>3 DEF Placed, Ordered, Increasing
  <2>6. UNCHANGED Undelivered
    BY <1>1, <2>1 DEF Undelivered, InOrder
  <2>7. QED  BY <1>1, <2>4, <2>5, <2>6 DEF Placed, OutboxStep
<1>3. CASE ~ (m_prevState >= eSending)
  <2>1. UNCHANGED jobs /\ ~ HoldsMessage
    BY <1>3 DEF Failing, Dispatches, HoldsMessage, queue
  <2>2. QED  BY <1>1, <2>1, PlacedFrame
<1>4. QED  BY <1>2, <1>3

\* A call of the client.
LEMMA PlacedClient ==
  ASSUME TypeOK, Placed, Client
  PROVE  Placed' /\ OutboxStep
<1>1. CASE start \/ stop \/ StopCancelsTimer \/ StopCancelsSocket \/ StopJoins \/ PostNotifies
  <2>1. UNCHANGED <<jobs, posted, confirmed, dropped, m_sendingMessage>>
    BY <1>1 DEF start, stop, StopCancelsTimer, StopCancelsSocket, StopJoins, StopCancels,
                PostNotifies, m_messageQueue!notify_one, queue, calls, settled
  <2>2. HoldsMessage' <=> HoldsMessage
    BY <1>1 DEF start, stop, StopCancelsTimer, StopCancelsSocket, StopJoins, StopCancels,
                PostNotifies, ClientGoes, machine, HoldsMessage, TypeOK, ThreadTypeOK, Threads
  <2>3. QED  BY <2>1, <2>2, PlacedFrame
<1>2. QED  BY <1>1, PlacedPost, PlacedDrop DEF Client

\* The worker moves no message.
LEMMA PlacedWorker ==
  ASSUME TypeOK, Control, Placed, pc["io"] = "run", WorkerThread
  PROVE  Placed' /\ OutboxStep
<1> USE DEF TypeOK, ThreadTypeOK, Threads
<1>1. CASE Worker /\ BetweenSessions /\ ~ WorkerExits
  <2>1. UNCHANGED <<jobs, posted, confirmed, dropped, m_sendingMessage>>
    BY <1>1 DEF Worker, WorkerBegins, MessageFound, m_messageQueue!HasJobs,
                m_messageQueue!queueVars, WorkerBlocks, m_messageQueue!Block, WorkerWakes,
                WaitTimesOut, m_messageQueue!LeaveWait, queue, calls, settled
  <2>2. m_state = eNotConnected /\ m_state' = eNotConnected
    BY <1>1 DEF BetweenSessions, Worker, WorkerBegins, MessageFound, WorkerBlocks,
                WorkerWakes, WaitTimesOut, machine
  <2>3. QED  BY <2>1, <2>2, PlacedFrame DEF HoldsMessage
<1>2. CASE Assign("worker") /\ SessionBegins /\ target["worker"] = eResolving
  <2>1. UNCHANGED <<jobs, posted, confirmed, dropped, m_sendingMessage>>
    BY <1>2 DEF Assign, queue, calls, settled
  <2>2. m_state = eNotConnected /\ m_state' = eResolving
    BY <1>2 DEF SessionBegins, Assign
  <2>3. QED  BY <2>1, <2>2, PlacedFrame DEF HoldsMessage
<1>3. CASE Resolving("worker") /\ SessionBegins
  <2>1. UNCHANGED <<jobs, posted, confirmed, dropped, m_sendingMessage>>
    BY <1>3 DEF Resolving, queue, calls, settled
  <2>2. m_state = eResolving /\ m_state' = eResolving
    BY <1>3 DEF Resolving, Dispatches, machine
  <2>3. QED  BY <2>1, <2>2, PlacedFrame DEF HoldsMessage
<1>4. QED  BY <1>1, <1>2, <1>3, WorkerSteps

\* A handler moves no message; StateMachine() does, where it sends, fails and
\* reads a confirmation.
LEMMA PlacedIo ==
  ASSUME TypeOK, Control, Placed, IoThread
  PROVE  Placed' /\ OutboxStep
<1> USE DEF TypeOK, ThreadTypeOK, Threads
<1>1. CASE Handler
  <2>1. UNCHANGED <<jobs, posted, confirmed, dropped, m_sendingMessage, m_state>>
    BY <1>1 DEF Handler, StaleCompletion, OperationFailed, Resolved, Connected, Written,
                OperationDone, HeaderReceived, ConfirmationReceived, DelayExpired,
                queue, calls, settled, machine
  <2>2. PICK k : Completes(k)
    BY <1>1 DEF Handler, StaleCompletion, OperationFailed, Resolved, Connected, Written,
                OperationDone, HeaderReceived, ConfirmationReceived, DelayExpired
  <2>3. m_state # eProcessingConfirmation
    BY <2>2, HandlerRuns DEF Awaited, Awaits
  <2>4. pc["io"] = "run" /\ pc'["io"] \in {"run", "assign"}
    BY <1>1, <2>2 DEF Completes, Handler, StaleCompletion, OperationFailed, Resolved,
                Connected, Written, OperationDone, HeaderReceived, ConfirmationReceived,
                DelayExpired, Aim, threads
  <2>5. HoldsMessage' <=> HoldsMessage
    BY <2>1, <2>3, <2>4 DEF HoldsMessage
  <2>6. QED  BY <2>1, <2>5, PlacedFrame
<1>2. CASE Assign("io")
  <2>1. UNCHANGED <<jobs, posted, confirmed, dropped, m_sendingMessage>>
    BY <1>2 DEF Assign, queue, calls, settled
  <2>2. Moves(m_state, target["io"])
    BY <1>2 DEF Assign, Control, BetweenSessions, SessionBegins, SessionWaits, SessionMoves
  <2>3. HoldsMessage' <=> HoldsMessage
    BY <1>2, <2>2 DEF Assign, Goto, Moves, HoldsMessage
  <2>4. QED  BY <2>1, <2>3, PlacedFrame
<1>3. CASE StateMachine("io")
  <2>1. CASE \/ NotConnected("io") \/ Reset("io") \/ Connecting("io") \/ Resolving("io")
             \/ ReceivingHeader("io") \/ ReceivingConfirmation("io")
             \/ ConfirmationRefused("io") \/ Succeeding("io")
    <3>1. UNCHANGED <<jobs, posted, confirmed, dropped, m_sendingMessage, m_state>>
      BY <2>1 DEF NotConnected, Reset, Connecting, Resolving, ReceivingHeader,
                  ReceivingConfirmation, ConfirmationRefused, Succeeding,
                  queue, calls, settled, machine
    <3>2. HoldsMessage' <=> HoldsMessage
      <4>1. CASE Reset("io")
        <5>1. m_state = eNotConnected
          BY <4>1 DEF Reset, Control, BetweenSessions, SessionBegins, SessionWaits, SessionMoves
        <5>2. QED  BY <3>1, <5>1 DEF HoldsMessage
      <4>2. CASE ~ Reset("io")
        BY <2>1, <3>1, <4>2 DEF NotConnected, Connecting, Resolving, ReceivingHeader,
             ReceivingConfirmation, ConfirmationRefused, Succeeding, Dispatches, Aim,
             HoldsMessage
      <4>3. QED  BY <4>1, <4>2
    <3>3. QED  BY <3>1, <3>2, PlacedFrame
  <2>2. QED
    BY <1>3, <2>1, PlacedSending, PlacedConfirmation, PlacedFailing DEF StateMachine
<1>4. CASE NullBuffer("io")
  <2>1. CASE pc["io"] = "dispatch"
    BY <1>4, <2>1 DEF NullBuffer, Completes, Control, BetweenSessions, SessionBegins,
                      SessionWaits, SessionMoves
  <2>2. CASE \E k \in {"header", "confirmation"} : Completes(k)
    BY <1>4, <2>2, HandlerRuns DEF NullBuffer
  <2>3. QED  BY <1>4, <2>1, <2>2 DEF NullBuffer
<1>5. QED  BY <1>1, <1>2, <1>3, <1>4 DEF IoThread

\* Neither does the end of an operation.
LEMMA PlacedCompletion ==
  ASSUME Placed, Completion
  PROVE  Placed' /\ OutboxStep
<1>1. UNCHANGED <<jobs, posted, confirmed, dropped, m_sendingMessage>>
  BY DEF Completion, queue, calls, settled
<1>2. HoldsMessage' <=> HoldsMessage
  BY DEF Completion, machine, threads, HoldsMessage
<1>3. QED  BY <1>1, <1>2, PlacedFrame

-----------------------------------------------------------------------------
(* The invariant.                                                          *)

SessionInv == stops = 0 => Control /\ Placed

LEMMA SessionInit == Init => SessionInv
<1> SUFFICES ASSUME Init PROVE Control /\ Placed
  BY DEF SessionInv
<1>1. Control
  BY DEF Init, Control, BetweenSessions, Idle
<1>2. jobs = <<>> /\ posted = 0 /\ confirmed = {} /\ dropped = {} /\ ~ HoldsMessage
  BY DEF Init, m_messageQueue!Init, HoldsMessage
<1>3. Queued = {} /\ InTransit = {}
  BY <1>2 DEF Queued, InTransit, Range
<1>4. Accounted /\ Ordered
  BY <1>2, <1>3 DEF Accounted, Ordered
<1>5. QED  BY <1>1, <1>4 DEF Placed

\* Whether a transmitter was ever stopped is not forgotten.
LEMMA StopsCounted ==
  ASSUME TypeOK, [SerialNext]_vars
  PROVE  stops' >= stops
<1> USE DEF TypeOK, HistoryTypeOK
<1>1. CASE Client
  BY <1>1 DEF Client, start, stop, StopCancelsTimer, StopCancelsSocket, StopJoins,
              StopCancels, post, PostNotifies, dropMessages, calls
<1>2. CASE Worker \/ Handler \/ Completion
  BY <1>2 DEF Worker, WorkerBegins, MessageFound, WorkerBlocks, WorkerWakes, WaitTimesOut,
              WorkerExits, Handler, StaleCompletion, OperationFailed, Resolved, Connected,
              Written, OperationDone, HeaderReceived, ConfirmationReceived, DelayExpired,
              Completion, calls
<1>3. CASE \E t \in Threads : Assign(t) \/ StateMachine(t) \/ NullBuffer(t)
  BY <1>3 DEF Assign, NullBuffer, StateMachine, NotConnected, Reset, Resolving, Connecting,
              Sending, ReceivingHeader, ReceivingConfirmation, ConfirmationRefused,
              ConfirmationParsed, Failing, Succeeding, calls
<1>4. CASE UNCHANGED vars
  BY <1>4 DEF vars, calls
<1>5. QED
  BY <1>1, <1>2, <1>3, <1>4 DEF SerialNext, WorkerTurn, WorkerThread, IoTurn, IoThread, Threads

LEMMA SessionStep ==
  ASSUME TypeOK, SessionInv, [SerialNext]_vars, stops' = 0
  PROVE  Control' /\ Placed' /\ OutboxStep
<1>1. stops' = stops
  BY StopsCounted DEF TypeOK, HistoryTypeOK
<1>2. Control /\ Placed
  BY <1>1 DEF SessionInv
<1>3. CASE Client
  BY <1>1, <1>2, <1>3, ControlClient, PlacedClient
<1>4. CASE WorkerTurn
  BY <1>2, <1>4, ControlWorker, PlacedWorker DEF WorkerTurn
<1>5. CASE IoTurn
  BY <1>2, <1>5, ControlIo, PlacedIo DEF IoTurn
<1>6. CASE Completion
  BY <1>2, <1>6, ControlCompletion, PlacedCompletion
<1>7. CASE UNCHANGED vars
  <2>1. UNCHANGED <<jobs, consumer, m_running, m_shutdown, m_sentinel, m_prevState, m_state,
                    m_sendingMessage, m_buf, client, pc, target, ops, ready, posted,
                    confirmed, dropped>>
    BY <1>7 DEF vars, queue, flags, machine, receive, threads, service, calls, settled
  <2>2. HoldsMessage' <=> HoldsMessage
    BY <2>1 DEF HoldsMessage
  <2>3. Control'
    BY <1>2, <2>1 DEF Control, BetweenSessions, SessionBegins, SessionWaits, SessionMoves,
                      Idle, Only
  <2>4. QED  BY <1>2, <2>1, <2>2, <2>3, PlacedFrame
<1>8. QED  BY <1>3, <1>4, <1>5, <1>6, <1>7 DEF SerialNext

\* SerialSpec takes away steps of Spec, and adds none.
LEMMA SerialTyped == SerialSpec => []TypeOK
<1>1. Init => TypeOK
  BY InitTyped
<1>2. TypeOK /\ [SerialNext]_vars => TypeOK'
  BY NextTyped DEF SerialNext, Next, WorkerTurn, IoTurn
<1>3. QED  BY <1>1, <1>2, PTL DEF SerialSpec

LEMMA SessionAlways == SerialSpec => []SessionInv
<1>1. Init => SessionInv
  BY SessionInit
<1>2. TypeOK /\ SessionInv /\ [SerialNext]_vars => SessionInv'
  BY SessionStep DEF SessionInv
<1>3. QED  BY <1>1, <1>2, SerialTyped, PTL DEF SerialSpec

(***************************************************************************)
(* Until it is stopped, the transmitter keeps every posted message in      *)
(* exactly one place - delivered, dropped, queued or in transit - through  *)
(* any number of failing sessions, for any number of messages.             *)
(***************************************************************************)
THEOREM MessagesAccounted == SerialSpec => [](stops = 0 => Accounted)
<1>1. SessionInv => (stops = 0 => Accounted)
  BY DEF SessionInv, Placed
<1>2. QED  BY <1>1, SessionAlways, PTL

(***************************************************************************)
(* Until it is stopped, the transmitter delivers in posting order: what is *)
(* queued was posted after what is in transit, and that after what was     *)
(* delivered, although failed messages are put back with unget().          *)
(***************************************************************************)
THEOREM MessagesOrdered == SerialSpec => [](stops = 0 => Ordered)
<1>1. SessionInv => (stops = 0 => Ordered)
  BY DEF SessionInv, Placed
<1>2. QED  BY <1>1, SessionAlways, PTL

-----------------------------------------------------------------------------
(* One activity.                                                           *)

(***************************************************************************)
(* Until it is stopped, the transmitter dereferences no null m_buf, holds  *)
(* the buffer for as long as an operation works on it, and keeps the       *)
(* io_service running for as long as an operation is outstanding.          *)
(***************************************************************************)
THEOREM ResourcesKept == SerialSpec => [](stops = 0 => ResourcesHeld /\ Alive)
<1>1. TypeOK /\ SessionInv => (stops = 0 => ResourcesHeld /\ Alive)
  <2> SUFFICES ASSUME TypeOK, Control PROVE ResourcesHeld /\ Alive
    BY DEF SessionInv
  <2>1. Alive
    BY DEF Alive, Threads, Control, BetweenSessions, SessionBegins, SessionWaits, SessionMoves
  <2>2. ASSUME NEW k \in Kinds, Outstanding(k)
        PROVE  m_sentinel /\ (k \in SocketOps \ {"connect"} => m_buf # NoBuf)
    <3>1. SessionWaits
      BY <2>2 DEF Outstanding, Range, Idle, Control, BetweenSessions, SessionBegins, SessionMoves
    <3>2. PICK j \in Kinds : Only(j) /\ (j \in SocketOps \ {"connect"} => m_buf # NoBuf)
      BY <3>1 DEF SessionWaits
    <3>3. j = k
      BY <2>2, <3>2 DEF Outstanding, Range, Only, TypeOK, ServiceTypeOK
    <3>4. QED  BY <3>1, <3>2, <3>3 DEF SessionWaits
  <2>3. QED  BY <2>1, <2>2 DEF ResourcesHeld
<1>2. QED  BY <1>1, SerialTyped, SessionAlways, PTL

(***************************************************************************)
(* Until it is stopped, exactly one thing moves a session on, a thread or  *)
(* an operation whose handler expects the state that the session is in;    *)
(* and nothing moves where there is no session.                            *)
(***************************************************************************)
THEOREM OneThingMoves == SerialSpec => [](stops = 0 => OneActivity)
<1>1. TypeOK /\ SessionInv => (stops = 0 => OneActivity)
  <2> SUFFICES ASSUME TypeOK, Control PROVE OneActivity
    BY DEF SessionInv
  <2> USE DEF TypeOK, ServiceTypeOK
  <2> DEFINE busy == {t \in Threads : pc[t] \in Busy}
             underWay == {k \in Kinds : ops[k] > 0}
             Counted == Cardinality(busy) + Cardinality(underWay) + Len(ready) =
                          (IF m_state = eNotConnected /\ busy = {} THEN 0 ELSE 1)
  <2>1. Cardinality({}) = 0 /\ \A e : Cardinality({e}) = 1
    BY FS_EmptySet, FS_Singleton
  <2>2. \A k \in Kinds : ops[k] <= 1
    BY DEF Control, BetweenSessions, SessionBegins, SessionWaits, SessionMoves, Idle, Only
  <2>3. \A k \in underWay \union Range(ready) : m_state = Awaited(k)
    <3>1. CASE Idle
      BY <3>1 DEF Idle, Range
    <3>2. CASE SessionWaits
      BY <3>2 DEF SessionWaits, Only, Range
    <3>3. QED
      BY <3>1, <3>2 DEF Control, BetweenSessions, SessionBegins, SessionMoves
  <2>4. ASSUME Idle PROVE Cardinality(underWay) = 0 /\ Len(ready) = 0
    <3>1. underWay = {} /\ ready = <<>>
      BY <2>4 DEF Idle
    <3>2. QED  BY <2>1, <3>1
  <2>5. ASSUME NEW t, busy = {t}, Idle PROVE Counted
    <3>1. Cardinality(busy) = 1 /\ busy # {}
      BY <2>1, <2>5
    <3>2. Cardinality(underWay) = 0 /\ Len(ready) = 0
      BY <2>4, <2>5
    <3>3. QED  BY <3>1, <3>2
  <2>6. CASE BetweenSessions
    <3>1. busy = {} /\ m_state = eNotConnected /\ Idle
      BY <2>6 DEF BetweenSessions, Busy, Threads
    <3>2. Cardinality(busy) = 0
      BY <2>1, <3>1
    <3>3. Counted
      BY <2>4, <3>1, <3>2
    <3>4. QED  BY <2>2, <2>3, <3>3 DEF OneActivity, Awaited
  <2>7. CASE SessionBegins
    <3>1. busy = {"worker"} /\ Idle
      BY <2>7 DEF SessionBegins, Busy, Threads
    <3>2. Counted
      BY <2>5, <3>1
    <3>3. QED  BY <2>2, <2>3, <3>2 DEF OneActivity, Awaited
  <2>8. CASE SessionMoves
    <3>1. busy = {"io"} /\ Idle
      BY <2>8 DEF SessionMoves, Busy, Threads
    <3>2. Counted
      BY <2>5, <3>1
    <3>3. QED  BY <2>2, <2>3, <3>2 DEF OneActivity, Awaited
  <2>9. CASE SessionWaits
    <3>1. PICK k \in Kinds : Only(k) /\ m_state = Awaited(k)
      BY <2>9 DEF SessionWaits
    <3>2. busy = {} /\ m_state # eNotConnected
      BY <2>9, <3>1 DEF SessionWaits, Awaited, Awaits, Busy, Threads
    <3>3. \/ Cardinality(underWay) = 1 /\ Len(ready) = 0
          \/ Cardinality(underWay) = 0 /\ Len(ready) = 1
      <4>1. CASE ready = <<>>
        <5>1. underWay = {k}
          BY <3>1, <4>1 DEF Only
        <5>2. Cardinality(underWay) = 1
          BY <2>1, <5>1
        <5>3. QED  BY <4>1, <5>2
      <4>2. CASE ready = <<k>>
        <5>1. underWay = {}
          BY <3>1, <4>2 DEF Only
        <5>2. Cardinality(underWay) = 0
          BY <2>1, <5>1
        <5>3. QED  BY <4>2, <5>2
      <4>3. QED  BY <3>1, <4>1, <4>2 DEF Only
    <3>4. Counted
      <4>1. Cardinality(busy) = 0
        BY <2>1, <3>2
      <4>2. Cardinality(busy) + Cardinality(underWay) + Len(ready) = 1
        <5>1. CASE Cardinality(underWay) = 1 /\ Len(ready) = 0
          BY <4>1, <5>1
        <5>2. CASE Cardinality(underWay) = 0 /\ Len(ready) = 1
          BY <4>1, <5>2
        <5>3. QED  BY <3>3, <5>1, <5>2
      <4>3. QED  BY <3>2, <4>2
    <3>5. QED  BY <2>2, <2>3, <3>4 DEF OneActivity, Awaited
  <2>10. QED  BY <2>6, <2>7, <2>8, <2>9 DEF Control
<1>2. QED  BY <1>1, SerialTyped, SessionAlways, PTL

-----------------------------------------------------------------------------
(* The outbox.                                                             *)

(***************************************************************************)
(* A transmitter that is never stopped is an outbox: whatever fails and is *)
(* retried, the client sees its messages leave one by one, each once, in   *)
(* the order in which it posted them.                                      *)
(***************************************************************************)
THEOREM TransmitterIsOutbox == SerialSpec /\ [](stops = 0) => ImplementsOutbox
<1>1. Init => Outbox!Init
  BY DEF Init, m_messageQueue!Init, Outbox!Init, Undelivered, InOrder, HoldsMessage
<1>2. TypeOK /\ SessionInv /\ [SerialNext]_vars /\ (stops = 0)'
        => [Outbox!Next]_<<Undelivered, confirmed>>
  BY SessionStep DEF OutboxStep
<1>3. QED
  BY <1>1, <1>2, SerialTyped, SessionAlways, PTL DEF SerialSpec, ImplementsOutbox, Outbox!Spec

-----------------------------------------------------------------------------
(***************************************************************************)
(* Stopping and restarting.                                                *)
(*                                                                         *)
(* What is neither settled, queued nor in the session is gone; two steps   *)
(* make it so.  A worker that begins while the session that the last       *)
(* stop() cut off holds a message resets the state (WorkerBegins); and so  *)
(* does the handler of a delay that was begun before that stop(), when it  *)
(* runs in a session of the next start() (Assign).  StopInv shows that     *)
(* each stop() pays for one of the two: a delay outlasts its session only  *)
(* if that session had failed, and then it held no message.                *)
(***************************************************************************)
Kept == confirmed \union dropped \union Queued \union InTransit

Gone == (1 .. posted) \ Kept

One(condition) == IF condition THEN 1 ELSE 0

\* The handlers of delays that wait to run.
Pending == {i \in 1 .. Len(ready) : ready[i] = "delay"}

\* A handler is about to reset the state, other than at the end of a session
\* that succeeded.
Interrupts == pc["io"] = "assign" /\ target["io"] = eNotConnected /\ m_state # eSuccess

\* The delays that are going to reset the state.
Delays == ops["delay"] + Cardinality(Pending) + One(Interrupts)

\* The session has failed and its own delay passes: to reset it loses nothing.
BacksOff == m_state = eError /\ pc["io"] # "dispatch"

\* The worker is about to reset the state.
Resets == pc["worker"] = "init" /\ m_state # eNotConnected

\* Each stop() pays for one reset that loses a message.
Budget ==
  /\ Cardinality(Gone) + Delays + One(m_shutdown) + One(Resets) <= stops + One(BacksOff)
  /\ BacksOff /\ ~ m_shutdown /\ pc["worker"] # "init" => Delays >= 1

\* Where the threads stand, whatever sessions are cut off.
Stance ==
  /\ m_running <=> pc["worker"] # "none"
  /\ client = "cancelTimer" => m_shutdown
  /\ pc["worker"] \in {"none", "init", "loop", "waiting", "assign", "dispatch"}
  /\ (pc["worker"] \in {"waiting", "assign"} \/ (pc["worker"] = "none" /\ ~ m_shutdown)) =>
       m_state = eNotConnected
  /\ pc["worker"] = "assign" => target["worker"] = eResolving /\ pc["io"] = "run"
  /\ pc["worker"] = "dispatch" => m_state = eResolving /\ pc["io"] = "run"
  /\ pc["io"] = "assign" => Moves(m_state, target["io"]) \/ target["io"] = eNotConnected
  /\ pc["io"] \in {"run", "assign", "dispatch", "reset", "crashed"}

StopInv == Stance /\ Budget

-----------------------------------------------------------------------------
(* Counting.                                                               *)

\* What is counted is finite.
Counted == /\ IsFiniteSet(Gone) /\ Cardinality(Gone) \in Nat
           /\ IsFiniteSet(Pending) /\ Cardinality(Pending) \in Nat
           /\ ops["delay"] \in Nat /\ Delays \in Nat /\ stops \in Nat

LEMMA CountingTyped == (TypeOK => Counted) /\ (TypeOK' => Counted')
<1>1. TypeOK => Counted
  <2> SUFFICES ASSUME TypeOK PROVE Counted
    OBVIOUS
  <2>1. posted \in Nat /\ stops \in Nat /\ ops["delay"] \in Nat /\ Len(ready) \in Nat
    BY DEF TypeOK, HistoryTypeOK, ServiceTypeOK
  <2>2. IsFiniteSet(1 .. posted) /\ IsFiniteSet(1 .. Len(ready))
    BY <2>1, FS_Interval
  <2>3. Gone \in SUBSET (1 .. posted) /\ Pending \in SUBSET (1 .. Len(ready))
    BY DEF Gone, Pending
  <2>4. IsFiniteSet(Gone) /\ IsFiniteSet(Pending)
    BY <2>2, <2>3, FS_Subset
  <2>5. Cardinality(Gone) \in Nat /\ Cardinality(Pending) \in Nat
    BY <2>4, FS_CardinalityType
  <2>6. Delays \in Nat
    BY <2>1, <2>5 DEF Delays, One
  <2>7. QED  BY <2>1, <2>4, <2>5, <2>6 DEF Counted
<1>2. QED  BY <1>1, PTL

\* What is gone can only grow by what a step adds.
LEMMA GoneBy ==
  ASSUME TypeOK, TypeOK'
  PROVE  /\ Gone' \subseteq Gone => Cardinality(Gone)' <= Cardinality(Gone)
         /\ (\E x : Gone' \subseteq Gone \union {x}) => Cardinality(Gone)' <= Cardinality(Gone) + 1
<1>1. /\ IsFiniteSet(Gone) /\ Cardinality(Gone) \in Nat
      /\ IsFiniteSet(Gone') /\ Cardinality(Gone') \in Nat
  BY CountingTyped DEF Counted
<1>2. ASSUME Gone' \subseteq Gone PROVE Cardinality(Gone') <= Cardinality(Gone)
  BY <1>1, <1>2, FS_Subset
<1>3. ASSUME NEW x, Gone' \subseteq Gone \union {x}
      PROVE  Cardinality(Gone') <= Cardinality(Gone) + 1
  <2>1. /\ IsFiniteSet(Gone \union {x})
        /\ Cardinality(Gone \union {x}) \in Nat
        /\ Cardinality(Gone \union {x}) <= Cardinality(Gone) + 1
    <3>1. IsFiniteSet(Gone \union {x})
      BY <1>1, FS_AddElement
    <3>2. \/ Cardinality(Gone \union {x}) = Cardinality(Gone)
          \/ Cardinality(Gone \union {x}) = Cardinality(Gone) + 1
      BY <1>1, FS_AddElement
    <3>3. QED  BY <1>1, <3>1, <3>2
  <2>2. Cardinality(Gone') <= Cardinality(Gone \union {x})
    BY <1>3, <2>1, FS_Subset
  <2>3. QED  BY <1>1, <2>1, <2>2
<1>4. QED  BY <1>2, <1>3

\* An operation that ends queues its handler, and the first of them runs.
LEMMA PendingAppend ==
  ASSUME TypeOK, NEW k \in Kinds, ready' = Append(ready, k)
  PROVE  Cardinality(Pending)' = Cardinality(Pending) + (IF k = "delay" THEN 1 ELSE 0)
<1>1. /\ ready \in Seq(Kinds) /\ Len(ready) \in Nat
      /\ Len(ready') = Len(ready) + 1 /\ ready'[Len(ready) + 1] = k
      /\ \A i \in 1 .. Len(ready) : ready'[i] = ready[i]
  BY DEF TypeOK, ServiceTypeOK
<1>2. Pending' = IF k = "delay" THEN Pending \union {Len(ready) + 1} ELSE Pending
  BY <1>1 DEF Pending
<1>3. Len(ready) + 1 \notin Pending
  BY <1>1 DEF Pending
<1>4. IsFiniteSet(Pending) /\ Cardinality(Pending) \in Nat
  BY CountingTyped DEF Counted
<1>5. CASE k = "delay"
  <2>1. Cardinality(Pending \union {Len(ready) + 1}) = Cardinality(Pending) + 1
    BY <1>3, <1>4, FS_AddElement
  <2>2. QED  BY <1>2, <1>5, <2>1
<1>6. CASE k # "delay"
  BY <1>2, <1>4, <1>6
<1>7. QED  BY <1>5, <1>6

\* A handler that runs is the first in the queue; the others move up.
LEMMA PendingTail ==
  ASSUME TypeOK, NEW k, ready # <<>>, k = Head(ready), ready' = Tail(ready)
  PROVE  Cardinality(Pending) = Cardinality(Pending)' + (IF k = "delay" THEN 1 ELSE 0)
<1>1. /\ ready \in Seq(Kinds) /\ Len(ready) \in Nat \ {0} /\ ready[1] = k
      /\ Len(ready') = Len(ready) - 1
      /\ \A i \in 1 .. Len(ready') : ready'[i] = ready[i + 1]
  BY DEF TypeOK, ServiceTypeOK
<1> DEFINE later == Pending \ {1}
           f == [i \in later |-> i - 1]
<1>2. f \in Bijection(later, Pending')
  <2>1. ASSUME NEW i \in later PROVE i - 1 \in Pending'
    BY <1>1 DEF Pending
  <2>2. ASSUME NEW j \in Pending' PROVE j + 1 \in later /\ f[j + 1] = j
    BY <1>1 DEF Pending
  <2>3. \A i, j \in later : f[i] = f[j] => i = j
    BY <1>1 DEF Pending
  <2>4. f \in [later -> Pending']
    BY <2>1
  <2>5. \A j \in Pending' : \E i \in later : f[i] = j
    BY <2>2
  <2> HIDE DEF f, later
  <2>6. QED  BY <2>3, <2>4, <2>5 DEF Bijection, Injection, Surjection, IsInjective
<1>3. IsFiniteSet(Pending) /\ Cardinality(Pending) \in Nat
  BY CountingTyped DEF Counted
<1>4. /\ IsFiniteSet(later)
      /\ Cardinality(later) = IF 1 \in Pending THEN Cardinality(Pending) - 1
                                               ELSE Cardinality(Pending)
  BY <1>3, FS_RemoveElement
<1>5. Cardinality(Pending') = Cardinality(later)
  <2> HIDE DEF f, later
  <2>1. QED  BY <1>2, <1>4, FS_Bijection DEF ExistsBijection
<1>6. 1 \in Pending <=> k = "delay"
  BY <1>1 DEF Pending
<1>7. QED  BY <1>3, <1>4, <1>5, <1>6

-----------------------------------------------------------------------------
(* Where the threads stand.                                                *)

\* No client call moves the io thread, or the state.
LEMMA StanceClient ==
  ASSUME TypeOK, Stance, Client
  PROVE  Stance'
<1> USE DEF TypeOK, ThreadTypeOK, Threads
<1>1. CASE start
  <2>1. /\ pc["worker"] = "none" /\ pc'["worker"] = "init" /\ pc'["io"] = pc["io"]
        /\ m_running' /\ client' = "idle"
    BY <1>1 DEF start, Stance
  <2>2. UNCHANGED <<target, m_state>>
    BY <1>1 DEF start, machine
  <2>3. QED  BY <2>1, <2>2 DEF Stance
<1>2. CASE stop
  <2>1. m_shutdown' /\ UNCHANGED <<m_running, pc, target, m_state>>
    BY <1>2 DEF stop, ClientGoes, machine
  <2>2. QED  BY <2>1 DEF Stance
<1>3. CASE dropMessages
  BY <1>3 DEF dropMessages, Stance, flags, machine, threads
<1>4. CASE \/ StopCancelsTimer \/ StopCancelsSocket \/ StopJoins \/ post \/ PostNotifies
  <2>1. client' # "cancelTimer" /\ UNCHANGED <<m_running, m_shutdown, pc, target, m_state>>
    BY <1>4 DEF StopCancelsTimer, StopCancelsSocket, StopJoins, StopCancels, post,
                PostNotifies, ClientGoes, flags, machine
  <2>2. QED  BY <2>1 DEF Stance
<1>5. QED  BY <1>1, <1>2, <1>3, <1>4 DEF Client

\* The worker begins a session only where there is none.
LEMMA StanceWorker ==
  ASSUME TypeOK, Stance, WorkerTurn
  PROVE  Stance'
<1> USE DEF TypeOK, ThreadTypeOK, Threads
<1>0. /\ pc["io"] = "run"
      /\ pc["worker"] \in {"none", "init", "loop", "waiting", "assign", "dispatch"}
  BY DEF WorkerTurn, Stance
<1>1. CASE WorkerBegins
  <2>1. /\ pc'["worker"] = "loop" /\ pc'["io"] = "run" /\ m_state' = eNotConnected
        /\ UNCHANGED <<client, m_running, m_shutdown>> /\ pc["worker"] = "init"
    BY <1>0, <1>1 DEF WorkerBegins, Goto, flags
  <2>2. QED  BY <2>1 DEF Stance
<1>2. CASE MessageFound \/ WorkerWakes
  <2>1. /\ pc'["worker"] = "assign" /\ target'["worker"] = eResolving /\ pc'["io"] = "run"
        /\ UNCHANGED <<client, m_running, m_shutdown, m_state>>
        /\ pc["worker"] \in {"loop", "waiting"} /\ m_state = eNotConnected
    BY <1>0, <1>2 DEF MessageFound, WorkerWakes, BeginSession, Waits, Aim, flags, machine, Stance
  <2>2. QED  BY <2>1 DEF Stance
<1>3. CASE WorkerBlocks
  <2>1. /\ pc'["worker"] = "waiting" /\ pc'["io"] = "run" /\ m_state = eNotConnected
        /\ UNCHANGED <<client, m_running, m_shutdown, m_state>> /\ pc["worker"] = "loop"
    BY <1>0, <1>3 DEF WorkerBlocks, Waits, Goto, flags, machine
  <2>2. QED  BY <2>1 DEF Stance
<1>4. CASE WaitTimesOut
  <2>1. /\ pc'["worker"] = "loop" /\ pc'["io"] = "run"
        /\ UNCHANGED <<client, m_running, m_shutdown, m_state>> /\ pc["worker"] = "waiting"
    BY <1>0, <1>4 DEF WaitTimesOut, Goto, flags, machine
  <2>2. QED  BY <2>1 DEF Stance
<1>5. CASE WorkerExits
  <2>1. /\ pc'["worker"] = "none" /\ pc'["io"] = "run" /\ ~ m_running' /\ m_shutdown'
        /\ UNCHANGED <<client, m_state>>
    BY <1>0, <1>5 DEF WorkerExits, Goto, machine, FlagTypeOK
  <2>2. QED  BY <2>1 DEF Stance
<1>6. CASE Assign("worker")
  <2>1. /\ pc'["worker"] = "dispatch" /\ pc'["io"] = "run" /\ m_state' = eResolving
        /\ UNCHANGED <<client, m_running, m_shutdown>> /\ pc["worker"] = "assign"
    BY <1>0, <1>6 DEF Assign, Goto, flags, Stance
  <2>2. QED  BY <2>1 DEF Stance
<1>7. CASE StateMachine("worker") \/ NullBuffer("worker")
  <2>1. m_state = eResolving /\ pc["worker"] = "dispatch"
    BY <1>0, <1>7 DEF StateMachine, NotConnected, Reset, Resolving, Connecting, Sending,
      ReceivingHeader, ReceivingConfirmation, ConfirmationRefused, ConfirmationParsed,
      Failing, Succeeding, Dispatches, NullBuffer, Stance
  <2>2. Resolving("worker")
    BY <1>7, <2>1 DEF StateMachine, NotConnected, Reset, Connecting, Sending,
      ReceivingHeader, ReceivingConfirmation, ConfirmationRefused, ConfirmationParsed,
      Failing, Succeeding, Dispatches, NullBuffer
  <2>3. /\ pc'["worker"] = "loop" /\ pc'["io"] = "run"
        /\ UNCHANGED <<client, m_running, m_shutdown, m_state>>
    BY <1>0, <2>2 DEF Resolving, Return, Goto, flags, machine
  <2>4. QED  BY <2>1, <2>3 DEF Stance
<1>8. QED  BY <1>1, <1>2, <1>3, <1>4, <1>5, <1>6, <1>7 DEF WorkerTurn, WorkerThread, Worker

\* What the io thread does while the worker is not about to begin a session:
\* it sets out for a state that the session may go to, or resets it; only the
\* assignment writes the state.
LEMMA IoMoves ==
  ASSUME TypeOK, Stance, IoTurn
  PROVE  /\ pc["worker"] \in {"none", "init", "loop", "waiting"}
         /\ pc'["worker"] = pc["worker"]
         /\ pc'["io"] \in {"run", "assign", "dispatch", "reset", "crashed"}
         /\ UNCHANGED <<client, m_running, m_shutdown>>
         /\ pc'["io"] = "assign" => Moves(m_state, target'["io"]) \/ target'["io"] = eNotConnected
         /\ UNCHANGED m_state \/ (Assign("io") /\ m_state' = target["io"] /\ m_prevState' = m_state)
         /\ pc'["io"] = "assign" => ~ Assign("io")
<1> USE DEF TypeOK, ThreadTypeOK, Threads
<1>0. pc["worker"] \in {"none", "init", "loop", "waiting"}
  BY DEF IoTurn, Stance, Busy
<1>1. CASE Assign("io")
  BY <1>0, <1>1 DEF Assign, Goto, flags
<1>2. CASE NullBuffer("io")
  BY <1>0, <1>2 DEF NullBuffer, Goto, flags, machine
<1>3. CASE Handler
  <2>1. CASE StaleCompletion
    BY <1>0, <2>1 DEF StaleCompletion, Completes, Assign, flags, machine, threads
  <2>2. CASE OperationFailed
    <3>1. PICK k \in Kinds \ {"delay"} : Completes(k) /\ Expected(k) /\ Aim("io", eError)
      BY <2>2 DEF OperationFailed
    <3>2. Moves(m_state, eError)
      BY <3>1 DEF Expected, Awaits, Moves
    <3>3. QED  BY <1>0, <2>2, <3>1, <3>2 DEF OperationFailed, Completes, Aim, Assign, flags, machine
  <2>3. CASE Resolved \/ Connected \/ Written
    <3>1. PICK k \in Kinds, s \in State : OperationDone(k, s) /\ Moves(m_state, s)
      BY <2>3 DEF Resolved, Connected, Written, OperationDone, Expected, Awaits, Moves
    <3>2. QED  BY <1>0, <3>1 DEF OperationDone, Completes, Aim, Assign, flags, machine
  <2>4. CASE HeaderReceived
    BY <1>0, <2>4 DEF HeaderReceived, Completes, Expected, Awaits, Moves, Aim, Assign, flags,
                      machine
  <2>5. CASE ConfirmationReceived
    BY <1>0, <2>5 DEF ConfirmationReceived, Completes, Expected, Awaits, Moves, Aim, Assign,
                      flags, machine
  <2>6. CASE DelayExpired
    BY <1>0, <2>6 DEF DelayExpired, Completes, Aim, Assign, flags, machine
  <2>7. QED  BY <1>3, <2>1, <2>2, <2>3, <2>4, <2>5, <2>6 DEF Handler
<1>4. CASE StateMachine("io")
  <2>1. CASE NotConnected("io") \/ Reset("io")
    BY <1>0, <2>1 DEF NotConnected, Reset, Dispatches, Return, Goto, Assign, flags, machine
  <2>2. CASE \/ Resolving("io") \/ Connecting("io") \/ Sending("io") \/ ReceivingHeader("io")
             \/ Failing("io")
    BY <1>0, <2>2 DEF Resolving, Connecting, Sending, ReceivingHeader, Failing, Dispatches,
                      Return, Goto, Assign, flags, machine
  <2>3. CASE ReceivingConfirmation("io")
    BY <1>0, <2>3 DEF ReceivingConfirmation, Dispatches, Return, Goto, Aim, Assign, Moves,
                      flags, machine
  <2>4. CASE ConfirmationRefused("io") \/ ConfirmationParsed("io")
    BY <1>0, <2>4 DEF ConfirmationRefused, ConfirmationParsed, Dispatches, Aim, Assign, Moves,
                      flags, machine
  <2>5. CASE Succeeding("io")
    BY <1>0, <2>5 DEF Succeeding, Dispatches, Aim, Assign, flags, machine
  <2>6. QED  BY <1>4, <2>1, <2>2, <2>3, <2>4, <2>5 DEF StateMachine
<1>5. QED  BY <1>1, <1>2, <1>3, <1>4 DEF IoTurn, IoThread

\* So a session that is not under way does not begin by itself.
LEMMA StanceIo ==
  ASSUME TypeOK, Stance, IoTurn
  PROVE  Stance'
<1>1. m_state = eNotConnected => m_state' = eNotConnected
  <2>1. CASE Assign("io")
    BY <2>1 DEF Assign, Stance, Moves
  <2>2. QED  BY <2>1, IoMoves
<1>2. pc'["io"] = "assign" => Moves(m_state', target'["io"]) \/ target'["io"] = eNotConnected
  BY IoMoves
<1>3. QED  BY <1>1, <1>2, IoMoves DEF Stance

\* Stance is inductive by itself.
LEMMA StanceStep ==
  ASSUME TypeOK, Stance, [SerialNext]_vars
  PROVE  Stance'
<1>1. CASE Completion
  BY <1>1 DEF Completion, Stance, flags, machine, threads
<1>2. CASE UNCHANGED vars
  BY <1>2 DEF vars, Stance, flags, machine, threads
<1>3. QED  BY <1>1, <1>2, StanceClient, StanceWorker, StanceIo DEF SerialNext

-----------------------------------------------------------------------------
(* Where the messages are.                                                 *)

\* What a step leaves in its place, the session's message included, is not
\* gone.
LEMMA KeptFrame ==
  ASSUME UNCHANGED <<jobs, posted, confirmed, dropped, m_sendingMessage>>,
         HoldsMessage => HoldsMessage'
  PROVE  Gone' \subseteq Gone
BY DEF Gone, Kept, Queued, InTransit

\* Whether the session holds its message depends on the state and on where the
\* io thread stands.
LEMMA HeldFrame ==
  ASSUME UNCHANGED <<m_state, m_prevState>>, pc'["io"] = pc["io"],
         pc["io"] = "assign" => target'["io"] = target["io"]
  PROVE  HoldsMessage' <=> HoldsMessage
BY DEF HoldsMessage

\* No call loses a message: it is queued, or left where it is, or dropped.
LEMMA KeptClient ==
  ASSUME TypeOK, Client
  PROVE  Gone' \subseteq Gone
<1> USE DEF TypeOK, ThreadTypeOK, Threads
<1>0. HoldsMessage' <=> HoldsMessage
  <2>1. pc'["io"] = pc["io"] /\ UNCHANGED <<m_state, m_prevState, target>>
    BY DEF Client, start, stop, StopCancelsTimer, StopCancelsSocket, StopJoins, StopCancels,
           post, PostNotifies, dropMessages, ClientGoes, machine, threads
  <2>2. QED  BY <2>1, HeldFrame
<1>1. UNCHANGED m_sendingMessage
  BY DEF Client, start, stop, StopCancelsTimer, StopCancelsSocket, StopJoins, StopCancels,
         post, PostNotifies, dropMessages
<1>2. CASE post
  <2>1. /\ jobs' = Append(jobs, posted + 1) /\ posted' = posted + 1 /\ posted \in Nat
        /\ UNCHANGED <<confirmed, dropped>> /\ jobs \in Seq(Nat)
    BY <1>2 DEF post, m_messageQueue!put, settled, HistoryTypeOK, m_messageQueue!TypeOK
  <2>2. Range(jobs') = Range(jobs) \union {posted + 1}
    <3>1. posted + 1 \in Nat
      BY <2>1
    <3>2. QED  BY <2>1, <3>1, RangeOfOperations
  <2>3. Kept \union {posted + 1} \subseteq Kept'
    BY <1>0, <1>1, <2>1, <2>2 DEF Kept, Queued, InTransit
  <2>4. 1 .. posted' = (1 .. posted) \union {posted + 1}
    BY <2>1
  <2>5. QED  BY <2>3, <2>4 DEF Gone
<1>3. CASE dropMessages
  <2>1. dropped' = dropped \union Queued /\ UNCHANGED <<confirmed, posted>>
    BY <1>3 DEF dropMessages, Queued, calls
  <2>2. Kept \subseteq Kept'
    BY <1>0, <1>1, <2>1 DEF Kept, InTransit
  <2>3. QED  BY <2>1, <2>2 DEF Gone
<1>4. CASE \/ start \/ stop \/ StopCancelsTimer \/ StopCancelsSocket \/ StopJoins \/ PostNotifies
  <2>1. UNCHANGED <<jobs, posted, confirmed, dropped>>
    BY <1>4 DEF start, stop, StopCancelsTimer, StopCancelsSocket, StopJoins, StopCancels,
                PostNotifies, m_messageQueue!notify_one, queue, calls, settled
  <2>2. QED  BY <1>0, <1>1, <2>1, KeptFrame
<1>5. QED  BY <1>2, <1>3, <1>4 DEF Client

\* A reset loses what the session holds, and nothing else.
LEMMA KeptReset ==
  ASSUME UNCHANGED <<jobs, posted, confirmed, dropped, m_sendingMessage>>
  PROVE  Gone' \subseteq Gone \union {m_sendingMessage}
BY DEF Gone, Kept, Queued, InTransit

\* The worker loses a message only where it resets the state.
LEMMA KeptWorker ==
  ASSUME TypeOK, Stance, WorkerTurn, ~ WorkerBegins
  PROVE  Gone' \subseteq Gone
<1> USE DEF TypeOK, ThreadTypeOK, Threads
<1>1. /\ UNCHANGED <<jobs, posted, confirmed, dropped, m_sendingMessage>>
      /\ pc["io"] = "run" /\ pc'["io"] = "run"
      /\ UNCHANGED <<m_state, m_prevState>> \/ m_state = eNotConnected
  <2>1. CASE Worker
    BY <2>1 DEF Worker, MessageFound, WorkerBlocks, WorkerWakes, WaitTimesOut, WorkerExits,
      BeginSession, Goto, Aim, m_messageQueue!HasJobs, m_messageQueue!Block,
      m_messageQueue!LeaveWait, m_messageQueue!queueVars, queue, calls, settled, machine, WorkerTurn
  <2>2. CASE Assign("worker")
    BY <2>2 DEF Assign, Goto, queue, calls, settled, WorkerTurn, Stance
  <2>3. CASE StateMachine("worker") \/ NullBuffer("worker")
    <3>1. m_state = eResolving /\ pc["worker"] = "dispatch"
      BY <2>3 DEF StateMachine, NotConnected, Reset, Resolving, Connecting, Sending,
        ReceivingHeader, ReceivingConfirmation, ConfirmationRefused, ConfirmationParsed,
        Failing, Succeeding, Dispatches, NullBuffer, Stance
    <3>2. Resolving("worker")
      BY <2>3, <3>1 DEF StateMachine, NotConnected, Reset, Connecting, Sending,
        ReceivingHeader, ReceivingConfirmation, ConfirmationRefused, ConfirmationParsed,
        Failing, Succeeding, Dispatches, NullBuffer
    <3>3. QED  BY <3>2 DEF Resolving, Return, Goto, queue, calls, settled, machine, WorkerTurn
  <2>4. QED  BY <2>1, <2>2, <2>3 DEF WorkerTurn, WorkerThread
<1>2. HoldsMessage => HoldsMessage'
  BY <1>1 DEF HoldsMessage
<1>3. QED  BY <1>1, <1>2, KeptFrame

\* The io thread takes a message off the queue, returns it, or has it
\* confirmed: it loses one only by an assignment of eNotConnected.
LEMMA KeptHandler ==
  ASSUME TypeOK, Handler \/ NullBuffer("io")
  PROVE  Gone' \subseteq Gone
<1> USE DEF TypeOK, ThreadTypeOK, Threads
<1>1. UNCHANGED <<jobs, posted, confirmed, dropped, m_sendingMessage, m_state, m_prevState>>
  BY DEF Handler, StaleCompletion, OperationFailed, Resolved, Connected, Written,
         OperationDone, HeaderReceived, ConfirmationReceived, DelayExpired, NullBuffer,
         queue, calls, settled, machine
<1>2. CASE pc["io"] = "run"
  <2>1. CASE Handler
    <3>1. /\ pc'["io"] \in {"run", "assign"}
          /\ m_state = eProcessingConfirmation =>
               ~ (pc'["io"] = "assign" /\ target'["io"] = eSuccess)
      <4>1. CASE StaleCompletion
        BY <1>2, <4>1 DEF StaleCompletion, threads
      <4>2. CASE OperationFailed
        BY <4>2 DEF OperationFailed, Aim
      <4>3. CASE Resolved \/ Connected \/ Written \/ HeaderReceived \/ ConfirmationReceived
        BY <4>3 DEF Resolved, Connected, Written, OperationDone, HeaderReceived,
                    ConfirmationReceived, Expected, Awaits, Aim
      <4>4. CASE DelayExpired
        BY <4>4 DEF DelayExpired, Aim
      <4>5. QED  BY <2>1, <4>1, <4>2, <4>3, <4>4 DEF Handler
    <3>2. HoldsMessage => HoldsMessage'
      BY <1>1, <1>2, <3>1 DEF HoldsMessage
    <3>3. QED  BY <1>1, <3>2, KeptFrame
  <2>2. CASE NullBuffer("io")
    <3>1. pc'["io"] = "crashed" /\ m_state # eSending
      BY <1>2, <2>2 DEF NullBuffer, Goto, Expected, Awaits
    <3>2. HoldsMessage => HoldsMessage'
      BY <1>1, <1>2, <3>1 DEF HoldsMessage
    <3>3. QED  BY <1>1, <3>2, KeptFrame
  <2>3. QED  BY <2>1, <2>2
<1>3. CASE pc["io"] # "run"
  <2>1. /\ pc["io"] = "dispatch" /\ pc'["io"] = "crashed"
        /\ m_state \in {eReceivingConfirmation, eProcessingConfirmation}
    BY <1>3 DEF Handler, StaleCompletion, OperationFailed, Resolved, Connected, Written,
         OperationDone, HeaderReceived, ConfirmationReceived, DelayExpired, NullBuffer,
         Completes, Goto
  <2>2. HoldsMessage => HoldsMessage'
    BY <1>1, <2>1 DEF HoldsMessage
  <2>3. QED  BY <1>1, <2>2, KeptFrame
<1>4. QED  BY <1>2, <1>3

\* get() takes the message into the session, unget() out of it, and a status
\* reported settles it.
LEMMA KeptStateMachine ==
  ASSUME TypeOK, StateMachine("io")
  PROVE  Gone' \subseteq Gone
<1> USE DEF TypeOK, ThreadTypeOK, Threads
<1>0. UNCHANGED <<posted, dropped, m_state, m_prevState>> /\ jobs \in Seq(Nat)
  BY DEF StateMachine, NotConnected, Reset, Resolving, Connecting, Sending,
    ReceivingHeader, ReceivingConfirmation, ConfirmationRefused, ConfirmationParsed,
    Failing, Succeeding, calls, settled, machine, m_messageQueue!TypeOK
<1>1. CASE \/ NotConnected("io") \/ Reset("io") \/ Resolving("io") \/ Connecting("io")
           \/ ReceivingHeader("io") \/ ReceivingConfirmation("io") \/ ConfirmationRefused("io")
           \/ Succeeding("io")
  <2>1. UNCHANGED <<jobs, posted, confirmed, dropped, m_sendingMessage>>
    BY <1>0, <1>1 DEF NotConnected, Reset, Resolving, Connecting, ReceivingHeader,
                ReceivingConfirmation, ConfirmationRefused, Succeeding, queue, settled
  <2>2. HoldsMessage => HoldsMessage'
    <3>1. /\ pc["io"] \in {"dispatch", "reset"} /\ pc'["io"] \in {"run", "assign", "reset"}
          /\ pc'["io"] = "assign" => target'["io"] # eSuccess
          /\ pc["io"] = "dispatch" => m_state \notin {eError, eSending}
      BY <1>1 DEF NotConnected, Reset, Resolving, Connecting, ReceivingHeader, Dispatches,
                  ReceivingConfirmation, ConfirmationRefused, Succeeding, Return, Goto, Aim
    <3>2. QED  BY <1>0, <3>1 DEF HoldsMessage
  <2>3. QED  BY <2>1, <2>2, KeptFrame
<1>2. CASE Sending("io")
  <2>1. /\ m_sendingMessage' = IF jobs = <<>> THEN 0 ELSE Head(jobs)
        /\ jobs' = IF jobs = <<>> THEN <<>> ELSE Tail(jobs)
        /\ UNCHANGED confirmed
        /\ m_state = eSending /\ pc["io"] = "dispatch" /\ pc'["io"] = "run"
    BY <1>2 DEF Sending, m_messageQueue!front, m_messageQueue!get, settled, Return, Goto, Dispatches
  <2>2. ~ HoldsMessage /\ HoldsMessage'
    BY <1>0, <2>1 DEF HoldsMessage
  <2>3. Range(jobs) \subseteq Range(jobs') \union {m_sendingMessage'}
    <3>1. CASE jobs = <<>>
      BY <3>1 DEF Range
    <3>2. CASE jobs # <<>>
      BY <1>0, <2>1, <3>2, RangeOfOperations
    <3>3. QED  BY <3>1, <3>2
  <2>4. Kept \subseteq Kept'
    BY <1>0, <2>1, <2>2, <2>3 DEF Kept, Queued, InTransit
  <2>5. QED  BY <1>0, <2>4 DEF Gone
<1>3. CASE Failing("io")
  <2>1. /\ UNCHANGED <<confirmed, m_sendingMessage>> /\ m_sendingMessage \in Nat
        /\ m_state = eError /\ pc["io"] = "dispatch" /\ pc'["io"] = "run"
        /\ IF m_prevState >= eSending THEN jobs' = <<m_sendingMessage>> \o jobs ELSE UNCHANGED jobs
    BY <1>3 DEF Failing, m_messageQueue!unget, settled, Return, Goto, Dispatches, queue, FieldTypeOK
  <2>2. HoldsMessage <=> m_prevState >= eSending
    BY <2>1 DEF HoldsMessage
  <2>3. Range(jobs') = IF m_prevState >= eSending THEN Range(jobs) \union {m_sendingMessage}
                                                  ELSE Range(jobs)
    BY <1>0, <2>1, RangeOfOperations
  <2>4. Kept \subseteq Kept'
    BY <1>0, <2>1, <2>2, <2>3 DEF Kept, Queued, InTransit
  <2>5. QED  BY <1>0, <2>4 DEF Gone
<1>4. CASE ConfirmationParsed("io")
  <2>1. /\ UNCHANGED <<jobs, m_sendingMessage>>
        /\ m_state = eProcessingConfirmation /\ pc["io"] = "dispatch" /\ pc'["io"] = "assign"
        /\ \/ target'["io"] = eError /\ UNCHANGED confirmed
           \/ confirmed' = confirmed \union ({m_sendingMessage} \ {0})
    BY <1>4 DEF ConfirmationParsed, queue, Dispatches, Aim
  <2>2. Kept \subseteq Kept'
    <3>1. CASE target'["io"] = eError /\ UNCHANGED confirmed
      <4>1. HoldsMessage => HoldsMessage'
        BY <1>0, <2>1, <3>1 DEF HoldsMessage
      <4>2. QED  BY <1>0, <2>1, <3>1, <4>1 DEF Kept, Queued, InTransit
    <3>2. CASE confirmed' = confirmed \union ({m_sendingMessage} \ {0})
      BY <1>0, <2>1, <3>2 DEF Kept, Queued, InTransit
    <3>3. QED  BY <2>1, <3>1, <3>2
  <2>3. QED  BY <1>0, <2>2 DEF Gone
<1>5. QED  BY <1>1, <1>2, <1>3, <1>4 DEF StateMachine

\* An assignment loses the message only if it interrupts a session, which has
\* not failed before.
LEMMA KeptAssign ==
  ASSUME TypeOK, Stance, Assign("io")
  PROVE  /\ UNCHANGED <<jobs, posted, confirmed, dropped, m_sendingMessage>>
         /\ Gone' \subseteq Gone \/ (Interrupts /\ ~ BacksOff)
<1> USE DEF TypeOK, ThreadTypeOK, Threads
<1>1. /\ UNCHANGED <<jobs, posted, confirmed, dropped, m_sendingMessage>>
      /\ pc["io"] = "assign" /\ pc'["io"] = "dispatch"
      /\ m_prevState' = m_state /\ m_state' = target["io"] /\ m_state \in State
  BY DEF Assign, Goto, queue, calls, settled, FieldTypeOK
<1>2. CASE ~ (Interrupts /\ ~ BacksOff)
  <2>1. HoldsMessage => HoldsMessage'
    <3>1. CASE target["io"] = eNotConnected
      <4>1. m_state = eSuccess \/ m_state = eError
        BY <1>1, <1>2, <3>1 DEF Interrupts, BacksOff
      <4>2. QED  BY <1>1, <4>1 DEF HoldsMessage
    <3>2. CASE Moves(m_state, target["io"]) /\ target["io"] # eNotConnected
      BY <1>1, <3>2 DEF HoldsMessage, Moves
    <3>3. QED  BY <1>1, <3>1, <3>2 DEF Stance
  <2>2. QED  BY <1>1, <2>1, KeptFrame
<1>3. QED  BY <1>1, <1>2

-----------------------------------------------------------------------------
(* The delays, and the budget.                                             *)

\* A step that starts, cancels and completes nothing but operations on the
\* resolver and the socket, and does not come near a reset.
LEMMA DelaysFrame ==
  ASSUME TypeOK, TypeOK', ops'["delay"] = ops["delay"],
         ready' = ready \/ \E k : k # "delay" /\ Completes(k),
         Interrupts' <=> Interrupts
  PROVE  Delays' = Delays
<1>1. Cardinality(Pending)' = Cardinality(Pending)
  <2>1. CASE ready' = ready
    BY <2>1 DEF Pending
  <2>2. CASE \E k : k # "delay" /\ Completes(k)
    <3>1. PICK k : k # "delay" /\ Completes(k)
      BY <2>2
    <3>2. Cardinality(Pending) = Cardinality(Pending)' + (IF k = "delay" THEN 1 ELSE 0)
      BY <3>1, PendingTail DEF Completes
    <3>3. QED  BY <3>1, <3>2, CountingTyped DEF Counted
  <2>3. QED  BY <2>1, <2>2
<1>2. QED  BY <1>1 DEF Delays, One

\* Neither does it change what the budget weighs.
LEMMA BudgetFrame ==
  ASSUME TypeOK, TypeOK', Budget, Gone' \subseteq Gone, Delays' = Delays,
         BacksOff' <=> BacksOff, Resets' => Resets, UNCHANGED <<m_shutdown, stops>>,
         pc["worker"] = "init" => pc'["worker"] = "init"
  PROVE  Budget'
<1>1. Cardinality(Gone)' <= Cardinality(Gone)
  BY GoneBy
<1>2. Cardinality(Gone)' \in Nat /\ Cardinality(Gone) \in Nat /\ stops \in Nat /\ Delays \in Nat
  BY CountingTyped DEF Counted
<1>3. QED  BY <1>1, <1>2 DEF Budget, One

\* start() turns the debt of a stop() into that of the worker that begins; a
\* delay is cancelled only while the stop() is under way.
LEMMA BudgetClient ==
  ASSUME TypeOK, TypeOK', Stance, Budget, Client
  PROVE  Budget'
<1> USE DEF ThreadTypeOK, Threads
<1>0. pc \in [Threads -> Labels] /\ m_shutdown \in BOOLEAN /\ m_state \in State
  BY DEF TypeOK, FlagTypeOK, FieldTypeOK
<1>1. /\ Gone' \subseteq Gone /\ Cardinality(Gone)' <= Cardinality(Gone)
      /\ Cardinality(Gone)' \in Nat /\ Cardinality(Gone) \in Nat /\ stops \in Nat
      /\ Delays \in Nat /\ Delays' \in Nat
  BY KeptClient, GoneBy, CountingTyped DEF Counted
<1>2. /\ pc'["io"] = pc["io"] /\ UNCHANGED <<m_state, target>>
      /\ BacksOff' <=> BacksOff
      /\ Interrupts' <=> Interrupts
  <2>1. pc'["io"] = pc["io"] /\ UNCHANGED <<m_state, target>>
    BY <1>0 DEF Client, start, stop, StopCancelsTimer, StopCancelsSocket, StopJoins, StopCancels,
           post, PostNotifies, dropMessages, ClientGoes, machine, threads
  <2>2. QED  BY <2>1 DEF BacksOff, Interrupts
<1>3. CASE start
  <2>1. /\ pc["worker"] = "none" /\ pc'["worker"] = "init" /\ ~ m_shutdown'
        /\ UNCHANGED <<ops, ready, stops>>
    BY <1>0, <1>3 DEF start, Stance, service, calls
  <2>2. Delays' = Delays
    BY <1>2, <2>1, DelaysFrame
  <2>3. Resets' => m_shutdown
    BY <1>2, <2>1 DEF Resets, Stance
  <2>4. QED  BY <1>0, <1>1, <1>2, <2>1, <2>2, <2>3 DEF Budget, One
<1>4. CASE stop
  <2>1. m_shutdown' /\ stops' = stops + 1 /\ UNCHANGED <<ops, ready, pc>>
    BY <1>4 DEF stop, ClientGoes, service
  <2>2. Delays' = Delays
    BY <1>2, <2>1, DelaysFrame
  <2>3. Resets' <=> Resets
    BY <1>2, <2>1 DEF Resets
  <2>4. QED  BY <1>0, <1>1, <1>2, <2>1, <2>2, <2>3 DEF Budget, One
<1>5. CASE StopCancelsTimer
  <2>1. m_shutdown /\ UNCHANGED <<m_shutdown, stops, ready, pc>> /\ ops'["delay"] = 0
    BY <1>5 DEF StopCancelsTimer, StopCancels, ClientGoes, CancelOps, Without, flags, calls, Stance
  <2>2. Delays' <= Delays
    <3>1. Pending' = Pending
      BY <2>1 DEF Pending
    <3>2. ops["delay"] \in Nat /\ Cardinality(Pending) \in Nat
      BY CountingTyped DEF Counted
    <3>3. QED  BY <1>2, <2>1, <3>1, <3>2 DEF Delays, One
  <2>3. Resets' <=> Resets
    BY <1>2, <2>1 DEF Resets
  <2>4. QED  BY <1>0, <1>1, <1>2, <2>1, <2>2, <2>3 DEF Budget, One
<1>6. CASE StopCancelsSocket \/ StopJoins \/ post \/ PostNotifies \/ dropMessages
  <2>1. UNCHANGED <<m_shutdown, stops, ready, pc>>
    BY <1>6 DEF StopCancelsSocket, StopCancels, StopJoins, post, PostNotifies, dropMessages,
                ClientGoes, CancelOps, flags, calls, service, threads
  <2>2. ops'["delay"] = ops["delay"]
    BY <1>6 DEF StopCancelsSocket, StopCancels, StopJoins, post, PostNotifies, dropMessages,
                CancelOps, Without, service
  <2>3. Delays' = Delays
    BY <1>2, <2>1, <2>2, DelaysFrame
  <2>4. Resets' <=> Resets
    BY <1>2, <2>1 DEF Resets
  <2>5. QED  BY <1>1, <1>2, <2>1, <2>3, <2>4, BudgetFrame
<1>7. QED  BY <1>3, <1>4, <1>5, <1>6 DEF Client

\* An operation that ends has its handler queued: a delay still counts.
LEMMA BudgetCompletion ==
  ASSUME TypeOK, TypeOK', Stance, Budget, Completion
  PROVE  Budget'
<1>1. PICK k \in Kinds : /\ ops[k] > 0 /\ ops' = [ops EXCEPT ![k] = @ - 1]
                         /\ ready' = Append(ready, k)
  BY DEF Completion
<1>2. UNCHANGED <<jobs, posted, confirmed, dropped, m_sendingMessage, m_state, m_prevState,
                  m_shutdown, stops, pc, target>>
  BY DEF Completion, queue, calls, settled, machine, flags, threads
<1>3. Gone' \subseteq Gone
  BY <1>2, HeldFrame, KeptFrame
<1>4. /\ BacksOff' <=> BacksOff
      /\ Resets' <=> Resets
      /\ Interrupts' <=> Interrupts
  BY <1>2 DEF BacksOff, Resets, Interrupts
<1>5. Delays' = Delays
  <2>1. Cardinality(Pending)' = Cardinality(Pending) + (IF k = "delay" THEN 1 ELSE 0)
    BY <1>1, PendingAppend
  <2>2. ops'["delay"] = ops["delay"] - (IF k = "delay" THEN 1 ELSE 0)
    BY <1>1 DEF TypeOK, ServiceTypeOK
  <2>3. ops["delay"] \in Nat /\ Cardinality(Pending) \in Nat
    BY CountingTyped DEF Counted
  <2>4. QED  BY <1>4, <2>1, <2>2, <2>3 DEF Delays, One
<1>6. QED  BY <1>2, <1>3, <1>4, <1>5, BudgetFrame

\* A worker that begins loses at most one message, which a stop() has paid for.
LEMMA BudgetBegins ==
  ASSUME TypeOK, TypeOK', Budget, WorkerBegins, pc["io"] = "run"
  PROVE  Budget'
<1> USE DEF ThreadTypeOK, Threads
<1>0. /\ pc \in [Threads -> Labels] /\ m_shutdown \in BOOLEAN
      /\ m_state \in State /\ m_prevState \in State
  BY DEF TypeOK, FlagTypeOK, FieldTypeOK
<1>1. /\ UNCHANGED <<jobs, posted, confirmed, dropped, m_sendingMessage, m_shutdown, stops, ops,
                     ready>>
      /\ m_state' = eNotConnected
      /\ pc["worker"] = "init" /\ pc'["worker"] = "loop" /\ pc'["io"] = "run"
  BY <1>0 DEF WorkerBegins, Goto, queue, calls, settled, flags, service
<1>2. ~ Resets' /\ ~ BacksOff' /\ (Interrupts' <=> Interrupts)
  BY <1>1 DEF Resets, BacksOff, Interrupts
<1>3. Delays' = Delays
  BY <1>1, <1>2, DelaysFrame
<1>4. /\ Cardinality(Gone)' \in Nat /\ Cardinality(Gone) \in Nat /\ stops \in Nat /\ Delays \in Nat
  BY CountingTyped DEF Counted
<1>5. CASE HoldsMessage
  <2>1. Resets /\ ~ BacksOff
    BY <1>1, <1>5 DEF HoldsMessage, Resets, BacksOff
  <2>2. Gone' \subseteq Gone \union {m_sendingMessage}
    BY <1>1, KeptReset
  <2>3. Cardinality(Gone)' <= Cardinality(Gone) + 1
    BY <2>2, GoneBy
  <2>4. QED  BY <1>0, <1>1, <1>2, <1>3, <1>4, <2>1, <2>3 DEF Budget, One
<1>6. CASE ~ HoldsMessage
  <2>1. BacksOff => Resets
    BY <1>1 DEF Resets, BacksOff
  <2>2. Gone' \subseteq Gone
    BY <1>1, <1>6, KeptFrame
  <2>3. Cardinality(Gone)' <= Cardinality(Gone)
    BY <2>2, GoneBy
  <2>4. QED  BY <1>0, <1>1, <1>2, <1>3, <1>4, <2>1, <2>3 DEF Budget, One
<1>7. QED  BY <1>5, <1>6

\* No other step of the worker touches a delay, or a session under way.
LEMMA BudgetWorker ==
  ASSUME TypeOK, TypeOK', Stance, Budget, WorkerTurn
  PROVE  Budget'
<1> USE DEF ThreadTypeOK, Threads
<1>0. pc \in [Threads -> Labels] /\ pc["io"] = "run"
  BY DEF TypeOK, WorkerTurn
<1>1. CASE WorkerBegins
  BY <1>0, <1>1, BudgetBegins
<1>2. CASE ~ WorkerBegins
  <2>1. Gone' \subseteq Gone
    BY <1>2, KeptWorker
  <2>2. /\ UNCHANGED <<m_shutdown, stops, ready>> /\ ops'["delay"] = ops["delay"]
        /\ pc'["io"] = "run" /\ pc["worker"] # "init" /\ pc'["worker"] # "init"
        /\ UNCHANGED m_state \/ (m_state = eNotConnected /\ m_state' = eResolving)
    <3>1. CASE Worker
      BY <1>0, <1>2, <3>1 DEF Worker, MessageFound, WorkerBlocks, WorkerWakes, WaitTimesOut,
        WorkerExits, BeginSession, Waits, Goto, Aim, calls, machine, flags, service
    <3>2. CASE Assign("worker")
      BY <1>0, <3>2 DEF Assign, Goto, calls, flags, service, Stance
    <3>3. CASE StateMachine("worker") \/ NullBuffer("worker")
      <4>1. m_state = eResolving /\ pc["worker"] = "dispatch"
        BY <3>3 DEF StateMachine, NotConnected, Reset, Resolving, Connecting, Sending,
          ReceivingHeader, ReceivingConfirmation, ConfirmationRefused, ConfirmationParsed,
          Failing, Succeeding, Dispatches, NullBuffer, Stance
      <4>2. Resolving("worker")
        BY <3>3, <4>1 DEF StateMachine, NotConnected, Reset, Connecting, Sending,
          ReceivingHeader, ReceivingConfirmation, ConfirmationRefused, ConfirmationParsed,
          Failing, Succeeding, Dispatches, NullBuffer
      <4>3. ops'["delay"] = ops["delay"] /\ ready' = ready
        BY <4>2 DEF Resolving, StartOp, TypeOK, ServiceTypeOK
      <4>4. QED  BY <1>0, <4>1, <4>2, <4>3 DEF Resolving, Return, Goto, calls, machine, flags
    <3>4. QED  BY <3>1, <3>2, <3>3 DEF WorkerTurn, WorkerThread
  <2>3. /\ BacksOff' <=> BacksOff
        /\ Interrupts' <=> Interrupts
        /\ ~ Resets'
    BY <1>0, <2>2 DEF BacksOff, Interrupts, Resets
  <2>4. Delays' = Delays
    BY <2>2, <2>3, DelaysFrame
  <2>5. QED  BY <2>1, <2>2, <2>3, <2>4, BudgetFrame
<1>3. QED  BY <1>1, <1>2

\* An assignment that interrupts a session spends the delay it comes from.
LEMMA BudgetAssign ==
  ASSUME TypeOK, TypeOK', Stance, Budget, Assign("io")
  PROVE  Budget'
<1> USE DEF ThreadTypeOK, Threads
<1>0. pc \in [Threads -> Labels] /\ m_shutdown \in BOOLEAN /\ m_state \in State
  BY DEF TypeOK, FlagTypeOK, FieldTypeOK
<1>1. /\ UNCHANGED <<m_shutdown, stops, ops, ready>> /\ pc'["worker"] = pc["worker"]
      /\ pc["io"] = "assign" /\ pc'["io"] = "dispatch" /\ m_state' = target["io"]
  BY <1>0 DEF Assign, Goto, calls, flags, service
<1>2. ~ BacksOff' /\ ~ Interrupts' /\ (Resets' => Resets)
  <2>1. m_state = eNotConnected => m_state' = eNotConnected
    BY <1>1 DEF Stance, Moves
  <2>2. QED  BY <1>1, <2>1 DEF BacksOff, Interrupts, Resets
<1>3. BacksOff => Interrupts
  BY <1>1 DEF BacksOff, Interrupts, Stance, Moves
<1>4. Delays' = Delays - One(Interrupts) /\ Delays \in Nat
  <2>1. Pending' = Pending
    BY <1>1 DEF Pending
  <2>2. ops["delay"] \in Nat /\ Cardinality(Pending) \in Nat
    BY CountingTyped DEF Counted
  <2>3. QED  BY <1>1, <1>2, <2>1, <2>2 DEF Delays, One
<1>5. Cardinality(Gone)' <= Cardinality(Gone) + (IF Interrupts /\ ~ BacksOff THEN 1 ELSE 0)
  <2>1. UNCHANGED <<jobs, posted, confirmed, dropped, m_sendingMessage>>
    BY KeptAssign
  <2>2. CASE Interrupts /\ ~ BacksOff
    <3>1. Gone' \subseteq Gone \union {m_sendingMessage}
      BY <2>1, KeptReset
    <3>2. QED  BY <2>2, <3>1, GoneBy
  <2>3. CASE ~ (Interrupts /\ ~ BacksOff)
    <3>1. Gone' \subseteq Gone
      BY <2>3, KeptAssign
    <3>2. Cardinality(Gone)' <= Cardinality(Gone) /\ Cardinality(Gone) \in Nat
      BY <3>1, GoneBy, CountingTyped DEF Counted
    <3>3. Cardinality(Gone)' \in Nat
      BY CountingTyped DEF Counted
    <3>4. QED  BY <2>3, <3>2, <3>3
  <2>4. QED  BY <2>2, <2>3
<1>6. /\ Cardinality(Gone)' \in Nat /\ Cardinality(Gone) \in Nat /\ stops \in Nat
  BY CountingTyped DEF Counted
<1>7. QED  BY <1>0, <1>1, <1>2, <1>3, <1>4, <1>5, <1>6 DEF Budget, One

\* The handler of a delay turns a delay that waits into one that interrupts.
LEMMA BudgetDelayExpired ==
  ASSUME TypeOK, TypeOK', Stance, Budget, DelayExpired
  PROVE  Budget'
<1> USE DEF ThreadTypeOK, Threads
<1>0. pc \in [Threads -> Labels] /\ target \in [Threads -> State] /\ m_shutdown \in BOOLEAN
  BY DEF TypeOK, FlagTypeOK
<1>1. /\ UNCHANGED <<jobs, posted, confirmed, dropped, m_sendingMessage, m_shutdown, stops, ops,
                     m_state>>
      /\ pc'["worker"] = pc["worker"] /\ pc["io"] = "run" /\ pc'["io"] = "assign"
      /\ target'["io"] = eNotConnected /\ Completes("delay")
  BY <1>0 DEF DelayExpired, Completes, Aim, queue, calls, settled, flags, machine
<1>2. Gone' \subseteq Gone
  BY KeptHandler DEF Handler
<1>3. /\ BacksOff' <=> BacksOff
      /\ Resets' <=> Resets
      /\ ~ Interrupts
      /\ Interrupts' <=> m_state # eSuccess
  BY <1>1 DEF BacksOff, Resets, Interrupts
<1>4. Delays' <= Delays /\ (m_state # eSuccess => Delays' = Delays)
  <2>1. Cardinality(Pending) = Cardinality(Pending)' + 1
    BY <1>1, PendingTail DEF Completes
  <2>2. ops["delay"] \in Nat /\ Cardinality(Pending)' \in Nat
    BY CountingTyped DEF Counted
  <2>3. QED  BY <1>1, <1>3, <2>1, <2>2 DEF Delays, One
<1>5. BacksOff => Delays' = Delays
  BY <1>4 DEF BacksOff
<1>6. Cardinality(Gone)' <= Cardinality(Gone)
  BY <1>2, GoneBy
<1>7. /\ Cardinality(Gone)' \in Nat /\ Cardinality(Gone) \in Nat /\ stops \in Nat
      /\ Delays \in Nat /\ Delays' \in Nat
  BY CountingTyped DEF Counted
<1>8. QED  BY <1>0, <1>1, <1>3, <1>4, <1>5, <1>6, <1>7 DEF Budget, One

\* A session that fails begins a delay, which replaces the one under way.
LEMMA BudgetFailing ==
  ASSUME TypeOK, TypeOK', Stance, Budget, Failing("io")
  PROVE  Budget'
<1> USE DEF ThreadTypeOK, Threads
<1>0. pc \in [Threads -> Labels] /\ m_shutdown \in BOOLEAN
  BY DEF TypeOK, FlagTypeOK
<1>1. /\ UNCHANGED <<m_shutdown, stops, ready, m_state>>
      /\ pc'["worker"] = pc["worker"] /\ pc["io"] = "dispatch" /\ pc'["io"] = "run"
      /\ m_state = eError
  BY <1>0 DEF Failing, RestartOp, Dispatches, Return, Goto, calls, flags, machine
<1>2. ops'["delay"] = 1
  BY DEF Failing, RestartOp, Without
<1>3. Gone' \subseteq Gone
  BY KeptStateMachine DEF StateMachine
<1>4. BacksOff' /\ ~ BacksOff /\ (Resets' <=> Resets) /\ ~ Interrupts /\ ~ Interrupts'
  BY <1>1 DEF BacksOff, Resets, Interrupts
<1>5. Delays' <= Delays + 1 /\ Delays' >= 1
  <2>1. Pending' = Pending
    BY <1>1 DEF Pending
  <2>2. ops["delay"] \in Nat /\ Cardinality(Pending) \in Nat
    BY CountingTyped DEF Counted
  <2>3. QED  BY <1>2, <1>4, <2>1, <2>2 DEF Delays, One
<1>6. Cardinality(Gone)' <= Cardinality(Gone)
  BY <1>3, GoneBy
<1>7. /\ Cardinality(Gone)' \in Nat /\ Cardinality(Gone) \in Nat /\ stops \in Nat
      /\ Delays \in Nat /\ Delays' \in Nat
  BY CountingTyped DEF Counted
<1>8. QED  BY <1>0, <1>1, <1>4, <1>5, <1>6, <1>7 DEF Budget, One

\* What the other steps of StateMachine() start and cancel is no delay.
LEMMA BudgetStateMachine ==
  ASSUME TypeOK, TypeOK', Stance, Budget, StateMachine("io"), ~ Failing("io")
  PROVE  Budget'
<1> USE DEF ThreadTypeOK, Threads
<1>0. pc \in [Threads -> Labels] /\ target \in [Threads -> State]
  BY DEF TypeOK
<1>1. Gone' \subseteq Gone
  BY KeptStateMachine
<1>2. UNCHANGED <<m_shutdown, stops, ready, m_state>> /\ pc'["worker"] = pc["worker"]
  BY <1>0 DEF StateMachine, NotConnected, Reset, Resolving, Connecting, Sending,
    ReceivingHeader, ReceivingConfirmation, ConfirmationRefused, ConfirmationParsed,
    Succeeding, Return, Goto, Aim, StartOp, RestartOp, CancelOps, calls, flags, machine, service
<1>3. ops'["delay"] = ops["delay"]
  BY DEF StateMachine, NotConnected, Reset, Resolving, Connecting, Sending,
    ReceivingHeader, ReceivingConfirmation, ConfirmationRefused, ConfirmationParsed,
    Succeeding, StartOp, RestartOp, CancelOps, Without, ClosedKinds, service, TypeOK, ServiceTypeOK
<1>4. /\ pc["io"] = "reset" \/ (pc["io"] = "dispatch" /\ m_state # eError)
      /\ \/ pc'["io"] \in {"run", "reset"}
         \/ pc'["io"] = "assign" /\ (target'["io"] # eNotConnected \/ m_state = eSuccess)
  BY <1>0 DEF StateMachine, NotConnected, Reset, Resolving, Connecting, Sending,
    ReceivingHeader, ReceivingConfirmation, ConfirmationRefused, ConfirmationParsed,
    Succeeding, Return, Goto, Aim, Dispatches
<1>5. /\ BacksOff' <=> BacksOff
      /\ Resets' <=> Resets
      /\ ~ Interrupts /\ ~ Interrupts'
  BY <1>2, <1>4 DEF BacksOff, Resets, Interrupts
<1>6. Delays' = Delays
  BY <1>2, <1>3, <1>5, DelaysFrame
<1>7. QED  BY <1>1, <1>2, <1>5, <1>6, BudgetFrame

\* A handler other than that of the delay interrupts nothing.
LEMMA BudgetHandler ==
  ASSUME TypeOK, TypeOK', Stance, Budget, Handler \/ NullBuffer("io"), ~ DelayExpired
  PROVE  Budget'
<1> USE DEF ThreadTypeOK, Threads
<1>0. pc \in [Threads -> Labels] /\ target \in [Threads -> State]
  BY DEF TypeOK
<1>1. Gone' \subseteq Gone
  BY KeptHandler
<1>2. UNCHANGED <<m_shutdown, stops, m_state, ops>> /\ pc'["worker"] = pc["worker"]
  BY <1>0 DEF Handler, StaleCompletion, OperationFailed, Resolved, Connected, Written,
    OperationDone, HeaderReceived, ConfirmationReceived, NullBuffer, Completes, Goto, Aim,
    calls, flags, machine, threads, service
<1>3. ready' = ready \/ \E k : k # "delay" /\ Completes(k)
  BY DEF Handler, StaleCompletion, OperationFailed, Resolved, Connected, Written,
    OperationDone, HeaderReceived, ConfirmationReceived, NullBuffer, service
<1>4. /\ pc["io"] = "run" \/ (pc["io"] = "dispatch" /\ m_state # eError)
      /\ \/ pc'["io"] \in {"run", "crashed"}
         \/ pc'["io"] = "assign" /\ target'["io"] # eNotConnected
      /\ pc'["io"] # "dispatch"
  BY <1>0 DEF Handler, StaleCompletion, OperationFailed, Resolved, Connected, Written,
    OperationDone, HeaderReceived, ConfirmationReceived, NullBuffer, Completes, Goto, Aim, threads
<1>5. /\ BacksOff' <=> BacksOff
      /\ Resets' <=> Resets
      /\ ~ Interrupts /\ ~ Interrupts'
  BY <1>2, <1>4 DEF BacksOff, Resets, Interrupts
<1>6. Delays' = Delays
  BY <1>2, <1>3, <1>5, DelaysFrame
<1>7. QED  BY <1>1, <1>2, <1>5, <1>6, BudgetFrame

\* Budget is inductive relative to Stance.
LEMMA BudgetStep ==
  ASSUME TypeOK, TypeOK', Stance, Budget, [SerialNext]_vars
  PROVE  Budget'
<1>1. CASE IoTurn
  BY <1>1, BudgetAssign, BudgetDelayExpired, BudgetFailing, BudgetStateMachine, BudgetHandler
     DEF IoTurn, IoThread
<1>2. CASE UNCHANGED vars
  <2>1. UNCHANGED <<jobs, posted, confirmed, dropped, m_sendingMessage, m_state, m_prevState,
                    m_shutdown, stops, pc, target, ops, ready>>
    BY <1>2 DEF vars, queue, calls, settled, machine, flags, threads, service
  <2>2. Gone' \subseteq Gone
    BY <2>1, HeldFrame, KeptFrame
  <2>3. /\ BacksOff' <=> BacksOff
        /\ Resets' <=> Resets
        /\ Interrupts' <=> Interrupts
    BY <2>1 DEF BacksOff, Resets, Interrupts
  <2>4. Delays' = Delays
    BY <2>1, <2>3, DelaysFrame
  <2>5. QED  BY <2>1, <2>2, <2>3, <2>4, BudgetFrame
<1>3. QED  BY <1>1, <1>2, BudgetClient, BudgetWorker, BudgetCompletion DEF SerialNext

-----------------------------------------------------------------------------
\* Before the first start() nothing is owed.
LEMMA StopInit == Init => StopInv
<1> SUFFICES ASSUME Init PROVE StopInv
  OBVIOUS
<1>1. Stance
  BY DEF Init, Stance, Moves
<1>2. Gone = {} /\ Pending = {}
  BY DEF Init, Gone, Pending
<1>3. Cardinality(Gone) = 0 /\ Cardinality(Pending) = 0
  BY <1>2, FS_EmptySet
<1>4. Delays = 0 /\ ~ m_shutdown /\ ~ Resets /\ ~ BacksOff /\ stops = 0
  BY <1>3 DEF Init, Delays, One, Interrupts, Resets, BacksOff
<1>5. QED  BY <1>1, <1>3, <1>4 DEF StopInv, Budget, One

\* Where the budget is kept, no more messages are lost than stop() was called:
\* the one delay without which it would allow one more is that of a session
\* that has failed, and it is there unless a stop() cancelled it.
LEMMA LossWithinBudget ==
  ASSUME TypeOK, StopInv
  PROVE  LossPerStop
<1>1. /\ IsFiniteSet(Gone) /\ Cardinality(Gone) \in Nat /\ stops \in Nat /\ Delays \in Nat
  BY CountingTyped DEF Counted
<1>2. Lost \subseteq Gone
  BY DEF Lost, Gone, Kept, InTransit
<1>3. Cardinality(Lost) <= Cardinality(Gone) /\ Cardinality(Lost) \in Nat
  BY <1>1, <1>2, FS_Subset, FS_CardinalityType
<1>4. BacksOff => m_shutdown \/ Resets \/ Delays >= 1
  BY DEF StopInv, Budget, BacksOff, Resets
<1>5. Cardinality(Gone) <= stops
  BY <1>1, <1>4 DEF StopInv, Budget, One
<1>6. QED  BY <1>1, <1>3, <1>5 DEF LossPerStop

(***************************************************************************)
(* A message is lost only to a stop(), and each stop() costs at most one:  *)
(* however often the transmitter is stopped and started again, in whatever *)
(* state of a session, and whatever handlers of the old session still run  *)
(* in the new one, there are never more messages that are in no field of   *)
(* the transmitter than there were calls of stop().                        *)
(***************************************************************************)
THEOREM LossesPerStop == SerialSpec => []LossPerStop
<1>1. Init => StopInv
  BY StopInit
<1>2. TypeOK /\ TypeOK' /\ StopInv /\ [SerialNext]_vars => StopInv'
  BY StanceStep, BudgetStep DEF StopInv
<1>3. TypeOK /\ StopInv => LossPerStop
  BY LossWithinBudget
<1>4. QED  BY <1>1, <1>2, <1>3, SerialTyped, PTL DEF SerialSpec

=============================================================================

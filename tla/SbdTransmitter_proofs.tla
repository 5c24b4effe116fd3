------------------------ MODULE SbdTransmitter_proofs ------------------------
(***************************************************************************)
(* What holds of SbdTransmitter for every value of its constants.          *)
(***************************************************************************)
EXTENDS SbdTransmitter, TLAPS

\* The constants of the module that every typing argument looks through.
USE ConstantsAssumption DEF EmptyMessage, NoBuf, MaxReceived, State, Kinds, SocketOps,
  eNotConnected, eResolving, eConnecting, eSending, eReceivingHeader,
  eReceivingConfirmation, eProcessingConfirmation, eError, eSuccess

-----------------------------------------------------------------------------
(* The queue.                                                              *)

\* What JobUnitQueue::get(), put() and unget() do to a list of messages stays
\* a list of messages, an empty list included.
LEMMA QueueTyping ==
  ASSUME jobs \in Seq(Nat)
  PROVE  /\ m_messageQueue!front \in Nat
         /\ m_messageQueue!get => jobs' \in Seq(Nat)
         /\ \A m \in Nat : m_messageQueue!put(m) => jobs' \in Seq(Nat)
         /\ \A m \in Nat : m_messageQueue!unget(m) => jobs' \in Seq(Nat)
<1>1. m_messageQueue!front \in Nat
  BY DEF m_messageQueue!front
<1>2. m_messageQueue!get => jobs' \in Seq(Nat)
  BY DEF m_messageQueue!get
<1>3. \A m \in Nat : m_messageQueue!put(m) => jobs' \in Seq(Nat)
  BY DEF m_messageQueue!put
<1>4. \A m \in Nat : m_messageQueue!unget(m) => jobs' \in Seq(Nat)
  BY DEF m_messageQueue!unget
<1>5. QED  BY <1>1, <1>2, <1>3, <1>4

-----------------------------------------------------------------------------
(* Type correctness.                                                       *)

LEMMA InitTyped == Init => TypeOK
<1> SUFFICES ASSUME Init PROVE TypeOK
  OBVIOUS
<1>1. m_messageQueue!TypeOK(Nat)
  BY DEF Init, m_messageQueue!Init, m_messageQueue!TypeOK
<1>2. FlagTypeOK /\ FieldTypeOK
  <2>1. FlagTypeOK
    BY DEF Init, FlagTypeOK
  <2>2. FieldTypeOK
    BY DEF Init, FieldTypeOK
  <2>3. QED  BY <2>1, <2>2
<1>3. ThreadTypeOK
  BY DEF Init, ThreadTypeOK, Threads, Labels
<1>4. ServiceTypeOK
  BY DEF Init, ServiceTypeOK
<1>5. HistoryTypeOK
  BY DEF Init, HistoryTypeOK
<1>6. QED  BY <1>1, <1>2, <1>3, <1>4, <1>5 DEF TypeOK

\* A thread that moves to a label of the code, or sets out to write a state,
\* leaves the thread variables well typed.
LEMMA ThreadTyping ==
  ASSUME ThreadTypeOK, NEW t \in Threads
  PROVE  /\ \A l \in Labels : Goto(t, l) => ThreadTypeOK'
         /\ \A s \in State : Aim(t, s) => ThreadTypeOK'
         /\ Return(t) => ThreadTypeOK'
<1>1. "assign" \in Labels /\ "loop" \in Labels /\ "run" \in Labels /\ eNotConnected \in State
  BY DEF Labels, Busy
<1>2. \A l \in Labels : Goto(t, l) => ThreadTypeOK'
  BY <1>1 DEF Goto, ThreadTypeOK
<1>3. \A s \in State : Aim(t, s) => ThreadTypeOK'
  BY <1>1 DEF Aim, ThreadTypeOK
<1>4. QED  BY <1>1, <1>2, <1>3 DEF Return

\* Starting, cancelling, restarting and handling operations keep the counts of
\* operations and the queue of handlers well typed.
LEMMA ServiceTyping ==
  ASSUME ServiceTypeOK
  PROVE  /\ \A k \in Kinds : StartOp(k) => ServiceTypeOK'
         /\ \A K \in SUBSET Kinds : CancelOps(K) => ServiceTypeOK'
         /\ \A k \in Kinds : \A K \in SUBSET Kinds : RestartOp(k, K) => ServiceTypeOK'
         /\ \A k : Completes(k) => ServiceTypeOK' /\ k \in Kinds
         /\ UNCHANGED service => ServiceTypeOK'
<1>1. \A k \in Kinds : StartOp(k) => ServiceTypeOK'
  BY DEF StartOp, ServiceTypeOK
<1>2. \A K \in SUBSET Kinds : CancelOps(K) => ServiceTypeOK'
  BY DEF CancelOps, Without, ServiceTypeOK
<1>3. \A k \in Kinds : \A K \in SUBSET Kinds : RestartOp(k, K) => ServiceTypeOK'
  BY DEF RestartOp, Without, ServiceTypeOK
<1>4. \A k : Completes(k) => ServiceTypeOK' /\ k \in Kinds
  BY DEF Completes, ServiceTypeOK
<1>5. QED  BY <1>1, <1>2, <1>3, <1>4 DEF service, ServiceTypeOK

\* What a step leaves alone stays well typed.
LEMMA FrameTyping ==
  ASSUME TypeOK
  PROVE  /\ UNCHANGED queue => m_messageQueue!TypeOK(Nat)'
         /\ UNCHANGED <<flags, m_sentinel>> => FlagTypeOK'
         /\ UNCHANGED <<m_errDelay, machine, m_sendingMessage, receive>> => FieldTypeOK'
         /\ UNCHANGED threads => ThreadTypeOK'
         /\ UNCHANGED service => ServiceTypeOK'
         /\ UNCHANGED <<calls, settled>> => HistoryTypeOK'
<1>1. UNCHANGED queue => m_messageQueue!TypeOK(Nat)'
  BY DEF TypeOK, queue, m_messageQueue!TypeOK
<1>2. UNCHANGED <<flags, m_sentinel>> => FlagTypeOK'
  BY DEF TypeOK, FlagTypeOK, flags
<1>3. UNCHANGED <<m_errDelay, machine, m_sendingMessage, receive>> => FieldTypeOK'
  BY DEF TypeOK, FieldTypeOK, machine, receive
<1>4. UNCHANGED threads => ThreadTypeOK'
  BY DEF TypeOK, ThreadTypeOK, threads
<1>5. UNCHANGED service => ServiceTypeOK'
  BY DEF TypeOK, ServiceTypeOK, service
<1>6. UNCHANGED <<calls, settled>> => HistoryTypeOK'
  BY DEF TypeOK, HistoryTypeOK, calls, settled
<1>7. QED  BY <1>1, <1>2, <1>3, <1>4, <1>5, <1>6

\* A step of StateMachine(), by whichever thread executes it.
LEMMA StateMachineTyped ==
  ASSUME TypeOK, NEW t \in Threads, StateMachine(t)
  PROVE  TypeOK'
<1> USE DEF TypeOK
<1>0. "reset" \in Labels
  BY DEF Labels, Busy
<1>1. CASE NotConnected(t)
  <2>1. ThreadTypeOK'
    BY <1>1, <1>0, ThreadTyping DEF NotConnected
  <2>2. QED  BY <1>1, <2>1, FrameTyping DEF NotConnected
<1>2. CASE Reset(t)
  <2>1. ThreadTypeOK'
    BY <1>2, ThreadTyping DEF Reset
  <2>2. FlagTypeOK'
    BY <1>2 DEF Reset, FlagTypeOK, flags
  <2>3. FieldTypeOK'
    BY <1>2 DEF Reset, FieldTypeOK, machine
  <2>4. QED  BY <1>2, <2>1, <2>2, <2>3, FrameTyping DEF Reset
<1>3. CASE Resolving(t)
  <2>1. ThreadTypeOK'
    BY <1>3, ThreadTyping DEF Resolving
  <2>2. FlagTypeOK'
    BY <1>3 DEF Resolving, FlagTypeOK, flags
  <2>3. ServiceTypeOK'
    BY <1>3, ServiceTyping DEF Resolving
  <2>4. QED  BY <1>3, <2>1, <2>2, <2>3, FrameTyping DEF Resolving
<1>4. CASE Connecting(t)
  <2>1. ThreadTypeOK'
    BY <1>4, ThreadTyping DEF Connecting
  <2>2. ServiceTypeOK'
    BY <1>4, ServiceTyping DEF Connecting
  <2>3. QED  BY <1>4, <2>1, <2>2, FrameTyping DEF Connecting
<1>5. CASE Sending(t)
  <2>1. ThreadTypeOK'
    BY <1>5, ThreadTyping DEF Sending
  <2>2. m_messageQueue!TypeOK(Nat)'
    BY <1>5, QueueTyping DEF Sending, m_messageQueue!get, m_messageQueue!TypeOK
  <2>3. FieldTypeOK'
    BY <1>5, QueueTyping DEF Sending, FieldTypeOK, machine, m_messageQueue!TypeOK
  <2>4. ServiceTypeOK'
    BY <1>5, ServiceTyping DEF Sending
  <2>5. QED  BY <1>5, <2>1, <2>2, <2>3, <2>4, FrameTyping DEF Sending
<1>6. CASE ReceivingHeader(t)
  <2>1. ThreadTypeOK'
    BY <1>6, ThreadTyping DEF ReceivingHeader
  <2>2. FieldTypeOK'
    BY <1>6 DEF ReceivingHeader, FieldTypeOK, machine
  <2>3. ServiceTypeOK'
    BY <1>6, ServiceTyping DEF ReceivingHeader
  <2>4. QED  BY <1>6, <2>1, <2>2, <2>3, FrameTyping DEF ReceivingHeader
<1>7. CASE ReceivingConfirmation(t)
  <2>1. ThreadTypeOK'
    BY <1>7, ThreadTyping DEF ReceivingConfirmation
  <2>2. ServiceTypeOK'
    BY <1>7, ServiceTyping DEF ReceivingConfirmation
  <2>3. QED  BY <1>7, <2>1, <2>2, FrameTyping DEF ReceivingConfirmation
<1>8. CASE ConfirmationRefused(t)
  <2>1. ThreadTypeOK'
    BY <1>8, ThreadTyping DEF ConfirmationRefused
  <2>2. QED  BY <1>8, <2>1, FrameTyping DEF ConfirmationRefused
<1>9. CASE ConfirmationParsed(t)
  <2>1. ThreadTypeOK'
    BY <1>9, ThreadTyping DEF ConfirmationParsed
  <2>2. FieldTypeOK'
    BY <1>9 DEF ConfirmationParsed, FieldTypeOK, machine
  <2>3. HistoryTypeOK'
    BY <1>9 DEF ConfirmationParsed, FieldTypeOK, HistoryTypeOK, calls
  <2>4. QED  BY <1>9, <2>1, <2>2, <2>3, FrameTyping DEF ConfirmationParsed
<1>10. CASE Failing(t)
  <2>1. ThreadTypeOK'
    BY <1>10, ThreadTyping DEF Failing
  <2>2. m_messageQueue!TypeOK(Nat)'
    BY <1>10, QueueTyping, FrameTyping DEF Failing, FieldTypeOK, m_messageQueue!unget, m_messageQueue!TypeOK
  <2>3. ServiceTypeOK'
    BY <1>10, ServiceTyping DEF Failing, ClosedKinds
  <2>4. QED  BY <1>10, <2>1, <2>2, <2>3, FrameTyping DEF Failing
<1>11. CASE Succeeding(t)
  <2>1. ThreadTypeOK'
    BY <1>11, ThreadTyping DEF Succeeding
  <2>2. ServiceTypeOK'
    BY <1>11, ServiceTyping DEF Succeeding, ClosedKinds
  <2>3. QED  BY <1>11, <2>1, <2>2, FrameTyping DEF Succeeding
<1>12. QED  BY <1>1, <1>2, <1>3, <1>4, <1>5, <1>6, <1>7, <1>8, <1>9, <1>10, <1>11 DEF StateMachine

\* The other steps that both threads take: the assignment before StateMachine(),
\* and the end of the process.
LEMMA SharedStepTyped ==
  ASSUME TypeOK, NEW t \in Threads, Assign(t) \/ NullBuffer(t)
  PROVE  TypeOK'
<1> USE DEF TypeOK
<1>0. "dispatch" \in Labels /\ "crashed" \in Labels
  BY DEF Labels, Busy
<1>1. CASE Assign(t)
  <2>1. ThreadTypeOK'
    BY <1>1, <1>0, ThreadTyping DEF Assign
  <2>2. FieldTypeOK'
    BY <1>1 DEF Assign, FieldTypeOK, ThreadTypeOK, receive
  <2>3. QED  BY <1>1, <2>1, <2>2, FrameTyping DEF Assign
<1>2. CASE NullBuffer(t)
  <2>1. ThreadTypeOK'
    BY <1>2, <1>0, ThreadTyping DEF NullBuffer
  <2>2. ServiceTypeOK'
    BY <1>2, ServiceTyping DEF NullBuffer
  <2>3. QED  BY <1>2, <2>1, <2>2, FrameTyping DEF NullBuffer
<1>3. QED  BY <1>1, <1>2

\* A completion handler.
LEMMA HandlerTyped ==
  ASSUME TypeOK, Handler
  PROVE  TypeOK'
<1> USE DEF TypeOK
<1>0. "io" \in Threads
  BY DEF Threads
<1>1. \A k : AfterCompletion(k) \in 0 .. MaxReceived \union {NoBuf}
  BY DEF AfterCompletion, FieldTypeOK
<1>2. CASE StaleCompletion
  <2>1. PICK k \in Kinds \ {"delay"} : Completes(k) /\ m_buf' = AfterCompletion(k)
    BY <1>2 DEF StaleCompletion
  <2>2. ServiceTypeOK'
    BY <2>1, ServiceTyping
  <2>3. FieldTypeOK'
    BY <1>2, <2>1, <1>1 DEF StaleCompletion, FieldTypeOK, machine
  <2>4. QED  BY <1>2, <2>2, <2>3, FrameTyping DEF StaleCompletion
<1>3. CASE OperationFailed
  <2>1. PICK k \in Kinds \ {"delay"} : Completes(k) /\ m_buf' = AfterCompletion(k)
    BY <1>3 DEF OperationFailed
  <2>2. ServiceTypeOK'
    BY <2>1, ServiceTyping
  <2>3. FieldTypeOK'
    BY <1>3, <2>1, <1>1 DEF OperationFailed, FieldTypeOK, machine
  <2>4. ThreadTypeOK'
    BY <1>3, <1>0, ThreadTyping DEF OperationFailed
  <2>5. QED  BY <1>3, <2>2, <2>3, <2>4, FrameTyping DEF OperationFailed
<1>4. CASE Resolved \/ Connected \/ Written
  <2>1. PICK k \in Kinds, s \in State : OperationDone(k, s)
    BY <1>4 DEF Resolved, Connected, Written
  <2>2. ServiceTypeOK'
    BY <2>1, ServiceTyping DEF OperationDone
  <2>3. FieldTypeOK'
    BY <2>1, <1>1 DEF OperationDone, FieldTypeOK, machine
  <2>4. ThreadTypeOK'
    BY <2>1, <1>0, ThreadTyping DEF OperationDone
  <2>5. QED  BY <2>1, <2>2, <2>3, <2>4, FrameTyping DEF OperationDone
<1>5. CASE HeaderReceived
  <2>1. ServiceTypeOK'
    BY <1>5, ServiceTyping DEF HeaderReceived
  <2>2. FieldTypeOK'
    BY <1>5 DEF HeaderReceived, FieldTypeOK, machine
  <2>3. ThreadTypeOK'
    BY <1>5, <1>0, ThreadTyping DEF HeaderReceived
  <2>4. QED  BY <1>5, <2>1, <2>2, <2>3, FrameTyping DEF HeaderReceived
<1>6. CASE ConfirmationReceived
  <2>1. ServiceTypeOK'
    BY <1>6, ServiceTyping DEF ConfirmationReceived
  <2>2. FieldTypeOK'
    BY <1>6 DEF ConfirmationReceived, FieldTypeOK, machine
  <2>3. ThreadTypeOK'
    BY <1>6, <1>0, ThreadTyping DEF ConfirmationReceived
  <2>4. QED  BY <1>6, <2>1, <2>2, <2>3, FrameTyping DEF ConfirmationReceived
<1>7. CASE DelayExpired
  <2>1. ServiceTypeOK'
    BY <1>7, ServiceTyping DEF DelayExpired
  <2>2. FieldTypeOK'
    BY <1>7 DEF DelayExpired, FieldTypeOK, machine, receive
  <2>3. ThreadTypeOK'
    BY <1>7, <1>0, ThreadTyping DEF DelayExpired
  <2>4. QED  BY <1>7, <2>1, <2>2, <2>3, FrameTyping DEF DelayExpired
<1>8. QED  BY <1>2, <1>3, <1>4, <1>5, <1>6, <1>7 DEF Handler

\* A session begins with the worker alone moving.
LEMMA WorkerTyped ==
  ASSUME TypeOK, Worker
  PROVE  TypeOK'
<1> USE DEF TypeOK
<1>0. "worker" \in Threads /\ "loop" \in Labels /\ "waiting" \in Labels /\ "none" \in Labels
  BY DEF Threads, Labels
<1>1. CASE WorkerBegins
  <2>1. ThreadTypeOK'
    BY <1>1, <1>0, ThreadTyping DEF WorkerBegins
  <2>2. FieldTypeOK'
    BY <1>1 DEF WorkerBegins, FieldTypeOK, receive
  <2>3. QED  BY <1>1, <2>1, <2>2, FrameTyping DEF WorkerBegins
<1>2. CASE MessageFound
  <2>1. ThreadTypeOK'
    BY <1>2, <1>0, ThreadTyping DEF MessageFound, BeginSession
  <2>2. m_messageQueue!TypeOK(Nat)'
    BY <1>2, FrameTyping DEF MessageFound, m_messageQueue!HasJobs, m_messageQueue!queueVars, queue
  <2>3. QED  BY <1>2, <2>1, <2>2, FrameTyping DEF MessageFound
<1>3. CASE WorkerBlocks
  <2>1. ThreadTypeOK'
    BY <1>3, <1>0, ThreadTyping DEF WorkerBlocks
  <2>2. m_messageQueue!TypeOK(Nat)'
    BY <1>3 DEF WorkerBlocks, m_messageQueue!Block, m_messageQueue!TypeOK
  <2>3. QED  BY <1>3, <2>1, <2>2, FrameTyping DEF WorkerBlocks
<1>4. CASE WorkerWakes
  <2>1. ThreadTypeOK'
    BY <1>4, <1>0, ThreadTyping DEF WorkerWakes, BeginSession
  <2>2. m_messageQueue!TypeOK(Nat)'
    BY <1>4 DEF WorkerWakes, m_messageQueue!LeaveWait, m_messageQueue!TypeOK
  <2>3. QED  BY <1>4, <2>1, <2>2, FrameTyping DEF WorkerWakes
<1>5. CASE WaitTimesOut
  <2>1. ThreadTypeOK'
    BY <1>5, <1>0, ThreadTyping DEF WaitTimesOut
  <2>2. m_messageQueue!TypeOK(Nat)'
    BY <1>5 DEF WaitTimesOut, m_messageQueue!LeaveWait, m_messageQueue!TypeOK
  <2>3. QED  BY <1>5, <2>1, <2>2, FrameTyping DEF WaitTimesOut
<1>6. CASE WorkerExits
  <2>1. ThreadTypeOK'
    BY <1>6, <1>0, ThreadTyping DEF WorkerExits
  <2>2. FlagTypeOK'
    BY <1>6 DEF WorkerExits, FlagTypeOK
  <2>3. QED  BY <1>6, <2>1, <2>2, FrameTyping DEF WorkerExits
<1>7. QED  BY <1>1, <1>2, <1>3, <1>4, <1>5, <1>6 DEF Worker

\* A call of the client.
LEMMA ClientTyped ==
  ASSUME TypeOK, Client
  PROVE  TypeOK'
<1> USE DEF TypeOK
<1>1. CASE start
  <2>1. ThreadTypeOK'
    BY <1>1 DEF start, ThreadTypeOK, Labels, Threads
  <2>2. FlagTypeOK'
    BY <1>1 DEF start, FlagTypeOK
  <2>3. QED  BY <1>1, <2>1, <2>2, FrameTyping DEF start
<1>2. CASE stop
  <2>1. ThreadTypeOK'
    BY <1>2 DEF stop, ClientGoes, ThreadTypeOK
  <2>2. FlagTypeOK'
    BY <1>2 DEF stop, FlagTypeOK
  <2>3. HistoryTypeOK'
    BY <1>2 DEF stop, HistoryTypeOK, settled
  <2>4. QED  BY <1>2, <2>1, <2>2, <2>3, FrameTyping DEF stop
<1>3. CASE StopCancelsTimer
  <2>1. ThreadTypeOK'
    BY <1>3 DEF StopCancelsTimer, StopCancels, ClientGoes, ThreadTypeOK
  <2>2. ServiceTypeOK'
    BY <1>3, ServiceTyping DEF StopCancelsTimer, StopCancels
  <2>3. QED  BY <1>3, <2>1, <2>2, FrameTyping DEF StopCancelsTimer, StopCancels
<1>4. CASE StopCancelsSocket
  <2>1. PICK kinds \in SUBSET Kinds : StopCancels("cancelSocket", kinds, "join")
    BY <1>4 DEF StopCancelsSocket
  <2>2. ThreadTypeOK'
    BY <2>1 DEF StopCancels, ClientGoes, ThreadTypeOK
  <2>3. ServiceTypeOK'
    BY <2>1, ServiceTyping DEF StopCancels
  <2>4. QED  BY <2>1, <2>2, <2>3, FrameTyping DEF StopCancels
<1>5. CASE StopJoins
  <2>1. ThreadTypeOK'
    BY <1>5 DEF StopJoins, ClientGoes, ThreadTypeOK
  <2>2. QED  BY <1>5, <2>1, FrameTyping DEF StopJoins
<1>6. CASE post
  <2>1. ThreadTypeOK'
    BY <1>6 DEF post, ClientGoes, ThreadTypeOK
  <2>2. HistoryTypeOK'
    BY <1>6 DEF post, HistoryTypeOK, settled
  <2>3. m_messageQueue!TypeOK(Nat)'
    <3>1. posted' \in Nat
      BY <2>2 DEF HistoryTypeOK
    <3>2. QED
      BY <1>6, <3>1, QueueTyping DEF post, m_messageQueue!put, m_messageQueue!TypeOK
  <2>4. QED  BY <1>6, <2>1, <2>2, <2>3, FrameTyping DEF post
<1>7. CASE PostNotifies
  <2>1. ThreadTypeOK'
    BY <1>7 DEF PostNotifies, ClientGoes, ThreadTypeOK
  <2>2. m_messageQueue!TypeOK(Nat)'
    BY <1>7 DEF PostNotifies, m_messageQueue!notify_one, m_messageQueue!TypeOK
  <2>3. QED  BY <1>7, <2>1, <2>2, FrameTyping DEF PostNotifies
<1>8. CASE dropMessages
  <2>1. m_messageQueue!TypeOK(Nat)'
    BY <1>8 DEF dropMessages, m_messageQueue!clear, m_messageQueue!TypeOK
  <2>2. HistoryTypeOK'
    <3>1. Range(jobs) \subseteq Nat
      BY DEF Range, m_messageQueue!TypeOK
    <3>2. QED  BY <1>8, <3>1 DEF dropMessages, HistoryTypeOK, calls
  <2>3. QED  BY <1>8, <2>1, <2>2, FrameTyping DEF dropMessages
<1>9. QED  BY <1>1, <1>2, <1>3, <1>4, <1>5, <1>6, <1>7, <1>8 DEF Client

LEMMA NextTyped == TypeOK /\ [Next]_vars => TypeOK'
<1> SUFFICES ASSUME TypeOK, [Next]_vars PROVE TypeOK'
  OBVIOUS
<1>0. "worker" \in Threads /\ "io" \in Threads
  BY DEF Threads
<1>1. CASE Client
  BY <1>1, ClientTyped
<1>2. CASE WorkerThread
  BY <1>2, <1>0, WorkerTyped, SharedStepTyped, StateMachineTyped DEF WorkerThread
<1>3. CASE IoThread
  BY <1>3, <1>0, HandlerTyped, SharedStepTyped, StateMachineTyped DEF IoThread
<1>4. CASE Completion
  <2>1. ServiceTypeOK'
    BY <1>4 DEF Completion, TypeOK, ServiceTypeOK
  <2>2. QED  BY <1>4, <2>1, FrameTyping DEF Completion, TypeOK
<1>5. CASE UNCHANGED vars
  <2>1. UNCHANGED <<queue, flags, m_sentinel, m_errDelay, machine, m_sendingMessage,
                    receive, threads, service, calls, settled>>
    BY <1>5 DEF vars
  <2>2. QED  BY <2>1, FrameTyping DEF TypeOK
<1>6. QED  BY <1>1, <1>2, <1>3, <1>4, <1>5 DEF Next

(***************************************************************************)
(* Whatever the order in which the worker, the io thread and the client    *)
(* overtake each other, and however many operations they leave behind, the *)
(* fields of the transmitter keep to their ranges; among them the back-off *)
(* of a failed session, which is doubled and never exceeds 2 * MaxDelay.   *)
(***************************************************************************)
THEOREM TypeCorrect == Spec => []TypeOK
<1>1. Init => TypeOK
  BY InitTyped
<1>2. TypeOK /\ [Next]_vars => TypeOK'
  BY NextTyped
<1>3. QED  BY <1>1, <1>2, PTL DEF Spec

=============================================================================

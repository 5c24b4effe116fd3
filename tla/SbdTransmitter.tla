--------------------------- MODULE SbdTransmitter ---------------------------
(***************************************************************************)
(* SbdTransmitter: sends MT messages to the Iridium gateway, one TCP       *)
(* session per message (src/SbdTransmitter.cpp, SbdTransmitter.hpp).       *)
(*                                                                         *)
(* Three threads share its fields without a lock: the client that calls    *)
(* start(), stop(), post() and dropMessages(); the worker thread, which    *)
(* waits for a message and opens a session; and the thread that runs the   *)
(* io_service, on which the completion handlers run.  The last two both    *)
(* execute StateMachine().  One step is one access to the fields that      *)
(* another thread may separate from the next; the steps of a handler are   *)
(*                                                                         *)
(*    its checks  -->  "assign" m_prevState = m_state; m_state = s         *)
(*                -->  "dispatch" StateMachine(), a switch on m_state      *)
(*                                                                         *)
(* so that a user callback, or the other thread, may run in between.       *)
(*                                                                         *)
(* Messages are numbered in the order in which they are posted.            *)
(***************************************************************************)
EXTENDS Integers, Sequences, FiniteSets, Functions

CONSTANTS MaxPosts,         \* bound: calls of post()
          MaxStops,         \* bound: calls of stop()
          MaxOps,           \* bound: outstanding operations at which a session may begin
          MaxQueue,         \* bound: length of the queue at which a session may begin
          MaxDelay,         \* SbdTransmitter::MaxDelay
          ConfirmationSize  \* size of a confirmation, in units of reception

ASSUME ConstantsAssumption ==
  /\ MaxPosts \in Nat
  /\ MaxStops \in Nat
  /\ MaxOps \in Nat \ {0}
  /\ MaxQueue \in Nat
  /\ MaxDelay \in Nat \ {0}
  /\ ConfirmationSize \in Nat \ {0}

Messages == 1 .. MaxPosts
EmptyMessage == 0                       \* a default-constructed MtMessage

\* enum State, in the order of the source: its comparisons rely on it.
eNotConnected == 0
eResolving == 1
eConnecting == 2
eSending == 3
eReceivingHeader == 4
eReceivingConfirmation == 5
eProcessingConfirmation == 6
eError == 7
eSuccess == 8
State == 0 .. 8

\* The asynchronous operations, named after what they wait for.
SocketOps == {"connect", "write", "header", "confirmation"}
Kinds == SocketOps \union {"resolve", "delay"}

\* The state a completion handler expects; the handler of the delay timer
\* does not look at the state.
Awaits == [resolve |-> eResolving, connect |-> eConnecting, write |-> eSending,
           header |-> eReceivingHeader, confirmation |-> eReceivingConfirmation]

Threads == {"worker", "io"}            \* those that execute StateMachine()

NoBuf == -1                             \* m_buf holds no streambuf
MaxReceived == ConfirmationSize + 1     \* one unit too many stands for any surplus

VARIABLES
  jobs, consumer,                       \* m_messageQueue
  m_running, m_shutdown, m_sentinel, m_errDelay, m_prevState, m_state,
  m_sendingMessage,
  m_buf,                                \* NoBuf, or the units held
  m_confirmationLength,
  client,                               \* where the client stands in post(), stop()
  pc, target,                           \* of the worker and the io thread
  ops,                                  \* operations under way, by kind
  ready,                                \* ended ones whose handlers wait to run
  posted, stops,                        \* counters: calls of post() and stop()
  confirmed, dropped                    \* history: messages that left the outbox

queue == <<jobs, consumer>>
flags == <<m_running, m_shutdown>>
machine == <<m_prevState, m_state>>
receive == <<m_buf, m_confirmationLength>>
threads == <<client, pc, target>>
service == <<ops, ready>>
calls == <<posted, stops>>
settled == <<confirmed, dropped>>
vars == <<queue, flags, m_sentinel, m_errDelay, machine, m_sendingMessage,
          receive, threads, service, calls, settled>>

m_messageQueue == INSTANCE JobUnitQueue WITH EmptyJob <- EmptyMessage

Init ==
  /\ m_messageQueue!Init
  /\ m_running = FALSE /\ m_shutdown = FALSE
  /\ m_sentinel = FALSE
  /\ m_errDelay = 1
  /\ m_prevState = eNotConnected /\ m_state = eNotConnected
  /\ m_sendingMessage = EmptyMessage
  /\ m_buf = NoBuf /\ m_confirmationLength = 0
  /\ client = "idle"
  /\ pc = [worker |-> "none", io |-> "run"]
  /\ target = [worker |-> eNotConnected, io |-> eNotConnected]
  /\ ops = [k \in Kinds |-> 0] /\ ready = <<>>
  /\ posted = 0 /\ stops = 0
  /\ confirmed = {} /\ dropped = {}

-----------------------------------------------------------------------------
(* Asynchronous operations.                                                *)

StartOp(k) == /\ ops' = [ops EXCEPT ![k] = @ + 1]
              /\ UNCHANGED ready

\* An operation ends; its handler is queued.
Completion == \E k \in Kinds :
  /\ ops[k] > 0
  /\ ops' = [ops EXCEPT ![k] = @ - 1]
  /\ ready' = Append(ready, k)
  /\ UNCHANGED <<queue, flags, m_sentinel, m_errDelay, machine, m_sendingMessage,
                 receive, threads, calls, settled>>

\* Cancelling aborts the operations that have not ended: their handlers return
\* at once, so they are simply gone.  A handler already queued is not affected.
Without(kinds) == [k \in Kinds |-> IF k \in kinds THEN 0 ELSE ops[k]]

CancelOps(kinds) == ops' = Without(kinds) /\ UNCHANGED ready

\* Starting k cancels the kinds given: async_connect closes the socket first,
\* expires_from_now cancels the earlier waits of the timer.
RestartOp(k, kinds) == /\ ops' = [Without(kinds) EXCEPT ![k] = 1]
                       /\ UNCHANGED ready

\* A socket whose remote endpoint is gone is not closed, and nothing is
\* cancelled.
ClosedKinds == {{}, SocketOps}

-----------------------------------------------------------------------------
(* The steps of a thread t inside a handler, worker() and StateMachine().  *)

Goto(t, label) == /\ pc' = [pc EXCEPT ![t] = label]
                  /\ target' = [target EXCEPT ![t] = eNotConnected]
                  /\ UNCHANGED client

\* target[t] is the state that t is about to write.
Aim(t, s) == /\ pc' = [pc EXCEPT ![t] = "assign"]
             /\ target' = [target EXCEPT ![t] = s]
             /\ UNCHANGED client

\* StateMachine() returns: the worker goes on with its loop, the io thread
\* with the next completion.
Return(t) == Goto(t, IF t = "worker" THEN "loop" ELSE "run")

Assign(t) ==
  /\ pc[t] = "assign"
  /\ m_prevState' = m_state
  /\ m_state' = target[t]
  /\ Goto(t, "dispatch")
  /\ UNCHANGED <<queue, flags, m_sentinel, m_errDelay, m_sendingMessage, receive,
                 service, calls, settled>>

Dispatches(t, s) == pc[t] = "dispatch" /\ m_state = s

NotConnected(t) ==
  /\ Dispatches(t, eNotConnected)
  /\ Goto(t, "reset")
  /\ UNCHANGED <<queue, flags, m_sentinel, m_errDelay, machine, m_sendingMessage,
                 receive, service, calls, settled>>

\* The body of the case eNotConnected, which the other thread may overtake.
Reset(t) ==
  /\ pc[t] = "reset"
  /\ m_buf' = NoBuf
  /\ m_confirmationLength' = 0
  /\ m_sentinel' = FALSE
  /\ Return(t)
  /\ UNCHANGED <<queue, flags, m_errDelay, machine, m_sendingMessage, service, calls,
                 settled>>

Resolving(t) ==
  /\ Dispatches(t, eResolving)
  /\ m_sentinel' = TRUE
  /\ StartOp("resolve")
  /\ Return(t)
  /\ UNCHANGED <<queue, flags, m_errDelay, machine, m_sendingMessage, receive,
                 calls, settled>>

Connecting(t) ==
  /\ Dispatches(t, eConnecting)
  /\ RestartOp("connect", SocketOps)
  /\ Return(t)
  /\ UNCHANGED <<queue, flags, m_sentinel, m_errDelay, machine, m_sendingMessage,
                 receive, calls, settled>>

\* The message is fetched here, not where the session was decided on.
Sending(t) ==
  /\ Dispatches(t, eSending)
  /\ m_sendingMessage' = m_messageQueue!front
  /\ m_messageQueue!get
  /\ m_buf' = 0
  /\ StartOp("write")
  /\ Return(t)
  /\ UNCHANGED <<flags, m_sentinel, m_errDelay, machine, m_confirmationLength,
                 calls, settled>>

\* Faulty variant: the reception finds no buffer.
ReceivingHeaderNoBuffer(t) ==
  /\ Dispatches(t, eReceivingHeader)
  /\ m_buf' = NoBuf
  /\ StartOp("header")
  /\ Return(t)
  /\ UNCHANGED <<queue, flags, m_sentinel, m_errDelay, machine, m_sendingMessage,
                 m_confirmationLength, calls, settled>>

ReceivingHeader(t) ==
  /\ Dispatches(t, eReceivingHeader)
  /\ m_buf' = 0
  /\ StartOp("header")
  /\ Return(t)
  /\ UNCHANGED <<queue, flags, m_sentinel, m_errDelay, machine, m_sendingMessage,
                 m_confirmationLength, calls, settled>>

ReceivingConfirmation(t) ==
  /\ Dispatches(t, eReceivingConfirmation)
  /\ m_buf # NoBuf
  /\ \/ /\ m_buf < m_confirmationLength
        /\ StartOp("confirmation")
        /\ Return(t)
     \/ /\ m_buf >= m_confirmationLength
        /\ Aim(t, eProcessingConfirmation)
        /\ UNCHANGED service
  /\ UNCHANGED <<queue, flags, m_sentinel, m_errDelay, machine, m_sendingMessage,
                 receive, calls, settled>>

\* Faulty variant: the error is reported, and the session left as it is.
ConfirmationIgnored(t) ==
  /\ Dispatches(t, eProcessingConfirmation)
  /\ m_buf # NoBuf
  /\ Return(t)
  /\ UNCHANGED <<queue, flags, m_sentinel, m_errDelay, machine, m_sendingMessage,
                 receive, service, calls, settled>>

\* Not a confirmation, or one that cannot be parsed.
ConfirmationRefused(t) ==
  /\ Dispatches(t, eProcessingConfirmation)
  /\ m_buf # NoBuf
  /\ Aim(t, eError)
  /\ UNCHANGED <<queue, flags, m_sentinel, m_errDelay, machine, m_sendingMessage,
                 receive, service, calls, settled>>

\* A confirmation with its status, which is reported to the client.  Units
\* beyond the confirmation are reported as an error and otherwise ignored.
ConfirmationParsed(t) ==
  /\ Dispatches(t, eProcessingConfirmation)
  /\ m_buf # NoBuf
  /\ m_confirmationLength = ConfirmationSize
  /\ m_buf' = IF m_buf > m_confirmationLength THEN m_buf - m_confirmationLength ELSE 0
  /\ \/ /\ Aim(t, eError)               \* status < 0
        /\ UNCHANGED <<m_errDelay, confirmed>>
     \/ /\ confirmed' = confirmed \union ({m_sendingMessage} \ {EmptyMessage})
        /\ m_errDelay' = 1
        /\ Aim(t, eSuccess)
  /\ UNCHANGED <<queue, flags, m_sentinel, machine, m_sendingMessage,
                 m_confirmationLength, service, calls, dropped>>

\* Faulty variant: a failed transmission does not return its message.
FailingLosesMessage(t) ==
  /\ Dispatches(t, eError)
  /\ IF m_prevState > eSending
     THEN m_messageQueue!unget(m_sendingMessage)
     ELSE UNCHANGED queue
  /\ \E closed \in IF m_prevState > eConnecting THEN ClosedKinds ELSE {{}} :
        RestartOp("delay", closed \union {"delay"})
  /\ Return(t)
  /\ UNCHANGED <<flags, m_sentinel, m_errDelay, machine, m_sendingMessage, receive,
                 calls, settled>>

Failing(t) ==
  /\ Dispatches(t, eError)
  /\ IF m_prevState >= eSending
     THEN m_messageQueue!unget(m_sendingMessage)
     ELSE UNCHANGED queue
  /\ \E closed \in IF m_prevState > eConnecting THEN ClosedKinds ELSE {{}} :
        RestartOp("delay", closed \union {"delay"})
  /\ Return(t)
  /\ UNCHANGED <<flags, m_sentinel, m_errDelay, machine, m_sendingMessage, receive,
                 calls, settled>>

Succeeding(t) ==
  /\ Dispatches(t, eSuccess)
  /\ \E closed \in ClosedKinds : CancelOps(closed)
  /\ Aim(t, eNotConnected)
  /\ UNCHANGED <<queue, flags, m_sentinel, m_errDelay, machine, m_sendingMessage,
                 receive, calls, settled>>

StateMachine(t) ==
  \/ NotConnected(t) \/ Reset(t) \/ Resolving(t) \/ Connecting(t) \/ Sending(t)
  \/ ReceivingHeader(t) \/ ReceivingConfirmation(t) \/ ConfirmationRefused(t)
  \/ ConfirmationParsed(t) \/ Failing(t) \/ Succeeding(t)

-----------------------------------------------------------------------------
(* The io thread: one completion handler at a time.                        *)

\* The handler of an operation of kind k runs.
Completes(k) == /\ pc["io"] = "run"
                /\ ready # <<>> /\ k = Head(ready)
                /\ ready' = Tail(ready)
                /\ UNCHANGED ops

Expected(k) == m_state = Awaits[k] /\ ~ m_shutdown

\* The handler of the write drops the buffer before it looks at the state.
AfterCompletion(k) == IF k = "write" THEN NoBuf ELSE m_buf

\* The session has moved on, or the transmitter is being stopped.
StaleCompletion ==
  \E k \in Kinds \ {"delay"} :
    /\ Completes(k)
    /\ ~ Expected(k)
    /\ m_buf' = AfterCompletion(k)
    /\ UNCHANGED <<queue, flags, m_sentinel, m_errDelay, machine, m_sendingMessage,
                   m_confirmationLength, threads, calls, settled>>

\* The operation failed, or the header has another protocol number.
OperationFailed ==
  \E k \in Kinds \ {"delay"} :
    /\ Completes(k)
    /\ Expected(k)
    /\ Aim("io", eError)
    /\ m_buf' = AfterCompletion(k)
    /\ UNCHANGED <<queue, flags, m_sentinel, m_errDelay, machine, m_sendingMessage,
                   m_confirmationLength, calls, settled>>

\* Done with nothing to keep but, for the resolver, the iterator.
OperationDone(k, s) ==
  /\ Completes(k)
  /\ Expected(k)
  /\ Aim("io", s)
  /\ m_buf' = AfterCompletion(k)
  /\ UNCHANGED <<queue, flags, m_sentinel, m_errDelay, machine, m_sendingMessage,
                 m_confirmationLength, calls, settled>>

Resolved  == OperationDone("resolve", eConnecting)
Connected == OperationDone("connect", eSending)
Written   == OperationDone("write", eReceivingHeader)

\* The header announces a length; any number of units may have come with it.
\* A read that stops inside the header yields an arbitrary one.
HeaderReceived ==
  /\ Completes("header")
  /\ Expected("header")
  /\ m_buf # NoBuf
  /\ m_buf' \in 0 .. MaxReceived
  /\ m_confirmationLength' \in 0 .. ConfirmationSize
  /\ Aim("io", eReceivingConfirmation)
  /\ UNCHANGED <<queue, flags, m_sentinel, m_errDelay, machine, m_sendingMessage,
                 calls, settled>>

ConfirmationReceived ==
  /\ Completes("confirmation")
  /\ Expected("confirmation")
  /\ m_buf # NoBuf
  /\ m_buf' \in m_buf + 1 .. MaxReceived
  /\ Aim("io", eReceivingConfirmation)
  /\ UNCHANGED <<queue, flags, m_sentinel, m_errDelay, machine, m_sendingMessage,
                 m_confirmationLength, calls, settled>>

\* Faulty variant: the delay grows without limit.
DelayExpiredUnlimited ==
  /\ Completes("delay")
  /\ m_errDelay' = 2 * m_errDelay
  /\ Aim("io", eNotConnected)
  /\ UNCHANGED <<queue, flags, m_sentinel, machine, m_sendingMessage, receive,
                 calls, settled>>

\* The handler of the delay timer checks nothing.
DelayExpired ==
  /\ Completes("delay")
  /\ m_errDelay' = IF m_errDelay < MaxDelay THEN 2 * m_errDelay ELSE m_errDelay
  /\ Aim("io", eNotConnected)
  /\ UNCHANGED <<queue, flags, m_sentinel, machine, m_sendingMessage, receive,
                 calls, settled>>

Handler == \/ StaleCompletion \/ OperationFailed \/ Resolved \/ Connected \/ Written
           \/ HeaderReceived \/ ConfirmationReceived \/ DelayExpired

-----------------------------------------------------------------------------
(* The worker thread.                                                      *)

WorkerBegins ==
  /\ pc["worker"] = "init"
  /\ m_errDelay' = 1
  /\ m_prevState' = eNotConnected
  /\ m_state' = eNotConnected
  /\ Goto("worker", "loop")
  /\ UNCHANGED <<queue, flags, m_sentinel, m_sendingMessage, receive, service, calls,
                 settled>>

Waits == pc["worker"] = "loop" /\ ~ m_shutdown /\ m_state = eNotConnected

\* Two threads that overtake each other multiply the operations, and return a
\* message twice when both fail.  These bounds stop that; they are not met where
\* the threads do not overtake each other and the transmitter is not restarted.
BeginSession == /\ Cardinality({k \in Kinds : ops[k] > 0}) + Len(ready) < MaxOps
                /\ Len(jobs) <= MaxQueue
                /\ Aim("worker", eResolving)

\* wait_for() finds a message, or blocks; the worker goes on to a session when
\* it returns false and looks at m_shutdown again when it returns true.
MessageFound ==
  /\ Waits
  /\ m_messageQueue!HasJobs
  /\ BeginSession
  /\ UNCHANGED <<flags, m_sentinel, m_errDelay, machine, m_sendingMessage, receive,
                 service, calls, settled>>

WorkerBlocks ==
  /\ Waits
  /\ m_messageQueue!Block
  /\ Goto("worker", "waiting")
  /\ UNCHANGED <<flags, m_sentinel, m_errDelay, machine, m_sendingMessage, receive,
                 service, calls, settled>>

\* Notified, or woken up for no reason.
WorkerWakes ==
  /\ pc["worker"] = "waiting"
  /\ m_messageQueue!LeaveWait
  /\ BeginSession
  /\ UNCHANGED <<flags, m_sentinel, m_errDelay, machine, m_sendingMessage, receive,
                 service, calls, settled>>

\* Faulty variant: the wait has no time limit.
WaitEndsOnNotify ==
  /\ pc["worker"] = "waiting"
  /\ consumer = "notified"
  /\ m_messageQueue!LeaveWait
  /\ Goto("worker", "loop")
  /\ UNCHANGED <<flags, m_sentinel, m_errDelay, machine, m_sendingMessage, receive,
                 service, calls, settled>>

WaitTimesOut ==
  /\ pc["worker"] = "waiting"
  /\ m_messageQueue!LeaveWait
  /\ Goto("worker", "loop")
  /\ UNCHANGED <<flags, m_sentinel, m_errDelay, machine, m_sendingMessage, receive,
                 service, calls, settled>>

WorkerExits ==
  /\ pc["worker"] = "loop"
  /\ m_shutdown
  /\ m_sentinel' = FALSE
  /\ m_running' = FALSE
  /\ Goto("worker", "none")
  /\ UNCHANGED <<queue, m_shutdown, m_errDelay, machine, m_sendingMessage, receive,
                 service, calls, settled>>

Worker == \/ WorkerBegins \/ MessageFound \/ WorkerBlocks \/ WorkerWakes
          \/ WaitTimesOut \/ WorkerExits

-----------------------------------------------------------------------------
(* The client: one call at a time.                                         *)

start ==
  /\ client = "idle"
  /\ ~ m_running
  /\ m_running' = TRUE
  /\ m_shutdown' = FALSE
  /\ pc' = [pc EXCEPT !["worker"] = "init"]
  /\ UNCHANGED <<queue, m_sentinel, m_errDelay, machine, m_sendingMessage, receive,
                 client, target, service, calls, settled>>

ClientGoes(from, to) == /\ client = from
                        /\ client' = to
                        /\ UNCHANGED <<pc, target>>

stop ==
  /\ ClientGoes("idle", "cancelTimer")
  /\ m_running
  /\ stops < MaxStops
  /\ stops' = stops + 1
  /\ m_shutdown' = TRUE
  /\ UNCHANGED <<queue, m_running, m_sentinel, m_errDelay, machine,
                 m_sendingMessage, receive, service, posted, settled>>

StopCancels(from, kinds, to) ==
  /\ ClientGoes(from, to)
  /\ CancelOps(kinds)
  /\ UNCHANGED <<queue, flags, m_sentinel, m_errDelay, machine, m_sendingMessage,
                 receive, calls, settled>>

\* The resolver is not cancelled.  An async_connect whose attempt is cancelled
\* goes on with the next endpoint, if there is one.
StopCancelsTimer  == StopCancels("cancelTimer", {"delay"}, "cancelSocket")
StopCancelsSocket == \E kinds \in {SocketOps, SocketOps \ {"connect"}} :
                        StopCancels("cancelSocket", kinds, "join")

StopJoins ==
  /\ ClientGoes("join", "idle")
  /\ pc["worker"] = "none"
  /\ UNCHANGED <<queue, flags, m_sentinel, m_errDelay, machine, m_sendingMessage,
                 receive, service, calls, settled>>

post ==
  /\ ClientGoes("idle", "notify")
  /\ posted < MaxPosts
  /\ posted' = posted + 1
  /\ m_messageQueue!put(posted')
  /\ UNCHANGED <<flags, m_sentinel, m_errDelay, machine, m_sendingMessage, receive,
                 service, stops, settled>>

PostNotifies ==
  /\ ClientGoes("notify", "idle")
  /\ m_messageQueue!notify_one
  /\ UNCHANGED <<flags, m_sentinel, m_errDelay, machine, m_sendingMessage, receive,
                 service, calls, settled>>

dropMessages ==
  /\ client = "idle"
  /\ m_messageQueue!clear
  /\ dropped' = dropped \union (Range(jobs) \ {EmptyMessage})
  /\ UNCHANGED <<flags, m_sentinel, m_errDelay, machine, m_sendingMessage, receive,
                 threads, service, calls, confirmed>>

Client == \/ start \/ stop \/ StopCancelsTimer \/ StopCancelsSocket \/ StopJoins
          \/ post \/ PostNotifies \/ dropMessages

-----------------------------------------------------------------------------
\* A null m_buf is dereferenced: the process dies.
NullBuffer(t) ==
  /\ m_buf = NoBuf
  /\ \/ /\ pc[t] = "dispatch"
        /\ m_state \in {eReceivingConfirmation, eProcessingConfirmation}
        /\ UNCHANGED service
     \/ /\ t = "io"
        /\ \E k \in {"header", "confirmation"} : Completes(k) /\ Expected(k)
  /\ Goto(t, "crashed")
  /\ UNCHANGED <<queue, flags, m_sentinel, m_errDelay, machine, m_sendingMessage,
                 receive, calls, settled>>

Alive == \A t \in Threads : pc[t] # "crashed"

WorkerThread ==
  Worker \/ Assign("worker") \/ StateMachine("worker") \/ NullBuffer("worker")

IoThread == Handler \/ Assign("io") \/ StateMachine("io") \/ NullBuffer("io")

Next == Alive /\ (Client \/ WorkerThread \/ IoThread \/ Completion)

Spec == Init /\ [][Next]_vars

(***************************************************************************)
(* The worker writes eResolving and runs StateMachine(), and a handler     *)
(* writes eNotConnected and runs StateMachine(), with nothing to keep one  *)
(* from overtaking the other in between: NoLoss is violated under Spec.    *)
(* SerialSpec leaves these overtakings out, and only them: neither thread  *)
(* moves while the other is between its first write of m_state and the end *)
(* of StateMachine().  The client still interleaves with both.             *)
(***************************************************************************)
Busy == {"assign", "dispatch", "reset"}

WorkerTurn == pc["io"] = "run" /\ WorkerThread
IoTurn == pc["worker"] \notin Busy /\ IoThread

SerialNext == Alive /\ (Client \/ WorkerTurn \/ IoTurn \/ Completion)

SerialSpec == Init /\ [][SerialNext]_vars

(***************************************************************************)
(* Fairness.  The operating system runs the threads: the worker, the call  *)
(* of the client that is under way, and the io thread.  Every operation    *)
(* ends at some time; the code sets no timeout on the gateway, so that is  *)
(* an assumption about it.                                                 *)
(***************************************************************************)
Stopping == StopCancelsTimer \/ StopCancelsSocket \/ StopJoins

\* Nobody is obliged to wake the worker for no reason.
SpuriousWakeup == consumer = "blocked" /\ WorkerWakes

RunsThreads == /\ WF_vars(Alive /\ WorkerTurn /\ ~ SpuriousWakeup)
               /\ WF_vars(Alive /\ Stopping)
               /\ WF_vars(Alive /\ IoTurn)
               /\ WF_vars(Alive /\ Completion)

\* A network that does not fail for ever, and a gateway that does not refuse
\* for ever: what is attempted again and again succeeds at some time.
NetworkRecovers ==
  /\ SF_vars(Resolved)
  /\ SF_vars(Connected)
  /\ SF_vars(Written)
  /\ SF_vars(HeaderReceived /\ m_confirmationLength' = ConfirmationSize)
  /\ SF_vars(/\ ConfirmationReceived
             /\ m_confirmationLength = ConfirmationSize
             /\ m_buf' >= ConfirmationSize)
  /\ SF_vars(ConfirmationParsed("io") /\ target'["io"] = eSuccess)

LiveSpec == SerialSpec /\ RunsThreads /\ NetworkRecovers

\* All overtakings, the threads still being run.
RaceSpec == /\ Spec
            /\ WF_vars(Alive /\ WorkerThread /\ ~ SpuriousWakeup)
            /\ WF_vars(Alive /\ Stopping)
            /\ WF_vars(Alive /\ IoThread)
            /\ WF_vars(Alive /\ Completion)

-----------------------------------------------------------------------------
Labels == {"none", "init", "loop", "waiting", "run", "crashed"} \union Busy

FlagTypeOK == m_running \in BOOLEAN /\ m_shutdown \in BOOLEAN /\ m_sentinel \in BOOLEAN

FieldTypeOK ==
  /\ m_errDelay \in 1 .. 2 * MaxDelay
  /\ m_prevState \in State /\ m_state \in State
  /\ m_sendingMessage \in Nat
  /\ m_buf \in 0 .. MaxReceived \union {NoBuf}
  /\ m_confirmationLength \in 0 .. ConfirmationSize

ThreadTypeOK ==
  /\ client \in {"idle", "notify", "cancelTimer", "cancelSocket", "join"}
  /\ pc \in [Threads -> Labels]
  /\ target \in [Threads -> State]

ServiceTypeOK ==
  /\ ops \in [Kinds -> Nat]
  /\ ready \in Seq(Kinds)

HistoryTypeOK ==
  /\ posted \in 0 .. MaxPosts /\ stops \in 0 .. MaxStops
  /\ confirmed \in SUBSET Nat /\ dropped \in SUBSET Nat

TypeOK == /\ m_messageQueue!TypeOK(Nat)
          /\ FlagTypeOK /\ FieldTypeOK
          /\ ThreadTypeOK /\ ServiceTypeOK /\ HistoryTypeOK

Outstanding(k) == ops[k] > 0 \/ k \in Range(ready)

Queued == Range(jobs) \ {EmptyMessage}

\* The session owns m_sendingMessage: it was taken off the queue, and neither
\* its confirmation was accepted nor was it returned to the queue.
HoldsMessage ==
  \/ m_state \in {eReceivingHeader, eReceivingConfirmation}
  \/ m_state = eSending /\ pc["io"] # "dispatch"
  \/ /\ m_state = eProcessingConfirmation
     /\ ~ (pc["io"] = "assign" /\ target["io"] = eSuccess)
  \/ /\ m_state = eError /\ m_prevState >= eSending
     /\ pc["io"] = "dispatch"

InTransit == IF HoldsMessage THEN {m_sendingMessage} \ {EmptyMessage} ELSE {}

(***************************************************************************)
(* Every message ever posted is in exactly one place: delivered, dropped   *)
(* by the client, in the queue, or in the session.  The code moves it with *)
(* get(), unget() and the reported status, in different handlers.          *)
(***************************************************************************)
Accounted ==
  /\ 1 .. posted = confirmed \union dropped \union Queued \union InTransit
  /\ confirmed \intersect dropped = {}
  /\ (Queued \union InTransit) \intersect (confirmed \union dropped) = {}
  /\ Queued \intersect InTransit = {}

(***************************************************************************)
(* "In the order of arrival" (SbdTransmitter.hpp:17): the queue is in      *)
(* posting order without repetition, behind what the session holds, which  *)
(* is behind everything delivered - through any number of failed sessions, *)
(* each of which returns its message with unget().                         *)
(***************************************************************************)
Ordered ==
  /\ \A i, j \in 1 .. Len(jobs) : i < j => jobs[i] < jobs[j]
  /\ HoldsMessage => \A i \in 1 .. Len(jobs) : m_sendingMessage < jobs[i]
  /\ \A c \in confirmed : \A m \in Queued \union InTransit : c < m

(***************************************************************************)
(* A session under way is moved on by exactly one thing: a thread inside a *)
(* handler or StateMachine(), or one outstanding operation whose handler   *)
(* expects the current state.  None, and the transmitter stalls for good;  *)
(* two, and the handlers of one session interfere.                         *)
(***************************************************************************)
OneActivity ==
  LET busy == {t \in Threads : pc[t] \in Busy}
      underWay == {k \in Kinds : ops[k] > 0}
      outstanding == underWay \union Range(ready)
  IN  /\ \A k \in Kinds : ops[k] <= 1
      /\ Cardinality(busy) + Cardinality(underWay) + Len(ready) =
           (IF m_state = eNotConnected /\ busy = {} THEN 0 ELSE 1)
      /\ \A k \in outstanding : m_state = IF k = "delay" THEN eError ELSE Awaits[k]

(***************************************************************************)
(* While an operation works on m_buf its handlers do not take the buffer   *)
(* away, and m_sentinel keeps the io_service running for the whole of a    *)
(* session.                                                                *)
(***************************************************************************)
ResourcesHeld ==
  /\ (\E k \in SocketOps \ {"connect"} : Outstanding(k)) => m_buf # NoBuf
  /\ (\E k \in Kinds : Outstanding(k)) => m_sentinel

\* "In case of an unsuccessful sending the message returns to the head of the
\* queue" (SbdTransmitter.hpp:23-24): no posted message, short of being
\* delivered or dropped, is ever in no field of the transmitter at all.
Lost == (1 .. posted) \ (confirmed \union dropped \union Queued \union {m_sendingMessage})
NoLoss == Lost = {}

\* Stopping loses the message of the session that is cut off, and no other.
LossPerStop == Cardinality(Lost) <= stops

-----------------------------------------------------------------------------
\* A message posted to a running transmitter is delivered at last, through
\* failures, retries and back-off, unless the client drops it.
Delivered ==
  \A m \in Messages : (m <= posted /\ m_running) ~> (m \in confirmed \union dropped)

\* stop() waits for the worker, and the worker never waits for the network.
StopReturns == client = "cancelTimer" ~> (client = "idle" \/ ~ Alive)

\* The message of the session, in front of the queue.
InOrder == IF HoldsMessage THEN <<m_sendingMessage>> \o jobs ELSE jobs

\* An empty message can only come first: no client posts one, and unget()
\* returns what get() made up.
Undelivered == IF InOrder # <<>> /\ Head(InOrder) = EmptyMessage
               THEN Tail(InOrder)
               ELSE InOrder

Outbox == INSTANCE MtOutbox WITH Messages <- Messages,
                                 delivered <- confirmed,
                                 outbox <- Undelivered

\* A session is a step of the outbox at one point only, where the status is
\* reported; all that precedes it, failures and retries included, is not seen.
ImplementsOutbox == Outbox!Spec
=============================================================================
